-------------------------- MODULE DNSDialer_proofs ---------------------------
(***************************************************************************)
(* Proofs about DNSDialer, for any number of clients and addresses.        *)
(***************************************************************************)
EXTENDS DNSDialer, FiniteSetTheorems, SequenceTheorems, TLAPS

(* A function from 1..n is a sequence.                                     *)
LEMMA IsSequence ==
  ASSUME NEW S, NEW n \in Nat, NEW g \in [1..n -> S]
  PROVE  g \in Seq(S)
BY SeqDef

(* Sorting: every place is taken, because no two addresses have the same   *)
(* number of addresses before them.                                        *)
LEMMA BeforeType ==
  ASSUME NEW S \in SUBSET Nat, IsFiniteSet(S), NEW a \in S
  PROVE  Before(a, S) \in 0..(Cardinality(S) - 1)
<1> DEFINE B == {b \in S : b < a}
<1>1. IsFiniteSet(B) /\ IsFiniteSet(S \ {a})
  BY FS_Subset, FS_RemoveElement
<1>2. Cardinality(S \ {a}) = Cardinality(S) - 1
  BY FS_RemoveElement
<1>3. B \in SUBSET (S \ {a})
  OBVIOUS
<1>4. /\ Cardinality(B) <= Cardinality(S \ {a})
      /\ Cardinality(B) \in Nat /\ Cardinality(S) \in Nat
  BY <1>1, <1>3, FS_Subset, FS_CardinalityType
<1> HIDE DEF B
<1>5. Before(a, S) = Cardinality(B)
  BY DEF Before, B
<1> QED
  BY <1>2, <1>4, <1>5

LEMMA BeforeDiffers ==
  ASSUME NEW S \in SUBSET Nat, IsFiniteSet(S), NEW a \in S, NEW b \in S, a < b
  PROVE  Before(a, S) # Before(b, S)
<1> DEFINE A == {c \in S : c < a}
           B == {c \in S : c < b}
<1>1. A \in SUBSET B /\ a \in B /\ a \notin A
  <2>1. a \in Nat /\ b \in Nat
    OBVIOUS
  <2>2. ASSUME NEW c \in S, c < a PROVE c < b
    <3>1. c \in Nat
      OBVIOUS
    <3> QED
      BY ONLY <2>1, <2>2, <3>1, a < b
  <2>3. A \in SUBSET B
    BY <2>2
  <2> QED
    BY <2>1, <2>3
<1>2. IsFiniteSet(B)
  BY FS_Subset
<1>3. Cardinality(A) # Cardinality(B)
  <2> HIDE DEF A, B
  <2> QED
    BY <1>1, <1>2, FS_Subset
<1> QED
  BY <1>3 DEF Before

LEMMA SortedType ==
  ASSUME NEW S \in SUBSET Nat, IsFiniteSet(S)
  PROVE  /\ Sorted(S) \in Seq(S)
         /\ S # {} => Sorted(S) # <<>>
<1> DEFINE n == Cardinality(S)
           rank == [a \in S |-> Before(a, S)]
<1>1. n \in Nat /\ (S # {} => n > 0)
  BY FS_CardinalityType, FS_EmptySet
<1>2. rank \in [S -> 0..(n - 1)]
  BY BeforeType
<1>3. IsFiniteSet(0..(n - 1)) /\ Cardinality(0..(n - 1)) = n
  <2> HIDE DEF n
  <2>1. 0 \in Int /\ n - 1 \in Int
    BY <1>1
  <2>2. /\ IsFiniteSet(0..(n - 1))
        /\ Cardinality(0..(n - 1)) = IF 0 > n - 1 THEN 0 ELSE n - 1 - 0 + 1
    BY ONLY <2>1, FS_Interval
  <2> QED
    BY ONLY <1>1, <2>2
<1>4. rank \in Injection(S, 0..(n - 1))
  <2>1. \A a, b \in S : rank[a] = rank[b] => a = b
    <3> SUFFICES ASSUME NEW a \in S, NEW b \in S, a # b PROVE rank[a] # rank[b]
      OBVIOUS
    <3>1. a < b \/ b < a
      OBVIOUS
    <3> QED
      BY <3>1, BeforeDiffers
  <2> QED
    BY <1>2, <2>1 DEF Injection, IsInjective
<1>5. rank \in Surjection(S, 0..(n - 1))
  BY <1>3, <1>4, FS_Injection
<1>6. \A i \in 1..n : \E a \in S : Before(a, S) = i - 1
  <2> SUFFICES ASSUME NEW i \in 1..n PROVE \E a \in S : Before(a, S) = i - 1
    OBVIOUS
  <2>1. i - 1 \in 0..(n - 1)
    BY <1>1
  <2> QED
    BY <1>5, <2>1 DEF Surjection
<1>7. Sorted(S) \in [1..n -> S]
  BY <1>6 DEF Sorted
<1> HIDE DEF n
<1>8. Sorted(S) \in Seq(S)
  BY ONLY <1>1, <1>7, IsSequence
<1>9. S # {} => Sorted(S) # <<>>
  BY <1>1, <1>7
<1> QED
  BY <1>8, <1>9

-----------------------------------------------------------------------------
LEMMA AddrsTypes ==
  ASSUME NEW S \in SUBSET Addrs
  PROVE  /\ S \in SUBSET Nat /\ IsFiniteSet(S)
         /\ Sorted(S) \in Seq(Addrs \cup {Name})
         /\ S # {} => Sorted(S) # <<>>
<1>1. S \in SUBSET Nat /\ IsFiniteSet(S)
  BY AddrsAssumption, FS_Subset DEF AddrsAssumption
<1>2. Sorted(S) \in Seq(S) /\ (S # {} => Sorted(S) # <<>>)
  BY <1>1, SortedType
<1>3. Seq(S) \subseteq Seq(Addrs \cup {Name})
  BY ONLY S \in SUBSET Addrs, SeqDef
<1> QED
  BY <1>1, <1>2, <1>3

LEMMA OpenTypes ==
  /\ IsFiniteSet(Open)
  /\ \A a : IsFiniteSet(OpenAt(a)) /\ Cardinality(OpenAt(a)) \in Nat
<1>1. IsFiniteSet(Open)
  BY ClientsAssumption, FS_Subset DEF ClientsAssumption, Open
<1>2. ASSUME NEW a PROVE IsFiniteSet(OpenAt(a)) /\ Cardinality(OpenAt(a)) \in Nat
  BY <1>1, FS_Subset, FS_CardinalityType DEF OpenAt
<1> QED
  BY <1>1, <1>2

(* What Apply computes.                                                    *)
LEMMA ApplyTypes ==
  ASSUME answer \in SUBSET Addrs, answer # {}, Apply
  PROVE  /\ addrs' \in Seq(Addrs \cup {Name}) /\ addrs' # <<>>
         /\ counts' = [a \in Addrs |-> IF a \in answer THEN Cardinality(OpenAt(a)) ELSE 0]
         /\ counts' \in [Addrs -> Nat] /\ target' \in Nat
         /\ todo' = Open /\ refresh' = "scan"
         /\ UNCHANGED <<dns, next, clients, answer, toClose>>
<1> DEFINE allowed == {c \in Open : at[c] \in answer}
           t == IF Cardinality(allowed) < Cardinality(answer) \/ answer = {}
                THEN 1 ELSE Cardinality(allowed) \div Cardinality(answer)
<1>1. addrs' \in Seq(Addrs \cup {Name}) /\ addrs' # <<>>
  BY AddrsTypes DEF Apply
<1>2. /\ counts' = [a \in Addrs |-> IF a \in answer THEN Cardinality(OpenAt(a)) ELSE 0]
      /\ counts' \in [Addrs -> Nat]
  BY OpenTypes DEF Apply
<1>3. target' \in Nat
  <2>1. Cardinality(allowed) \in Nat
    BY OpenTypes, FS_Subset, FS_CardinalityType
  <2>2. Cardinality(answer) \in Nat \ {0}
    BY AddrsTypes, FS_CardinalityType, FS_EmptySet
  <2>3. target' = t
    BY DEF Apply
  <2> HIDE DEF allowed
  <2> QED
    BY <2>1, <2>2, <2>3
<1> QED
  BY <1>1, <1>2, <1>3 DEF Apply

(* Examine takes one off a positive count, or leaves the counts alone.     *)
LEMMA ExamineTypes ==
  ASSUME TypeOK, NEW c \in todo, Examine(c)
  PROVE  /\ c \in Clients /\ counts' \in [Addrs -> Nat] /\ toClose' \subseteq Clients
         /\ todo' = todo \ {c} /\ refresh' = refresh /\ Locked
         /\ UNCHANGED <<dns, addrs, next, clients, answer, target>>
<1>1. /\ c \in Clients /\ todo' = todo \ {c} /\ Locked
      /\ refresh' = refresh /\ UNCHANGED <<dns, addrs, next, clients, answer, target>>
      /\ toClose' \subseteq Clients
  BY DEF TypeOK, Examine
<1>2. counts' \in [Addrs -> Nat]
  <2>0. counts \in [Addrs -> Nat] /\ target \in Nat
    BY DEF TypeOK
  <2>1. CASE UNCHANGED counts
    BY <2>0, <2>1
  <2>2. CASE counts' # counts
    <3>1. /\ at[c] \notin answer \/ counts[at[c]] > target
          /\ counts' = [a \in Addrs |-> IF a = at[c] /\ a \in answer
                                        THEN counts[a] - 1 ELSE counts[a]]
      BY <2>2 DEF Examine
    <3>2. ASSUME NEW a \in Addrs PROVE counts'[a] \in Nat
      <4>1. CASE a = at[c] /\ a \in answer
        BY <2>0, <3>1, <4>1
      <4>2. CASE ~(a = at[c] /\ a \in answer)
        BY <2>0, <3>1, <4>2
      <4> QED
        BY <4>1, <4>2
    <3> QED
      BY <3>1, <3>2
  <2> QED
    BY <2>1, <2>2
<1> QED
  BY <1>1, <1>2

-----------------------------------------------------------------------------
(* Every variable keeps its type, the counts and the target of a rebalance *)
(* among them, and the rotation is never empty (dnsDialer.go:69-72,        *)
(* 121-124).                                                               *)
Rotation == TypeOK /\ SomewhereToDial /\ (refresh # "sleep" => answer # {})

LEMMA RotationStep ==
  ASSUME Rotation, [Next]_vars
  PROVE  Rotation'
<1> USE DEF Rotation, SomewhereToDial
<1>0. TypeOK /\ Name \in Addrs \cup {Name}
  OBVIOUS
<1>1. CASE Lookup
  BY <1>1 DEF Lookup, TypeOK, clients
<1>2. CASE Apply
  <2>1. refresh = "apply" /\ answer # {} /\ answer \in SUBSET Addrs
    BY <1>2 DEF Apply, TypeOK
  <2> QED
    BY <1>2, <2>1, ApplyTypes DEF TypeOK, clients, Open
<1>3. CASE Unlock
  BY <1>3 DEF Unlock, Locked, TypeOK, clients, rebalance
<1>4. CASE Refreshed
  BY <1>4 DEF Refreshed, TypeOK, clients, rebalance
<1>5. ASSUME NEW c \in Clients, Examine(c) PROVE Rotation'
  <2>1. c \in todo
    BY <1>5 DEF Examine
  <2> QED
    BY <1>5, <2>1, ExamineTypes DEF TypeOK, clients, Locked
<1>6. ASSUME NEW c \in Clients, CloseChosen(c) \/ Lose(c) PROVE Rotation'
  BY <1>6 DEF CloseChosen, Lose, Closed, TypeOK
<1>7. ASSUME NEW S \in SUBSET Addrs, Resolve(S) PROVE Rotation'
  BY <1>7 DEF Resolve, TypeOK, clients, rebalance
<1>8. ASSUME NEW c \in Clients, SetBusy(c) PROVE Rotation'
  BY <1>8 DEF SetBusy, TypeOK, rebalance
<1>9. ASSUME NEW c \in Clients, NextAddr(c) PROVE Rotation'
  <2>1. addrs \in Seq(Addrs \cup {Name}) /\ next \in Nat /\ Len(addrs) \in Nat \ {0}
    BY DEF TypeOK
  <2>2. addrs[(next % Len(addrs)) + 1] \in Addrs \cup {Name}
    <3>1. (next % Len(addrs)) + 1 \in 1..Len(addrs)
      BY <2>1
    <3> QED
      BY <2>1, <3>1
  <2>3. next' \in 0..(NextBound - 1)
    BY <1>9, <2>1, NextAssumption DEF NextAddr, NextAssumption
  <2>4. /\ at' = [at EXCEPT ![c] = addrs[(next % Len(addrs)) + 1]]
        /\ phase' = [phase EXCEPT ![c] = "dialing"]
        /\ UNCHANGED <<dns, addrs, busy, refresh, rebalance>>
    BY <1>9 DEF NextAddr
  <2>5. at' \in [Clients -> Addrs \cup {Name}]
    BY <1>0, <2>2, <2>4 DEF TypeOK
  <2> QED
    BY <2>3, <2>4, <2>5 DEF TypeOK, rebalance
<1>10. ASSUME NEW c \in Clients, DialFails(c) PROVE Rotation'
  BY <1>10 DEF DialFails, TypeOK, rebalance
<1>11. ASSUME NEW c \in Clients, Register(c) PROVE Rotation'
  BY <1>11 DEF Register, TypeOK, rebalance
<1>12. CASE UNCHANGED vars
  BY <1>12 DEF vars, clients, rebalance, TypeOK
<1> QED
  BY <1>1, <1>2, <1>3, <1>4, <1>5, <1>6, <1>7, <1>8, <1>9, <1>10, <1>11, <1>12
  DEF Next, Refresh

LEMMA RotationInvariant == Spec => []Rotation
<1>1. Init => Rotation
  <2> SUFFICES ASSUME Init PROVE Rotation
    OBVIOUS
  <2>1. addrs \in Seq(Addrs \cup {Name}) /\ addrs # <<>>
    <3>1. CASE dns = {}
      <4>1. <<Name>> \in Seq(Addrs \cup {Name}) /\ <<Name>> # <<>>
        OBVIOUS
      <4> QED
        BY <3>1, <4>1 DEF Init
    <3>2. CASE dns # {}
      BY <3>2, AddrsTypes DEF Init
    <3> QED
      BY <3>1, <3>2
  <2>2. next \in 0..(NextBound - 1)
    BY NextAssumption DEF Init, NextAssumption
  <2> QED
    BY <2>1, <2>2 DEF Init, Rotation, SomewhereToDial, TypeOK
<1>2. Rotation /\ [Next]_vars => Rotation'
  BY RotationStep
<1> QED
  BY <1>1, <1>2, PTL DEF Spec

(* Every variable keeps its type (dnsDialer.go:17-33, 184-223).            *)
THEOREM TypeCorrect == Spec => []TypeOK
<1>1. Rotation => TypeOK
  BY DEF Rotation
<1> QED
  BY <1>1, RotationInvariant, PTL

(* There is always an address to dial (dnsDialer.go:69-72, 121-124).       *)
THEOREM Dialable == Spec => []SomewhereToDial
<1>1. Rotation => SomewhereToDial
  BY DEF Rotation
<1> QED
  BY <1>1, RotationInvariant, PTL

-----------------------------------------------------------------------------
(* While the mutex is held, counts[a] is what the rebalance leaves of the  *)
(* connections to a, whichever it has looked at; nothing is left to close  *)
(* from the refresh before.                                                *)
Left(a) == OpenAt(a) \ toClose

Counted ==
  /\ todo \cap toClose = {} /\ todo \subseteq Open
  /\ \A a \in answer :
       /\ counts[a] = Cardinality(Left(a))
       /\ toClose \cap OpenAt(a) # {} => counts[a] >= target

ShareInv == /\ refresh \in {"sleep", "apply"} => toClose = {}
            /\ Locked => Counted

(* A connection chosen to be closed takes one off its address's count, and *)
(* is chosen only when the count is beyond the target.                     *)
LEMMA ExamineShare ==
  ASSUME Rotation, ShareInv, NEW c \in Clients, Examine(c)
  PROVE  ShareInv'
<1>0. /\ Locked /\ c \in todo /\ Counted /\ answer \subseteq Addrs
      /\ counts \in [Addrs -> Nat] /\ target \in Nat
  BY DEF Examine, ShareInv, Rotation, TypeOK
<1>1. /\ todo' = todo \ {c} /\ UNCHANGED <<refresh, answer, target, phase, at>>
      /\ c \notin toClose /\ c \in Open
  BY <1>0 DEF Examine, clients, Counted
<1>2. Open' = Open /\ Locked' /\ \A a : OpenAt(a)' = OpenAt(a)
  BY <1>0, <1>1 DEF Open, OpenAt, Locked
<1>3. CASE UNCHANGED <<toClose, counts>>
  <2>1. \A a \in answer : Left(a)' = Left(a)
    BY <1>2, <1>3 DEF Left
  <2> QED
    BY <1>0, <1>1, <1>2, <1>3, <2>1 DEF ShareInv, Counted, Locked
<1>4. CASE ~ UNCHANGED <<toClose, counts>>
  <2>1. /\ at[c] \notin answer \/ counts[at[c]] > target
        /\ toClose' = toClose \cup {c}
        /\ counts' = [a \in Addrs |-> IF a = at[c] /\ a \in answer
                                      THEN counts[a] - 1 ELSE counts[a]]
    BY <1>4 DEF Examine
  <2>2. ASSUME NEW a \in answer
        PROVE  /\ counts'[a] = Cardinality(Left(a)')
               /\ toClose' \cap OpenAt(a)' # {} => counts'[a] >= target
    <3>0. counts[a] = Cardinality(Left(a)) /\ counts[a] \in Nat /\ a \in Addrs
      BY <1>0 DEF Counted
    <3>1. CASE a = at[c]
      <4>1. c \in Left(a) /\ Left(a)' = Left(a) \ {c}
        BY <1>1, <1>2, <2>1, <3>1 DEF Left, OpenAt
      <4>2. IsFiniteSet(Left(a))
        BY OpenTypes, FS_Subset DEF Left
      <4>3. Cardinality(Left(a)') = counts[a] - 1
        BY <3>0, <4>1, <4>2, FS_RemoveElement
      <4>4. counts[a] > target /\ counts'[a] = counts[a] - 1
        BY <2>1, <3>0, <3>1
      <4> QED
        BY <1>0, <3>0, <4>3, <4>4
    <3>2. CASE a # at[c]
      <4>1. c \notin OpenAt(a)
        BY <3>2 DEF OpenAt
      <4>2. Left(a)' = Left(a) /\ toClose' \cap OpenAt(a)' = toClose \cap OpenAt(a)
        BY <1>2, <2>1, <4>1 DEF Left
      <4>3. counts'[a] = counts[a]
        BY <2>1, <3>0, <3>2
      <4> QED
        BY <1>0, <3>0, <4>2, <4>3 DEF Counted
    <3> QED
      BY <3>1, <3>2
  <2>3. todo' \cap toClose' = {} /\ todo' \subseteq Open'
    BY <1>0, <1>1, <1>2, <2>1 DEF Counted
  <2>4. Counted'
    BY <1>1, <2>2, <2>3 DEF Counted
  <2> QED
    BY <1>2, <2>4 DEF ShareInv, Locked
<1> QED
  BY <1>3, <1>4

LEMMA ShareStep ==
  ASSUME Rotation, ShareInv, [Next]_vars
  PROVE  ShareInv'
<1>1. ASSUME UNCHANGED <<refresh, todo, counts, target, toClose, answer>>,
             Open' = Open, \A a : OpenAt(a)' = OpenAt(a)
      PROVE  ShareInv'
  <2>1. \A a \in answer : Left(a)' = Left(a)
    BY <1>1 DEF Left
  <2> QED
    BY <1>1, <2>1 DEF ShareInv, Counted, Locked
<1>2. ASSUME UNCHANGED <<refresh, rebalance, phase, at>> PROVE ShareInv'
  <2>1. Open' = Open /\ \A a : OpenAt(a)' = OpenAt(a)
    BY <1>2 DEF Open, OpenAt
  <2> QED
    BY <1>1, <1>2, <2>1 DEF rebalance
<1>3. CASE Lookup
  BY <1>3 DEF Lookup, ShareInv, Locked
<1>4. CASE Apply
  <2>1. refresh = "apply" /\ answer # {} /\ answer \in SUBSET Addrs /\ toClose = {}
    BY <1>4 DEF Apply, Rotation, TypeOK, ShareInv
  <2>2. /\ counts' = [a \in Addrs |-> IF a \in answer THEN Cardinality(OpenAt(a)) ELSE 0]
        /\ todo' = Open /\ refresh' = "scan" /\ UNCHANGED <<phase, at, answer, toClose>>
    BY <1>4, <2>1, ApplyTypes DEF clients
  <2>3. Open' = Open /\ \A a : Left(a)' = OpenAt(a)
    BY <2>1, <2>2 DEF Open, OpenAt, Left
  <2>4. ASSUME NEW a \in answer' PROVE counts'[a] = Cardinality(Left(a)')
    BY <2>1, <2>2, <2>3, <2>4
  <2>5. Counted'
    BY <2>1, <2>2, <2>3, <2>4 DEF Counted
  <2> QED
    BY <2>2, <2>5 DEF ShareInv
<1>5. CASE Unlock
  BY <1>5 DEF Unlock, ShareInv, Locked
<1>6. CASE Refreshed
  BY <1>6 DEF Refreshed, ShareInv, Locked, rebalance
<1>7. ASSUME NEW c \in Clients, Examine(c) PROVE ShareInv'
  BY <1>7, ExamineShare
<1>8. ASSUME NEW c \in Clients, CloseChosen(c) \/ Lose(c) PROVE ShareInv'
  BY <1>8 DEF CloseChosen, Lose, Closed, ShareInv, Locked
<1>9. ASSUME NEW S \in SUBSET Addrs, Resolve(S) PROVE ShareInv'
  BY <1>2, <1>9 DEF Resolve, clients
<1>10. ASSUME NEW c \in Clients, SetBusy(c) PROVE ShareInv'
  BY <1>2, <1>10 DEF SetBusy
<1>11. ASSUME NEW c \in Clients, NextAddr(c) \/ Register(c) PROVE ShareInv'
  BY <1>11 DEF NextAddr, Register, ShareInv, Locked, rebalance
<1>12. ASSUME NEW c \in Clients, DialFails(c) PROVE ShareInv'
  <2>1. \A d \in Clients : phase'[d] = "open" <=> phase[d] = "open"
    BY <1>12 DEF DialFails, Rotation, TypeOK
  <2>2. \A d \in Clients : phase[d] = "open" => at'[d] = at[d]
    BY <1>12 DEF DialFails, Rotation, TypeOK
  <2>3. Open' = Open /\ \A a : OpenAt(a)' = OpenAt(a)
    BY <2>1, <2>2 DEF Open, OpenAt
  <2> QED
    BY <1>1, <1>12, <2>3 DEF DialFails, rebalance
<1>13. CASE UNCHANGED vars
  BY <1>2, <1>13 DEF vars, clients
<1> QED
  BY <1>3, <1>4, <1>5, <1>6, <1>7, <1>8, <1>9, <1>10, <1>11, <1>12, <1>13
  DEF Next, Refresh

(* A rebalance leaves every address the name has its share, in whatever    *)
(* order it looks at the connections (dnsDialer.go:204-221).               *)
THEOREM Shares == Spec => []KeepsShare
<1>1. Init => ShareInv
  BY DEF Init, ShareInv, Locked
<1>2. Rotation /\ ShareInv /\ [Next]_vars => ShareInv'
  BY ShareStep
<1>3. ShareInv => KeepsShare
  BY DEF ShareInv, Counted, KeepsShare, Left
<1> QED
  BY <1>1, <1>2, <1>3, RotationInvariant, PTL DEF Spec
=============================================================================
