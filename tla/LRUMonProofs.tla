---------------------------- MODULE LRUMonProofs ----------------------------
(***************************************************************************)
(* Proofs about LRUMon: the filter of the first ingress control, for every *)
(* hash, every counter and stamp width, threshold and number of windows;   *)
(* the announcements of the LRU unit, and the bytes it counts, for every   *)
(* set of flows, buckets and fingerprints and every counter width.  Then   *)
(* the hash functions of the simulation, for every build and length.       *)
(***************************************************************************)
EXTENDS LRUMonFilter, LRUMonCache, P4LRUProofs, FiniteSetTheorems, FarmHash, TLAPS

-----------------------------------------------------------------------------
(* Sums of weights over finite sets and along sequences, as the community   *)
(* modules define them, and counters that wrap.  A claim about every finite *)
(* set is proved by looking at a smallest set for which it fails.           *)

(* A set of finite sets that is not empty has a member none of whose proper *)
(* subsets belongs to it.                                                   *)
LEMMA SmallestSet ==
  ASSUME NEW U, IsFiniteSet(U), NEW C \in SUBSET (SUBSET U), C # {}
  PROVE  \E T \in C : \A S \in C : S \subseteq T => S = T
<1>1. IsWellFoundedOn(StrictSubsetOrdering(U), FiniteSubsetsOf(U))
  BY FS_StrictSubsetOrderingWellFounded
<1>2. C \subseteq FiniteSubsetsOf(U) BY FS_FiniteSubsetsOfFinite
<1>3. PICK T \in C : \A S \in C : ~(<<S, T>> \in StrictSubsetOrdering(U))
  BY <1>1, <1>2, WFMin
<1>4. ASSUME NEW S \in C, S \subseteq T, S # T PROVE FALSE
  <2>1. <<S, T>> \in StrictSubsetOrdering(U) BY <1>4 DEF StrictSubsetOrdering
  <2>q. QED BY <2>1, <1>3, <1>4
<1>q. QED BY <1>4

(* The sum of the weights w of the elements of T. *)
Total(w, T) == MapThenSumSet(LAMBDA x : w[x], T)

(* g is the recursion of the community modules: it sums the weights of      *)
(* every subset of T, in the order CHOOSE picks.                            *)
Pick(s) == CHOOSE x \in s : TRUE
Sums(g, w, T) ==
  g = [s \in SUBSET T |-> IF s = {} THEN 0 ELSE w[Pick(s)] + g[s \ {Pick(s)}]]

LEMMA TotalIs ==
  ASSUME NEW w, NEW T
  PROVE  Total(w, T) = (CHOOSE g : Sums(g, w, T))[T]
BY DEF Total, MapThenSumSet, MapThenFoldSet, Sums, Pick

LEMMA PickIn == ASSUME NEW s, s # {} PROVE Pick(s) \in s /\ s \ {Pick(s)} # s
BY DEF Pick

(* There is one such recursion, *)
LEMMA SumsAgree ==
  ASSUME NEW S, NEW T, IsFiniteSet(T), S \subseteq T, NEW w,
         NEW g, Sums(g, w, S), NEW h, Sums(h, w, T)
  PROVE  \A s \in SUBSET S : g[s] = h[s]
<1> DEFINE C == {s \in SUBSET S : g[s] # h[s]}
<1> SUFFICES ASSUME C # {} PROVE FALSE
  OBVIOUS
<1>1. IsFiniteSet(S) BY FS_Subset
<1>2. PICK s \in C : \A r \in C : r \subseteq s => r = s
  <2>1. C \in SUBSET (SUBSET S) OBVIOUS
  <2> HIDE DEF C
  <2>q. QED BY <1>1, <2>1, SmallestSet
<1>3. /\ g[s] = IF s = {} THEN 0 ELSE w[Pick(s)] + g[s \ {Pick(s)}]
      /\ h[s] = IF s = {} THEN 0 ELSE w[Pick(s)] + h[s \ {Pick(s)}]
  BY DEF Sums
<1>4. s # {} BY <1>3
<1>5. s \ {Pick(s)} \in SUBSET S /\ s \ {Pick(s)} \subseteq s /\ s \ {Pick(s)} # s BY <1>4, PickIn
<1>6. g[s \ {Pick(s)}] = h[s \ {Pick(s)}] BY <1>2, <1>5
<1>q. QED BY <1>3, <1>4, <1>6

(* and there is one for every finite set. *)
LEMMA SumsExist ==
  ASSUME NEW U, IsFiniteSet(U), NEW w
  PROVE  \E g : Sums(g, w, U)
<1> DEFINE C == {T \in SUBSET U : ~ \E g : Sums(g, w, T)}
<1> SUFFICES ASSUME C # {} PROVE FALSE
  OBVIOUS
<1>1. PICK T \in C : \A r \in C : r \subseteq T => r = T
  <2>1. C \in SUBSET (SUBSET U) OBVIOUS
  <2> HIDE DEF C
  <2>q. QED BY <2>1, SmallestSet
<1> DEFINE part(s) == CHOOSE g : Sums(g, w, s)
           F == [s \in SUBSET T |-> IF s = {} THEN 0
                                    ELSE w[Pick(s)] + part(s \ {Pick(s)})[s \ {Pick(s)}]]
<1>2. \A s \in SUBSET T : s # T => Sums(part(s), w, s)
  <2> SUFFICES ASSUME NEW s \in SUBSET T, s # T PROVE \E g : Sums(g, w, s)
    OBVIOUS
  <2>q. QED BY <1>1
<1>3. ASSUME NEW s \in SUBSET T, s # T PROVE F[s] = part(s)[s]
  <2>1. part(s)[s] = IF s = {} THEN 0 ELSE w[Pick(s)] + part(s)[s \ {Pick(s)}]
    <3>1. Sums(part(s), w, s) BY <1>2, <1>3
    <3> HIDE DEF part
    <3>q. QED BY <3>1 DEF Sums
  <2>2. CASE s # {}
    <3> DEFINE r == s \ {Pick(s)}
    <3>1. r \in SUBSET T /\ r # T /\ r \subseteq s BY <1>3, <2>2, PickIn
    <3>2. Sums(part(r), w, r) /\ Sums(part(s), w, s) BY <1>2, <1>3, <3>1
    <3>3. IsFiniteSet(s) BY FS_Subset
    <3> HIDE DEF r, part
    <3>4. part(r)[r] = part(s)[r] BY <3>1, <3>2, <3>3, SumsAgree
    <3>q. QED BY <2>1, <2>2, <3>4 DEF r
  <2>3. CASE s = {} BY <2>1, <2>3
  <2>q. QED BY <2>2, <2>3
<1> HIDE DEF part
<1>4. ASSUME NEW s \in SUBSET T, s # {}
      PROVE  part(s \ {Pick(s)})[s \ {Pick(s)}] = F[s \ {Pick(s)}]
  <2>1. s \ {Pick(s)} \in SUBSET T /\ s \ {Pick(s)} # T BY <1>4, PickIn
  <2>q. QED BY <1>3, <2>1
<1>5. Sums(F, w, T) BY <1>4 DEF Sums
<1>q. QED BY <1>1, <1>5

(* The sum of no weights, and of the weights of a set and of a set without  *)
(* one of its elements.                                                     *)
LEMMA TotalSums ==
  ASSUME NEW T, IsFiniteSet(T), NEW w
  PROVE  \E g : Sums(g, w, T) /\ \A S \in SUBSET T : Total(w, S) = g[S]
<1> DEFINE sums(S) == CHOOSE g : Sums(g, w, S)
<1>1. \A S \in SUBSET T : Sums(sums(S), w, S) BY FS_Subset, SumsExist
<1>2. \A S \in SUBSET T : Total(w, S) = sums(S)[S] BY TotalIs
<1> HIDE DEF sums
<1>3. \A S \in SUBSET T : sums(S)[S] = sums(T)[S] BY <1>1, SumsAgree
<1>q. QED BY <1>1, <1>2, <1>3

LEMMA TotalEmpty == ASSUME NEW w PROVE Total(w, {}) = 0
<1>1. PICK g : Sums(g, w, {}) /\ \A S \in SUBSET {} : Total(w, S) = g[S]
  BY TotalSums, FS_EmptySet
<1>q. QED BY <1>1 DEF Sums

LEMMA TotalPick ==
  ASSUME NEW T, IsFiniteSet(T), T # {}, NEW w
  PROVE  Total(w, T) = w[Pick(T)] + Total(w, T \ {Pick(T)})
<1>1. PICK g : Sums(g, w, T) /\ \A S \in SUBSET T : Total(w, S) = g[S] BY TotalSums
<1>2. g[T] = w[Pick(T)] + g[T \ {Pick(T)}] BY <1>1 DEF Sums
<1>q. QED BY <1>1, <1>2

LEMMA TotalType ==
  ASSUME NEW T, IsFiniteSet(T), NEW w, NEW N \in {Nat, Int}, \A x \in T : w[x] \in N
  PROVE  Total(w, T) \in N
<1> DEFINE C == {S \in SUBSET T : Total(w, S) \notin N}
<1> SUFFICES ASSUME C # {} PROVE FALSE
  OBVIOUS
<1>1. PICK S \in C : \A r \in C : r \subseteq S => r = S
  <2>1. C \in SUBSET (SUBSET T) OBVIOUS
  <2> HIDE DEF C
  <2>q. QED BY <2>1, SmallestSet
<1>2. S # {} BY TotalEmpty
<1>3. S \ {Pick(S)} \subseteq S /\ S \ {Pick(S)} # S /\ Pick(S) \in S BY <1>2, PickIn
<1>4. Total(w, S \ {Pick(S)}) \in N BY <1>1, <1>3
<1>5. Total(w, S) = w[Pick(S)] + Total(w, S \ {Pick(S)}) BY <1>2, TotalPick, FS_Subset
<1>q. QED BY <1>3, <1>4, <1>5

LEMMA TotalRemove ==
  ASSUME NEW T, IsFiniteSet(T), NEW w, \A x \in T : w[x] \in Int, NEW a \in T
  PROVE  Total(w, T) = w[a] + Total(w, T \ {a})
<1> DEFINE C == {S \in SUBSET T : \E b \in S : Total(w, S) # w[b] + Total(w, S \ {b})}
<1> SUFFICES ASSUME C # {} PROVE FALSE
  OBVIOUS
<1>1. PICK S \in C : \A r \in C : r \subseteq S => r = S
  <2>1. C \in SUBSET (SUBSET T) OBVIOUS
  <2> HIDE DEF C
  <2>q. QED BY <2>1, SmallestSet
<1>2. PICK b \in S : Total(w, S) # w[b] + Total(w, S \ {b}) BY <1>1
<1> DEFINE x == Pick(S)
           R == S \ {x}
           Q == S \ {b}
           P == S \ {x, b}
<1>3. x \in S /\ R \subseteq S /\ R # S /\ Q \subseteq S /\ Q # S BY PickIn
<1>4. IsFiniteSet(S) /\ IsFiniteSet(P) BY FS_Subset
<1>5. Total(w, S) = w[x] + Total(w, R) BY <1>3, <1>4, TotalPick
<1>6. x # b BY <1>2, <1>5
<1>7. Total(w, R) = w[b] + Total(w, P)
  <2>1. b \in R /\ R \ {b} = P BY <1>6
  <2>q. QED BY <1>1, <1>3, <2>1
<1>8. Total(w, Q) = w[x] + Total(w, P)
  <2>1. x \in Q /\ Q \ {x} = P BY <1>3, <1>6
  <2>q. QED BY <1>1, <1>3, <2>1
<1>9. Total(w, P) \in Int /\ w[x] \in Int /\ w[b] \in Int BY <1>3, <1>4, TotalType
<1> HIDE DEF x, R, Q, P
<1>q. QED BY <1>2, <1>5, <1>7, <1>8, <1>9 DEF Q

LEMMA TotalAdd ==
  ASSUME NEW T, IsFiniteSet(T), NEW a, a \notin T, NEW w, \A x \in T \cup {a} : w[x] \in Int
  PROVE  Total(w, T \cup {a}) = Total(w, T) + w[a]
<1>1. IsFiniteSet(T \cup {a}) BY FS_AddElement
<1>2. (T \cup {a}) \ {a} = T OBVIOUS
<1>3. Total(w, T \cup {a}) = w[a] + Total(w, T) BY <1>1, <1>2, TotalRemove
<1>4. Total(w, T) \in Int BY TotalType
<1>q. QED BY <1>3, <1>4

(* Elements with the same weights have the same sum, also under other       *)
(* names.                                                                   *)
LEMMA TotalRenamed ==
  ASSUME NEW T, IsFiniteSet(T), NEW U, NEW f \in Injection(T, U),
         NEW w, NEW v, \A x \in T : w[x] \in Int /\ v[f[x]] = w[x]
  PROVE  Total(v, {f[x] : x \in T}) = Total(w, T)
<1> DEFINE I(S) == {f[x] : x \in S}
           C == {S \in SUBSET T : ~(IsFiniteSet(I(S)) /\ Total(v, I(S)) = Total(w, S))}
<1> SUFFICES ASSUME C # {} PROVE FALSE
  OBVIOUS
<1>1. PICK S \in C : \A r \in C : r \subseteq S => r = S
  <2>1. C \in SUBSET (SUBSET T) OBVIOUS
  <2> HIDE DEF C
  <2>q. QED BY <2>1, SmallestSet
<1>0. \A x, y \in T : f[x] = f[y] => x = y BY DEF Injection, IsInjective
<1>2. S # {}
  <2>1. I({}) = {} OBVIOUS
  <2>q. QED BY <2>1, TotalEmpty, FS_EmptySet
<1> DEFINE x == Pick(S)
           R == S \ {x}
<1>3. x \in S /\ x \in T /\ R \subseteq S /\ R # S /\ R \in SUBSET T BY <1>2, PickIn
<1>4. Total(w, S) = w[x] + Total(w, R) BY <1>2, TotalPick, FS_Subset
<1>5. IsFiniteSet(I(R)) /\ Total(v, I(R)) = Total(w, R) BY <1>1, <1>3
<1>6. I(S) = I(R) \cup {f[x]} /\ f[x] \notin I(R) BY <1>0, <1>3
<1>7. v[f[x]] = w[x] /\ \A y \in I(R) \cup {f[x]} : v[y] \in Int BY <1>3
<1>8. Total(w, R) \in Int /\ w[x] \in Int BY <1>3, FS_Subset, TotalType
<1> HIDE DEF I, x, R
<1>9. Total(v, I(S)) = Total(v, I(R)) + w[x]
  <2>1. \A J, a : IsFiniteSet(J) /\ a \notin J /\ (\A y \in J \cup {a} : v[y] \in Int)
                    => Total(v, J \cup {a}) = Total(v, J) + v[a]
    BY TotalAdd
  <2>2. Total(v, I(R) \cup {f[x]}) = Total(v, I(R)) + v[f[x]] BY <1>5, <1>6, <1>7, <2>1
  <2>q. QED BY <1>6, <1>7, <2>2
<1>10. IsFiniteSet(I(S)) BY <1>5, <1>6, FS_AddElement
<1>11. Total(v, I(S)) = Total(w, S) BY <1>4, <1>5, <1>8, <1>9
<1>q. QED BY <1>10, <1>11

LEMMA TotalSame ==
  ASSUME NEW T, IsFiniteSet(T), NEW w, NEW v, \A x \in T : w[x] \in Int /\ v[x] = w[x]
  PROVE  Total(v, T) = Total(w, T)
<1> DEFINE f == [x \in T |-> x]
<1>1. f \in Injection(T, T) BY DEF Injection, IsInjective
<1>2. \A x \in T : f[x] = x OBVIOUS
<1> HIDE DEF f
<1>3. {f[x] : x \in T} = T BY <1>2
<1>q. QED BY <1>1, <1>2, <1>3, TotalRenamed

(* The weights of the elements of S are those of T that count 0 outside S.  *)
LEMMA TotalFilter ==
  ASSUME NEW T, IsFiniteSet(T), NEW S \in SUBSET T, NEW w, NEW v,
         \A x \in T : v[x] \in Int /\ v[x] = IF x \in S THEN w[x] ELSE 0
  PROVE  Total(w, S) = Total(v, T)
<1> DEFINE C == {R \in SUBSET T : Total(w, R \cap S) # Total(v, R)}
<1> SUFFICES ASSUME C # {} PROVE FALSE
  <2>1. T \cap S = S OBVIOUS
  <2>q. QED BY <2>1
<1>1. PICK R \in C : \A r \in C : r \subseteq R => r = R
  <2>1. C \in SUBSET (SUBSET T) OBVIOUS
  <2> HIDE DEF C
  <2>q. QED BY <2>1, SmallestSet
<1>2. R # {}
  <2>1. {} \cap S = {} OBVIOUS
  <2>q. QED BY <2>1, TotalEmpty
<1> DEFINE x == Pick(R)
           Q == R \ {x}
<1>3. x \in R /\ x \in T /\ Q \subseteq R /\ Q # R /\ Q \in SUBSET T BY <1>2, PickIn
<1>4. Total(v, R) = v[x] + Total(v, Q) BY <1>2, TotalPick, FS_Subset
<1>5. Total(w, Q \cap S) = Total(v, Q) BY <1>1, <1>3
<1>6. v[x] \in Int /\ Total(v, Q) \in Int BY <1>3, FS_Subset, TotalType
<1>7. Total(w, R \cap S) = v[x] + Total(v, Q)
  <2>1. CASE x \in S
    <3>1. R \cap S = (Q \cap S) \cup {x} /\ x \notin Q \cap S BY <1>3, <2>1
    <3>2. IsFiniteSet(Q \cap S) /\ Q \cap S \in SUBSET T BY <1>3, FS_Subset
    <3>3. \A y \in (Q \cap S) \cup {x} : w[y] \in Int BY <1>3, <2>1
    <3>4. w[x] = v[x] BY <1>3, <2>1
    <3> DEFINE J == Q \cap S
               A == R \cap S
    <3> HIDE DEF x, Q
    <3>5. A = J \cup {x} BY <3>1
    <3>6. Total(w, J) = Total(v, Q) BY <1>5
    <3> HIDE DEF J
    <3>7. Total(w, J \cup {x}) = Total(w, J) + w[x] BY <3>1, <3>2, <3>3, TotalAdd DEF J
    <3> HIDE DEF A
    <3>8. Total(w, A) = Total(w, J \cup {x}) BY <3>5
    <3>9. Total(w, A) = v[x] + Total(v, Q) BY <1>6, <3>4, <3>6, <3>7, <3>8
    <3>q. QED BY <3>9 DEF A
  <2>2. CASE x \notin S
    <3>1. R \cap S = Q \cap S BY <1>3, <2>2
    <3>2. v[x] = 0 BY <1>3, <2>2
    <3> HIDE DEF x, Q
    <3>3. Total(w, R \cap S) = Total(w, Q \cap S) BY <3>1, Zenon
    <3>q. QED BY <1>5, <1>6, <3>2, <3>3
  <2>q. QED BY <2>1, <2>2
<1>q. QED BY <1>4, <1>7

(* The sum of a sequence that grows at its end and shrinks at its front.    *)
SumOf(s) == Total(s, DOMAIN s)

LEMMA SumType ==
  ASSUME NEW N \in {Nat, Int}, NEW s \in Seq(N)
  PROVE  SumOf(s) \in N
<1>1. DOMAIN s = 1..Len(s) /\ Len(s) \in Nat /\ \A n \in 1..Len(s) : s[n] \in N OBVIOUS
<1>2. IsFiniteSet(1..Len(s)) BY <1>1, FS_Interval
<1>q. QED BY <1>1, <1>2, TotalType DEF SumOf

LEMMA SumAppend ==
  ASSUME NEW s \in Seq(Int), NEW a \in Int
  PROVE  SumOf(Append(s, a)) = SumOf(s) + a
<1> DEFINE n == Len(s) + 1
           t == Append(s, a)
<1>1. /\ DOMAIN s = 1..Len(s) /\ Len(s) \in Nat /\ DOMAIN t = 1..n
      /\ \A i \in 1..Len(s) : t[i] = s[i] /\ s[i] \in Int
      /\ t[n] = a
  OBVIOUS
<1>2. IsFiniteSet(1..Len(s)) BY <1>1, FS_Interval
<1>3. 1..n = (1..Len(s)) \cup {n} /\ n \notin 1..Len(s) BY <1>1
<1> HIDE DEF n, t
<1>4. \A i \in (1..Len(s)) \cup {n} : t[i] \in Int BY <1>1
<1>5. Total(t, (1..Len(s)) \cup {n}) = Total(t, 1..Len(s)) + t[n]
  BY <1>2, <1>3, <1>4, TotalAdd
<1>6. Total(t, 1..Len(s)) = Total(s, 1..Len(s)) BY <1>1, <1>2, TotalSame
<1>q. QED BY <1>1, <1>3, <1>5, <1>6 DEF SumOf, t

LEMMA SumTail ==
  ASSUME NEW s \in Seq(Int), s # <<>>
  PROVE  SumOf(s) = Head(s) + SumOf(Tail(s))
<1> DEFINE t == Tail(s)
           n == Len(s) - 1
           f == [i \in 1..n |-> i + 1]
<1>1. /\ DOMAIN s = 1..Len(s) /\ Len(s) \in Nat /\ Len(s) >= 1
      /\ n \in Nat /\ DOMAIN t = 1..n
      /\ \A i \in 1..Len(s) : s[i] \in Int
      /\ \A i \in 1..n : t[i] = s[i + 1] /\ t[i] \in Int
      /\ Head(s) = s[1] /\ 1 \in 1..Len(s)
  OBVIOUS
<1>2. IsFiniteSet(1..Len(s)) /\ IsFiniteSet(1..n) BY <1>1, FS_Interval
<1> HIDE DEF t
<1>3. Total(s, 1..Len(s)) = s[1] + Total(s, (1..Len(s)) \ {1}) BY <1>1, <1>2, TotalRemove
<1>4. f \in Injection(1..n, 1..Len(s)) BY <1>1 DEF Injection, IsInjective
<1>5. \A i \in 1..n : t[i] \in Int /\ s[f[i]] = t[i] BY <1>1
<1>6. (1..Len(s)) \ {1} = {f[i] : i \in 1..n}
  <2>1. ASSUME NEW j \in (1..Len(s)) \ {1} PROVE j \in {f[i] : i \in 1..n}
    <3>1. j - 1 \in 1..n /\ f[j - 1] = j BY <1>1, <2>1
    <3>q. QED BY <3>1
  <2>2. \A i \in 1..n : f[i] \in (1..Len(s)) \ {1} BY <1>1
  <2>q. QED BY <2>1, <2>2
<1> HIDE DEF f
<1> DEFINE D == 1..n
           E == 1..Len(s)
<1>7. IsFiniteSet(D) /\ f \in Injection(D, E) /\ \A i \in D : t[i] \in Int /\ s[f[i]] = t[i]
  BY <1>2, <1>4, <1>5
<1> HIDE DEF D, E, n
<1>8. Total(s, {f[i] : i \in D}) = Total(t, D) BY <1>7, TotalRenamed
<1> USE DEF D, E
<1>q. QED BY <1>1, <1>3, <1>6, <1>8 DEF SumOf, t

-----------------------------------------------------------------------------
(* A number is a multiple of m and a remainder, *)
LEMMA Quotient ==
  ASSUME NEW m \in Nat \ {0}, NEW x \in Int
  PROVE  x \div m \in Int /\ x % m \in 0..(m - 1) /\ x = m * (x \div m) + (x % m)
OBVIOUS

(* the only multiple of m that is smaller than m is 0, *)
LEMMA NoMultiple ==
  ASSUME NEW m \in Nat \ {0}, NEW k \in Int, -m < m * k, m * k < m
  PROVE  k = 0
<1>1. CASE k >= 1
  <2>1. m * k >= m * 1 BY <1>1
  <2>q. QED BY <2>1
<1>2. CASE k <= -1
  <2>1. m * k <= m * (-1) BY <1>2
  <2>q. QED BY <2>1
<1>q. QED BY <1>1, <1>2

(* and there is only one such remainder. *)
LEMMA SameRemainder ==
  ASSUME NEW m \in Nat \ {0}, NEW p \in Int, NEW q \in Int,
         NEW r \in 0..(m - 1), NEW s \in 0..(m - 1), m * p + r = m * q + s
  PROVE  r = s
<1>1. m * (p - q) = m * p - m * q OBVIOUS
<1> DEFINE P == m * p
           Q == m * q
           D == m * (p - q)
<1>2. P \in Int /\ Q \in Int /\ r \in Int /\ s \in Int OBVIOUS
<1>3. P + r = Q + s /\ D = P - Q OBVIOUS
<1> HIDE DEF P, Q, D
<1>4. D = s - r BY <1>2, <1>3
<1>5. -m < D /\ D < m BY <1>4
<1>6. p - q = 0 BY <1>5, NoMultiple DEF D
<1>7. P = Q BY <1>6 DEF P, Q
<1>q. QED BY <1>2, <1>3, <1>7

(* What is added to two counters that agree up to a wrap keeps them so. *)
LEMMA WrapShift ==
  ASSUME NEW m \in Nat \ {0}, NEW a \in Int, NEW b \in Int, NEW d \in Int, a % m = b % m
  PROVE  (a + d) % m = (b + d) % m
<1> DEFINE qa == a \div m
           qb == b \div m
           qc == (a + d) \div m
           qd == (b + d) \div m
           r  == a % m
           rc == (a + d) % m
           rd == (b + d) % m
<1>1. a + d \in Int /\ b + d \in Int OBVIOUS
<1>2. qa \in Int /\ r \in 0..(m - 1) /\ a = m * qa + r BY Quotient
<1>3. qb \in Int /\ b = m * qb + r BY Quotient
<1>4. qc \in Int /\ rc \in 0..(m - 1) /\ a + d = m * qc + rc BY <1>1, Quotient
<1>5. qd \in Int /\ rd \in 0..(m - 1) /\ b + d = m * qd + rd BY <1>1, Quotient
<1> HIDE DEF qa, qb, qc, qd, r, rc, rd
<1>6. m * (qc + qb) + rc = m * (qd + qa) + rd
  <2>1. m * (qc + qb) = m * qc + m * qb /\ m * (qd + qa) = m * qd + m * qa BY <1>2, <1>3, <1>4, <1>5
  <2>2. m * qa \in Int /\ m * qb \in Int /\ m * qc \in Int /\ m * qd \in Int
    BY <1>2, <1>3, <1>4, <1>5
  <2> DEFINE A == m * qa
             B == m * qb
             C == m * qc
             E == m * qd
  <2> HIDE DEF A, B, C, E
  <2>3. /\ A \in Int /\ B \in Int /\ C \in Int /\ E \in Int
        /\ a = A + r /\ b = B + r /\ a + d = C + rc /\ b + d = E + rd
    BY <1>2, <1>3, <1>4, <1>5, <2>2 DEF A, B, C, E
  <2>4. C + B + rc = E + A + rd BY <1>2, <1>4, <1>5, <2>3
  <2>5. m * (qc + qb) = C + B /\ m * (qd + qa) = E + A BY <2>1 DEF A, B, C, E
  <2>q. QED BY <2>4, <2>5
<1>7. qc + qb \in Int /\ qd + qa \in Int BY <1>2, <1>3, <1>4, <1>5
<1>8. rc = rd BY <1>4, <1>5, <1>6, <1>7, SameRemainder
<1>q. QED BY <1>8 DEF rc, rd
-----------------------------------------------------------------------------
(* The filter and the LRU unit *)

(* Arithmetic of wrapping counters. *)
LEMMA Wrapped ==
  ASSUME NEW m \in Nat \ {0}, NEW x \in Int
  PROVE  x % m \in 0..(m - 1)
OBVIOUS

LEMMA NotWrapped ==
  ASSUME NEW m \in Nat \ {0}, NEW x \in 0..(m - 1)
  PROVE  x % m = x
OBVIOUS

LEMMA WrappedBelow ==
  ASSUME NEW m \in Nat \ {0}, NEW x \in Int, -m <= x, x < 0
  PROVE  x % m = x + m
OBVIOUS

LEMMA Half ==
  ASSUME NEW m \in Nat \ {0}, m % 2 = 0
  PROVE  m \div 2 \in Nat /\ 2 * (m \div 2) = m
OBVIOUS

(* find_min_counter: below half the counter range, the sign bit of the      *)
(* 16-bit difference picks the smaller counter.                             *)
LEMMA FindMinIsMin ==
  ASSUME NEW c \in Counter, NEW d \in Counter,
         c < FilterMod \div 2, d < FilterMod \div 2
  PROVE  FindMin(c, d) = IF c < d THEN c ELSE d
<1>1. /\ FilterMod \in Nat \ {0} /\ FilterMod \div 2 \in Nat
      /\ 2 * (FilterMod \div 2) = FilterMod
  BY FilterNumbers, Half
<1>2. c \in Nat /\ d \in Nat /\ c - d \in Int BY <1>1 DEF Counter
<1>3. CASE c < d
  <2>0. -FilterMod <= c - d /\ c - d < 0 BY <1>1, <1>2, <1>3
  <2>1. (c - d) % FilterMod = c - d + FilterMod BY <1>1, <1>2, <2>0, WrappedBelow
  <2>q. QED BY <1>1, <1>2, <1>3, <2>1 DEF FindMin
<1>4. CASE ~(c < d)
  <2>0. c - d \in 0..(FilterMod - 1) BY <1>1, <1>2, <1>4
  <2>1. (c - d) % FilterMod = c - d BY <1>1, <2>0, NotWrapped
  <2>q. QED BY <1>1, <1>2, <1>4, <2>1 DEF FindMin
<1>q. QED BY <1>3, <1>4

-----------------------------------------------------------------------------
(* The inductive invariant of the filter.  Before the stamps wrap, a cell   *)
(* stamped with the current window counts exactly the bytes it has seen in  *)
(* it, as long as these fit the counter; any other cell bears the stamp of  *)
(* an earlier window and has seen nothing in this one.                      *)
CellCounts(stamp, count, seen) ==
  /\ stamp <= window
  /\ IF stamp = window THEN seen < FilterMod => count = seen ELSE seen = 0

CellsCount ==
  window < StampMod =>
     \A c \in Cell : /\ CellCounts(stamp_1[c], count_1[c], seen_1[c])
                     /\ CellCounts(stamp_2[c], count_2[c], seen_2[c])

FilterInv == FilterTypeOK /\ CellsCount /\ FilterExact

LEMMA FilterInvInit == FilterInit => FilterInv
<1> SUFFICES ASSUME FilterInit PROVE FilterInv OBVIOUS
<1> USE FilterNumbers DEF FilterInit
<1>1. FilterTypeOK BY DEF FilterTypeOK, Verdict, Counter, Stamp
<1>2. CellsCount BY DEF CellsCount, CellCounts
<1>3. FilterExact
  <2>1. /\ verdict.seen_1 = 0 /\ verdict.seen_2 = 0
        /\ verdict.drop = (0 < threshold)
    OBVIOUS
  <2>2. verdict.drop <=> 0 < threshold BY <2>1, Zenon
  <2>3. 0 >= threshold <=> ~(0 < threshold) OBVIOUS
  <2> HIDE DEF FilterInit
  <2>q. QED BY <2>1, <2>2, <2>3 DEF FilterExact
<1>q. QED BY <1>1, <1>2, <1>3 DEF FilterInv

(* What a layer does for a packet: the counter read is what the cell has    *)
(* seen in this window, and the cell goes on counting from there.           *)
LEMMA LayerRead ==
  ASSUME window \in Nat, window < StampMod,
         NEW stamp \in Stamp, NEW count \in Counter, NEW seen \in Nat,
         CellCounts(stamp, count, seen), seen < FilterMod
  PROVE  CounterRead(stamp, count) = seen
<1>0. window \in 0..(StampMod - 1) BY FilterNumbers
<1>1. Timestamp = window BY <1>0, FilterNumbers, NotWrapped DEF Timestamp
<1>q. QED BY <1>1 DEF CounterRead, CellCounts

LEMMA LayerTypes ==
  ASSUME window \in Nat, NEW stamp \in Stamp, NEW count \in Counter, NEW len \in Nat
  PROVE  /\ Timestamp \in Stamp
         /\ CounterRead(stamp, count) \in Counter
         /\ CounterWrite(stamp, count, len) \in Counter
<1>1. Timestamp \in Stamp BY FilterNumbers, Wrapped DEF Timestamp, Stamp
<1>2. CounterRead(stamp, count) \in Counter
  BY FilterNumbers DEF CounterRead, Counter
<1>3. CounterRead(stamp, count) + len \in Int BY <1>2, FilterNumbers DEF Counter
<1>4. CounterWrite(stamp, count, len) \in Counter
  BY <1>3, FilterNumbers, Wrapped DEF CounterWrite, Counter
<1>q. QED BY <1>1, <1>2, <1>4

LEMMA LayerWrite ==
  ASSUME window \in Nat, window < StampMod,
         NEW stamp \in Stamp, NEW count \in Counter, NEW seen \in Nat, NEW len \in Nat,
         CellCounts(stamp, count, seen)
  PROVE  CellCounts(Timestamp, CounterWrite(stamp, count, len), seen + len)
<1>0. window \in 0..(StampMod - 1) BY FilterNumbers
<1>1. Timestamp = window BY <1>0, FilterNumbers, NotWrapped DEF Timestamp
<1>2. SUFFICES ASSUME seen + len < FilterMod
               PROVE  CounterWrite(stamp, count, len) = seen + len
  BY <1>1 DEF CellCounts
<1>3. CounterRead(stamp, count) = seen BY <1>2, FilterNumbers, LayerRead
<1>4. seen + len \in 0..(FilterMod - 1) BY <1>2, FilterNumbers
<1>q. QED BY <1>3, <1>4, FilterNumbers, NotWrapped DEF CounterWrite

LEMMA PacketKeepsFilterInv ==
  ASSUME FilterInv, NEW f \in FilterFlow, NEW len \in FilterLen, FilterPacket(f, len)
  PROVE  FilterInv'
<1> USE FilterNumbers, FilterHashAssumption DEF FilterInv
<1> DEFINE c1 == filter_hash_1[f]
           c2 == filter_hash_2[f]
           counter_1 == CounterRead(stamp_1[c1], count_1[c1])
           counter_2 == CounterRead(stamp_2[c2], count_2[c2])
           checked == FindMin(counter_1, counter_2)
<1>1. /\ c1 \in Cell /\ c2 \in Cell /\ len \in Nat /\ window \in Nat
      /\ stamp_1 \in [Cell -> Stamp] /\ count_1 \in [Cell -> Counter]
      /\ stamp_2 \in [Cell -> Stamp] /\ count_2 \in [Cell -> Counter]
      /\ seen_1 \in [Cell -> Nat] /\ seen_2 \in [Cell -> Nat]
  BY DEF FilterTypeOK
<1>2. /\ stamp_1' = [stamp_1 EXCEPT ![c1] = Timestamp]
      /\ stamp_2' = [stamp_2 EXCEPT ![c2] = Timestamp]
      /\ count_1' = [count_1 EXCEPT ![c1] = CounterWrite(stamp_1[c1], count_1[c1], len)]
      /\ count_2' = [count_2 EXCEPT ![c2] = CounterWrite(stamp_2[c2], count_2[c2], len)]
      /\ seen_1'  = [seen_1 EXCEPT ![c1] = seen_1[c1] + len]
      /\ seen_2'  = [seen_2 EXCEPT ![c2] = seen_2[c2] + len]
      /\ verdict' = [counter_1 |-> counter_1, counter_2 |-> counter_2,
                     checked |-> checked, seen_1 |-> seen_1[c1], seen_2 |-> seen_2[c2],
                     window |-> window, drop |-> checked < threshold]
      /\ window' = window
  BY DEF FilterPacket
<1> HIDE DEF c1, c2
<1>3. /\ Timestamp \in Stamp /\ counter_1 \in Counter /\ counter_2 \in Counter
      /\ CounterWrite(stamp_1[c1], count_1[c1], len) \in Counter
      /\ CounterWrite(stamp_2[c2], count_2[c2], len) \in Counter
  BY <1>1, LayerTypes
<1>4. checked \in Counter BY <1>3 DEF FindMin
<1>5. FilterTypeOK'
  <2>1. verdict' \in Verdict BY <1>1, <1>2, <1>3, <1>4 DEF Verdict
  <2>q. QED BY <1>1, <1>2, <1>3, <2>1 DEF FilterTypeOK
<1>6. CellsCount'
  <2> SUFFICES ASSUME window < StampMod, NEW c \in Cell
               PROVE  /\ CellCounts(stamp_1[c], count_1[c], seen_1[c])'
                      /\ CellCounts(stamp_2[c], count_2[c], seen_2[c])'
    BY <1>2 DEF CellsCount
  <2>1. /\ CellCounts(stamp_1[c], count_1[c], seen_1[c])
        /\ CellCounts(stamp_2[c], count_2[c], seen_2[c])
    BY DEF CellsCount
  <2>2. CellCounts(stamp_1[c], count_1[c], seen_1[c])'
    <3>1. CASE c # c1 BY <3>1, <2>1, <1>1, <1>2 DEF CellCounts
    <3>2. CASE c = c1
      <4>1. CellCounts(Timestamp, CounterWrite(stamp_1[c1], count_1[c1], len), seen_1[c1] + len)
        BY <3>2, <2>1, <1>1, LayerWrite
      <4>q. QED BY <3>2, <4>1, <1>1, <1>2 DEF CellCounts
    <3>q. QED BY <3>1, <3>2
  <2>3. CellCounts(stamp_2[c], count_2[c], seen_2[c])'
    <3>1. CASE c # c2 BY <3>1, <2>1, <1>1, <1>2 DEF CellCounts
    <3>2. CASE c = c2
      <4>1. CellCounts(Timestamp, CounterWrite(stamp_2[c2], count_2[c2], len), seen_2[c2] + len)
        BY <3>2, <2>1, <1>1, LayerWrite
      <4>q. QED BY <3>2, <4>1, <1>1, <1>2 DEF CellCounts
    <3>q. QED BY <3>1, <3>2
  <2>q. QED BY <2>2, <2>3
<1>7. FilterExact'
  <2> SUFFICES ASSUME seen_1[c1] < FilterMod \div 2, seen_2[c2] < FilterMod \div 2,
                      window < StampMod
               PROVE  ~(checked < threshold)
                        <=> seen_1[c1] >= threshold /\ seen_2[c2] >= threshold
    BY <1>2 DEF FilterExact
  <2>1. FilterMod \div 2 \in Nat /\ 2 * (FilterMod \div 2) = FilterMod BY Half
  <2>2. seen_1[c1] < FilterMod /\ seen_2[c2] < FilterMod BY <2>1, <1>1
  <2>3. counter_1 = seen_1[c1] /\ counter_2 = seen_2[c2]
    BY <2>2, <1>1, LayerRead DEF CellsCount
  <2>4. checked = IF counter_1 < counter_2 THEN counter_1 ELSE counter_2
    BY <2>3, <1>3, FindMinIsMin
  <2>q. QED BY <2>3, <2>4, <1>1
<1>q. QED BY <1>5, <1>6, <1>7

LEMMA WindowKeepsFilterInv ==
  ASSUME FilterInv, NextWindow
  PROVE  FilterInv'
<1> USE FilterNumbers DEF FilterInv, NextWindow, filterRegs
<1>1. FilterTypeOK' BY DEF FilterTypeOK
<1>2. CellsCount'
  <2> SUFFICES ASSUME window + 1 < StampMod, NEW c \in Cell
               PROVE  /\ CellCounts(stamp_1[c], count_1[c], seen_1[c])'
                      /\ CellCounts(stamp_2[c], count_2[c], seen_2[c])'
    BY DEF CellsCount
  <2>1. /\ stamp_1[c] \in Nat /\ stamp_2[c] \in Nat /\ window \in Nat
        /\ stamp_1[c] < window + 1 /\ stamp_2[c] < window + 1
    BY DEF CellsCount, CellCounts, FilterTypeOK, Stamp
  <2>2. /\ window' = window + 1 /\ stamp_1' = stamp_1 /\ stamp_2' = stamp_2
        /\ seen_1'[c] = 0 /\ seen_2'[c] = 0
    OBVIOUS
  <2>q. QED BY <2>1, <2>2 DEF CellCounts
<1>3. FilterExact' BY DEF FilterExact
<1>q. QED BY <1>1, <1>2, <1>3

(* While a packet's two cells have seen less than half the counter range in *)
(* this window, and the stamps have not wrapped, the filter of lru_mon.p4   *)
(* lets a packet through exactly if both its cells had seen the threshold   *)
(* in this window, whatever the hashes, the widths and the threshold.       *)
THEOREM FilterCorrect == FilterSpec => []FilterRight
<1>1. FilterInv /\ [FilterNext]_filterVars => FilterInv'
  <2> SUFFICES ASSUME FilterInv, [FilterNext]_filterVars PROVE FilterInv' OBVIOUS
  <2>1. CASE UNCHANGED filterVars
    BY <2>1 DEF filterVars, FilterInv, FilterTypeOK, CellsCount, CellCounts, FilterExact
  <2>q. QED BY <2>1, PacketKeepsFilterInv, WindowKeepsFilterInv DEF FilterNext
<1>2. FilterInv => FilterRight BY DEF FilterInv, FilterRight
<1>q. QED BY FilterInvInit, <1>1, <1>2, PTL DEF FilterSpec

-----------------------------------------------------------------------------
(* The LRU unit behind the filter. *)

(* What the operations on a link do to the fingerprints announced on it. *)
LEMMA AnnouncingTail ==
  ASSUME NEW link \in Seq(Record), link # <<>>
  PROVE  /\ Head(link) \in Record /\ Tail(link) \in Seq(Record)
         /\ \A x : x \in Announcing(link) <=>
                     \/ x \in Announcing(Tail(link))
                     \/ Head(link).lru_is_replace /\ x = Head(link).new_fp
<1>1. Len(link) \in Nat \ {0} /\ DOMAIN link = 1..Len(link) OBVIOUS
<1>2. Head(link) = link[1] /\ link[1] \in Record BY <1>1
<1>3. /\ Tail(link) \in Seq(Record) /\ DOMAIN Tail(link) = 1..(Len(link) - 1)
      /\ \A i \in 1..(Len(link) - 1) : Tail(link)[i] = link[i + 1]
  BY <1>1
<1> DEFINE rest == Tail(link)
<1> HIDE DEF rest
<1>4. \A x : x \in Announcing(link) <=>
               \E n \in 1..Len(link) : link[n].lru_is_replace /\ x = link[n].new_fp
  BY <1>1 DEF Announcing
<1>5. \A x : x \in Announcing(rest) <=>
               \E n \in 1..(Len(link) - 1) : rest[n].lru_is_replace /\ x = rest[n].new_fp
  BY <1>3 DEF Announcing, rest
<1>6. ASSUME NEW n \in 1..(Len(link) - 1) PROVE n + 1 \in 1..Len(link) /\ rest[n] = link[n + 1]
  BY <1>1, <1>3 DEF rest
<1>7. ASSUME NEW n \in 1..Len(link), n # 1
      PROVE  n - 1 \in 1..(Len(link) - 1) /\ rest[n - 1] = link[n]
  BY <1>1, <1>3, <1>7 DEF rest
<1>8. 1 \in 1..Len(link) BY <1>1
<1>9. ASSUME NEW x, x \in Announcing(rest) PROVE x \in Announcing(link)
  BY <1>4, <1>5, <1>6, <1>9
<1>10. ASSUME NEW x, x \in Announcing(link), ~(link[1].lru_is_replace /\ x = link[1].new_fp)
       PROVE  x \in Announcing(rest)
  BY <1>4, <1>5, <1>7, <1>10
<1>11. ASSUME NEW x, link[1].lru_is_replace /\ x = link[1].new_fp
       PROVE  x \in Announcing(link)
  BY <1>4, <1>8, <1>11
<1>q. QED BY <1>2, <1>3, <1>9, <1>10, <1>11 DEF rest

LEMMA AnnouncingAppend ==
  ASSUME NEW link \in Seq(Record), NEW r \in Record
  PROVE  /\ Append(link, r) \in Seq(Record)
         /\ \A x : x \in Announcing(Append(link, r)) <=>
                     \/ x \in Announcing(link)
                     \/ r.lru_is_replace /\ x = r.new_fp
<1> DEFINE longer == Append(link, r)
<1>1. Len(link) \in Nat /\ DOMAIN link = 1..Len(link) OBVIOUS
<1>2. /\ longer \in Seq(Record) /\ DOMAIN longer = 1..(Len(link) + 1)
      /\ \A i \in 1..Len(link) : longer[i] = link[i]
      /\ longer[Len(link) + 1] = r
  BY <1>1
<1> HIDE DEF longer
<1>3. \A x : x \in Announcing(link) <=>
               \E n \in 1..Len(link) : link[n].lru_is_replace /\ x = link[n].new_fp
  BY <1>1 DEF Announcing
<1>4. \A x : x \in Announcing(longer) <=>
               \E n \in 1..(Len(link) + 1) : longer[n].lru_is_replace /\ x = longer[n].new_fp
  BY <1>2 DEF Announcing
<1>5. ASSUME NEW n \in 1..(Len(link) + 1)
      PROVE  n = Len(link) + 1 \/ n \in 1..Len(link)
  BY <1>1
<1>6. Len(link) + 1 \in 1..(Len(link) + 1) /\ 1..Len(link) \subseteq 1..(Len(link) + 1)
  BY <1>1
<1>q. QED BY <1>2, <1>3, <1>4, <1>5, <1>6 DEF longer

(* The counter of the fingerprint in position p of bucket b. *)
CounterAt(b, p) == counter[b][ReplaceSlot(p, reg_dfa[b])]

(* What a packet does to the unit: the counters follow their fingerprints,  *)
(* and the record carries what is evicted.                                  *)
LEMMA UnitEffect ==
  ASSUME CacheTypeOK, NEW f \in Flow, NEW len \in PktLen, Egress2(f, len)
  PROVE  LET b == lru_bucket_hash[f]
             i == fp_hash[f]
             t == Tsm(fp[b], i)
             r == [old_fp |-> IF t = 4 THEN fp[b][3] ELSE ZeroFp,
                   old_counter |-> IF t = 4 THEN CounterAt(b, 3) ELSE 0, new_fp |-> i,
                   lru_is_replace |-> t = 4 /\ fp[b][3] # ZeroFp /\ CounterAt(b, 3) # 0]
         IN /\ \A p \in Position : fp'[b][p] = IF p = 1 THEN i ELSE fp[b][Origin(t, p)]
            /\ CounterAt(b, 1)' = CounterAfter(t, CounterAt(b, Origin(t, 1)), len)
            /\ \A p \in Position \ {1} : CounterAt(b, p)' = CounterAt(b, Origin(t, p))
            /\ \A c \in Bucket \ {b}, p \in Position :
                 CounterAt(c, p)' = CounterAt(c, p) /\ fp'[c] = fp[c]
            /\ loopback' = Append(loopback, r)
<1> USE LRUHashAssumption
<1> DEFINE b == lru_bucket_hash[f]
           i == fp_hash[f]
           t == Tsm(fp[b], i)
           sta == DfaNext(t, reg_dfa[b])
           slot == QuerySlot(sta)
<1>1. b \in Bucket /\ t \in 1..4 BY TsmType
<1>2. reg_dfa[b] \in DfaState /\ sta \in DfaState BY <1>1, DfaClosed DEF CacheTypeOK
<1>3. reg_dfa'[b] = sta BY <1>1 DEF Egress2, CacheTypeOK
<1>4. slot = ReplaceSlot(1, sta) BY <1>2, QuerySlotIsFront
<1>5. \A p \in Position : ReplaceSlot(p, sta) = ReplaceSlot(Origin(t, p), reg_dfa[b])
  BY <1>1, <1>2, DfaPermutes
<1>6. slot \in Slot /\ 1 \in Position BY DEF QuerySlot, Slot, Position
<1>7. counter' = [counter EXCEPT ![b][slot] = CounterAfter(t, counter[b][slot], len)]
  BY DEF Egress2
<1>8. counter[b][slot] = CounterAt(b, Origin(t, 1)) BY <1>4, <1>5, <1>6 DEF CounterAt
<1>9. CounterAt(b, 1)' = CounterAfter(t, CounterAt(b, Origin(t, 1)), len)
  BY <1>1, <1>3, <1>4, <1>6, <1>7, <1>8 DEF CounterAt, CacheTypeOK
<1>10. ASSUME NEW p \in Position \ {1}
       PROVE  CounterAt(b, p)' = CounterAt(b, Origin(t, p))
  <2>1. ReplaceSlot(p, sta) # slot /\ ReplaceSlot(p, sta) \in Slot
    BY <1>2, <1>4, <1>6, SlotInjective, SlotType
  <2>2. counter'[b][ReplaceSlot(p, sta)] = counter[b][ReplaceSlot(p, sta)]
    BY <2>1, <1>1, <1>7 DEF CacheTypeOK
  <2>q. QED BY <2>2, <1>3, <1>5 DEF CounterAt
<1>11. ASSUME NEW c \in Bucket \ {b}, NEW p \in Position
       PROVE  CounterAt(c, p)' = CounterAt(c, p) /\ fp'[c] = fp[c]
  <2>1. fp'[c] = fp[c] /\ reg_dfa'[c] = reg_dfa[c] /\ counter'[c] = counter[c]
    BY <1>1, <1>7 DEF Egress2, CacheTypeOK
  <2>q. QED BY <2>1 DEF CounterAt
<1>12. \A p \in Position : fp'[b][p] = IF p = 1 THEN i ELSE fp[b][Origin(t, p)]
  <2>1. fp'[b] = InsertKey(fp[b], i) BY <1>1 DEF Egress2, CacheTypeOK
  <2>q. QED BY <2>1, InsertKeyAt
<1>13. t = 4 => counter[b][slot] = CounterAt(b, 3) BY <1>8 DEF Origin
<1>14. LET old_fp == IF t = 4 THEN fp[b][3] ELSE ZeroFp
           old_counter == IF t = 4 THEN CounterAt(b, 3) ELSE 0
       IN loopback' = Append(loopback,
            [old_fp |-> old_fp, old_counter |-> old_counter, new_fp |-> i,
             lru_is_replace |-> IsReplace(old_fp, old_counter)])
  BY <1>13 DEF Egress2
<1>15. IsReplace(IF t = 4 THEN fp[b][3] ELSE ZeroFp, IF t = 4 THEN CounterAt(b, 3) ELSE 0)
         = (t = 4 /\ fp[b][3] # ZeroFp /\ CounterAt(b, 3) # 0)
  BY DEF IsReplace
<1>q. QED BY <1>9, <1>10, <1>11, <1>12, <1>14, <1>15

(* Type correctness of the unit, its links and the receiver's totals. *)
LEMMA UnitTypeInit == CacheInit => CacheTypeOK
<1> SUFFICES ASSUME CacheInit PROVE CacheTypeOK OBVIOUS
<1>1. ZeroFp \in Fp BY DEF Fp
<1>2. <<>> \in Seq(Record) OBVIOUS
<1>q. QED BY <1>1, <1>2, LRUNumbers DEF CacheInit, CacheTypeOK, DfaState

LEMMA UnitTypePacket ==
  ASSUME CacheTypeOK, NEW f \in Flow, NEW len \in PktLen, Egress2(f, len)
  PROVE  CacheTypeOK'
<1> USE LRUHashAssumption, LRUNumbers
<1> DEFINE b == lru_bucket_hash[f]
           i == fp_hash[f]
           t == Tsm(fp[b], i)
           sta == DfaNext(t, reg_dfa[b])
           slot == QuerySlot(sta)
<1>1. b \in Bucket /\ i \in Fp /\ t \in 1..4 /\ len \in Nat BY TsmType DEF Fp
<1>2. sta \in DfaState BY <1>1, DfaClosed DEF CacheTypeOK
<1>3. slot \in Slot BY DEF QuerySlot, Slot
<1>4. InsertKey(fp[b], i) \in [Position -> Fp]
  <2>1. \A p \in Position : fp[b][p] \in Fp BY <1>1 DEF CacheTypeOK
  <2>2. \A p \in Position : p # 1 => p - 1 \in Position BY DEF Position
  <2>q. QED BY <1>1, <2>1, <2>2 DEF InsertKey
<1>5. fp' \in [Bucket -> [Position -> Fp]] /\ reg_dfa' \in [Bucket -> DfaState]
  BY <1>1, <1>2, <1>4 DEF Egress2, CacheTypeOK
<1>6. counter' \in [Bucket -> [Slot -> 0..(CounterMod - 1)]]
  <2>1. counter[b][slot] \in 0..(CounterMod - 1) BY <1>1, <1>3 DEF CacheTypeOK
  <2>2. counter[b][slot] + len \in Int /\ len \in Int BY <1>1, <2>1
  <2>3. CounterAfter(t, counter[b][slot], len) \in 0..(CounterMod - 1)
    BY <2>2, Wrapped DEF CounterAfter
  <2>4. counter' = [counter EXCEPT ![b][slot] = CounterAfter(t, counter[b][slot], len)]
    BY DEF Egress2
  <2>q. QED BY <1>1, <1>3, <2>3, <2>4 DEF CacheTypeOK
<1>7. loopback' \in Seq(Record)
  <2> DEFINE r == [old_fp |-> IF t = 4 THEN fp[b][3] ELSE ZeroFp,
                   old_counter |-> IF t = 4 THEN CounterAt(b, 3) ELSE 0, new_fp |-> i,
                   lru_is_replace |-> t = 4 /\ fp[b][3] # ZeroFp /\ CounterAt(b, 3) # 0]
  <2>1. 3 \in Position /\ ZeroFp \in Fp /\ 0 \in 0..(CounterMod - 1) BY DEF Position, Fp
  <2>2. fp[b][3] \in Fp /\ CounterAt(b, 3) \in 0..(CounterMod - 1)
    BY <2>1, <1>1, SlotType DEF CounterAt, CacheTypeOK
  <2>3. r \in Record BY <2>1, <2>2, <1>1 DEF Record
  <2>4. loopback' = Append(loopback, r) BY UnitEffect
  <2> HIDE DEF r
  <2>q. QED BY <2>3, <2>4 DEF CacheTypeOK
<1>8. entered' \in [Fp -> Nat] /\ packets' \in 0..MaxPackets
  BY <1>1 DEF Egress2, CacheTypeOK
<1>9. UNCHANGED <<toServer, nb_recv, nb_byte, reported, lost, nb_lost, announced>>
  BY DEF Egress2
<1>q. QED BY <1>5, <1>6, <1>7, <1>8, <1>9 DEF CacheTypeOK

LEMMA UnitTypeStep == CacheTypeOK /\ [CacheNext]_cacheVars => CacheTypeOK'
<1> SUFFICES ASSUME CacheTypeOK, [CacheNext]_cacheVars PROVE CacheTypeOK' OBVIOUS
<1>1. CASE Ingress2
  <2>1. /\ Head(loopback) \in Record /\ loopback' \in Seq(Record)
    BY <1>1, AnnouncingTail DEF Ingress2, CacheTypeOK
  <2>2. toServer' \in Seq(Record) /\ announced' \subseteq Fp
    <3>1. CASE Head(loopback).lru_is_replace
      <4>1. /\ toServer' = Append(toServer, Head(loopback))
            /\ announced' = announced \cup {Head(loopback).new_fp}
        BY <1>1, <3>1, Zenon DEF Ingress2
      <4>2. Head(loopback).new_fp \in Fp BY <2>1 DEF Record
      <4>q. QED BY <2>1, <4>1, <4>2 DEF CacheTypeOK
    <3>2. CASE ~Head(loopback).lru_is_replace
      BY <1>1, <3>2 DEF Ingress2, CacheTypeOK
    <3>q. QED BY <3>1, <3>2
  <2>q. QED BY <1>1, <2>1, <2>2 DEF Ingress2, CacheTypeOK, cacheRegs
<1>2. CASE ReceiveSubmit
  <2>1. /\ Head(toServer) \in Record /\ toServer' \in Seq(Record)
    BY <1>2, AnnouncingTail DEF ReceiveSubmit, CacheTypeOK
  <2>2. Head(toServer).old_fp \in Fp /\ Head(toServer).old_counter \in Nat
    BY <2>1, LRUNumbers DEF Record
  <2> DEFINE j == Head(toServer).old_fp
             n == Head(toServer).old_counter
  <2>a. /\ nb_byte' = nb_byte + n /\ nb_recv' = nb_recv + 1
        /\ reported' = [reported EXCEPT ![j] = reported[j] + n]
    BY <1>2 DEF ReceiveSubmit
  <2> HIDE DEF j, n
  <2>b. j \in Fp /\ n \in Nat BY <2>2 DEF j, n
  <2>3. nb_byte' \in Nat /\ nb_recv' \in Nat /\ reported' \in [Fp -> Nat]
    BY <2>a, <2>b DEF CacheTypeOK
  <2>q. QED BY <1>2, <2>1, <2>3 DEF ReceiveSubmit, CacheTypeOK, cacheRegs
<1>3. CASE LoseSubmit
  <2>1. /\ Head(toServer) \in Record /\ toServer' \in Seq(Record)
    BY <1>3, AnnouncingTail DEF LoseSubmit, CacheTypeOK
  <2>2. Head(toServer).old_fp \in Fp /\ Head(toServer).old_counter \in Nat
    BY <2>1, LRUNumbers DEF Record
  <2>q. QED BY <1>3, <2>1, <2>2, LRUNumbers DEF LoseSubmit, CacheTypeOK, cacheRegs
<1>4. CASE UNCHANGED cacheVars BY <1>4 DEF cacheVars, cacheRegs, CacheTypeOK
<1>q. QED BY <1>1, <1>2, <1>3, <1>4, UnitTypePacket DEF CacheNext

-----------------------------------------------------------------------------
(* The inductive invariant of the announcements.  As long as fingerprint 0  *)
(* has not entered and no counter can have wrapped, the empty registers of  *)
(* a bucket are its last ones, a fingerprint in a register has counted at   *)
(* least a byte, and there are no more unannounced fingerprints than        *)
(* registers that have been filled.                                         *)
NoWrap == entered[ZeroFp] = 0 /\ \A i \in Fp : entered[i] < CounterMod

Unannounced ==
  {i \in Fp : entered[i] > 0 /\ i \notin announced \cup Announcing(loopback)}

Filled == {bp \in Bucket \X Position : fp[bp[1]][bp[2]] # ZeroFp}

EmptyLast ==
  \A b \in Bucket : /\ fp[b][1] = ZeroFp => fp[b][2] = ZeroFp
                    /\ fp[b][2] = ZeroFp => fp[b][3] = ZeroFp

CountersPositive ==
  \A b \in Bucket, p \in Position :
     fp[b][p] # ZeroFp => CounterAt(b, p) \in 1..entered[fp[b][p]]

FewUnannounced == IsFiniteSet(Unannounced) /\ Cardinality(Unannounced) <= Cardinality(Filled)

UnitInv ==
  /\ CacheTypeOK
  /\ NoWrap => EmptyLast /\ CountersPositive /\ FewUnannounced

LEMMA FilledFinite ==
  /\ IsFiniteSet(Filled)
  /\ Cardinality(Filled) <= 3 * Cardinality(Bucket)
  /\ Cardinality(Filled) \in Nat
<1>1. IsFiniteSet(Position) /\ Cardinality(Position) = 3
  <2>0. 1 \in Int /\ 3 \in Int OBVIOUS
  <2>1. IsFiniteSet(1..3) /\ Cardinality(1..3) = IF 1 > 3 THEN 0 ELSE 3 - 1 + 1
    BY <2>0, FS_Interval, Zenon
  <2>q. QED BY <2>1 DEF Position
<1>2. Cardinality(Bucket) \in Nat BY LRUBuckets, FS_CardinalityType
<1>3. /\ IsFiniteSet(Bucket \X Position)
      /\ Cardinality(Bucket \X Position) = Cardinality(Bucket) * 3
  BY <1>1, LRUBuckets, FS_Product
<1>4. Filled \in SUBSET (Bucket \X Position) BY DEF Filled
<1>5. IsFiniteSet(Filled) /\ Cardinality(Filled) <= Cardinality(Bucket \X Position)
  BY <1>3, <1>4, FS_Subset
<1>6. Cardinality(Filled) \in Nat BY <1>5, FS_CardinalityType
<1>q. QED BY <1>2, <1>3, <1>5, <1>6

LEMMA UnitInvInit == CacheInit => UnitInv
<1> SUFFICES ASSUME CacheInit PROVE UnitInv OBVIOUS
<1>1. EmptyLast BY DEF CacheInit, EmptyLast, Position
<1>2. CountersPositive BY DEF CacheInit, CountersPositive
<1>3. FewUnannounced
  <2>1. Unannounced = {} BY DEF CacheInit, Unannounced
  <2>q. QED BY <2>1, FS_EmptySet, FilledFinite DEF FewUnannounced
<1>q. QED BY <1>1, <1>2, <1>3, UnitTypeInit DEF UnitInv

(* The number of unannounced fingerprints grows only with a register that   *)
(* is filled for the first time: any other newcomer evicts a fingerprint    *)
(* that has counted bytes, and is announced by its record.                  *)
LEMMA PacketKeepsUnit ==
  ASSUME UnitInv, NEW f \in Flow, NEW len \in PktLen, Egress2(f, len), NoWrap'
  PROVE  EmptyLast' /\ CountersPositive' /\ FewUnannounced'
<1> USE LRUHashAssumption, LRUNumbers DEF UnitInv
<1> DEFINE b == lru_bucket_hash[f]
           i == fp_hash[f]
           t == Tsm(fp[b], i)
<1>1. b \in Bucket /\ i \in Fp /\ ZeroFp \in Fp /\ t \in 1..4 /\ len \in Nat \ {0}
  BY TsmType DEF Fp
<1>2. entered \in [Fp -> Nat] /\ entered' = [entered EXCEPT ![i] = entered[i] + len]
  BY DEF CacheTypeOK, Egress2
<1>3. \A j \in Fp : entered[j] \in Nat /\ entered'[j] \in Nat /\ entered[j] <= entered'[j]
  BY <1>1, <1>2
<1>4. NoWrap /\ i # ZeroFp /\ entered'[i] = entered[i] + len /\ entered'[i] < CounterMod
  BY <1>1, <1>2, <1>3 DEF NoWrap
<1>5. EmptyLast /\ CountersPositive /\ FewUnannounced BY <1>4
<1>6. \A p \in Position : fp'[b][p] = IF p = 1 THEN i ELSE fp[b][Origin(t, p)]
  BY UnitEffect
<1>7. \A c \in Bucket \ {b}, p \in Position :
        CounterAt(c, p)' = CounterAt(c, p) /\ fp'[c] = fp[c]
  BY UnitEffect
<1>8. t # 4 => t \in Position /\ fp[b][t] = i BY <1>1, TsmMeaning DEF Position
<1>9. /\ fp'[b][1] = i
      /\ fp'[b][2] = IF t = 1 THEN fp[b][2] ELSE fp[b][1]
      /\ fp'[b][3] = IF t \in {1, 2} THEN fp[b][3] ELSE fp[b][2]
  BY <1>1, <1>6 DEF Origin, Position
<1>10. EmptyLast'
  <2> SUFFICES ASSUME NEW c \in Bucket
               PROVE  /\ fp'[c][1] = ZeroFp => fp'[c][2] = ZeroFp
                      /\ fp'[c][2] = ZeroFp => fp'[c][3] = ZeroFp
    BY DEF EmptyLast
  <2>1. CASE c # b BY <2>1, <1>5, <1>7 DEF EmptyLast, Position
  <2>2. CASE c = b BY <2>2, <1>1, <1>4, <1>5, <1>8, <1>9 DEF EmptyLast
  <2>q. QED BY <2>1, <2>2
<1>11. CountersPositive'
  <2> SUFFICES ASSUME NEW c \in Bucket, NEW p \in Position, fp'[c][p] # ZeroFp
               PROVE  CounterAt(c, p)' \in 1..entered'[fp'[c][p]]
    BY DEF CountersPositive
  <2>1. CASE c # b
    <3>1. /\ CounterAt(c, p)' = CounterAt(c, p) /\ fp'[c][p] = fp[c][p]
          /\ fp[c][p] \in Fp /\ CounterAt(c, p) \in 1..entered[fp[c][p]]
      BY <2>1, <1>5, <1>7 DEF CountersPositive, CacheTypeOK
    <3>q. QED BY <3>1, <1>3
  <2>2. CASE c = b /\ p # 1
    <3>1. Origin(t, p) \in Position BY <1>1, OriginType
    <3>2. /\ CounterAt(b, p)' = CounterAt(b, Origin(t, p))
          /\ fp'[b][p] = fp[b][Origin(t, p)]
      BY <2>2, <1>6, UnitEffect
    <3>3. /\ fp[b][Origin(t, p)] \in Fp
          /\ CounterAt(b, Origin(t, p)) \in 1..entered[fp[b][Origin(t, p)]]
      BY <2>2, <3>1, <3>2, <1>1, <1>5 DEF CountersPositive, CacheTypeOK
    <3>q. QED BY <2>2, <3>2, <3>3, <1>3
  <2>3. CASE c = b /\ p = 1
    <3>1. CounterAt(b, 1)' = CounterAfter(t, CounterAt(b, Origin(t, 1)), len) BY UnitEffect
    <3>2. CASE t = 4
      <4>1. len \in 0..(CounterMod - 1) BY <1>1, <1>3, <1>4
      <4>2. CounterAt(b, 1)' = len BY <3>1, <3>2, <4>1, NotWrapped DEF CounterAfter
      <4>q. QED BY <2>3, <4>2, <1>1, <1>3, <1>4, <1>9
    <3>3. CASE t # 4
      <4>1. Origin(t, 1) = t BY <3>3 DEF Origin
      <4>2. CounterAt(b, t) \in 1..entered[i] BY <3>3, <1>1, <1>4, <1>5, <1>8 DEF CountersPositive
      <4>3. CounterAt(b, t) + len \in 0..(CounterMod - 1) BY <4>2, <1>1, <1>3, <1>4
      <4>4. CounterAt(b, 1)' = CounterAt(b, t) + len
        BY <3>1, <3>3, <4>1, <4>3, NotWrapped DEF CounterAfter
      <4>q. QED BY <2>3, <4>2, <4>4, <1>1, <1>3, <1>4, <1>9
    <3>q. QED BY <3>2, <3>3
  <2>q. QED BY <2>1, <2>2, <2>3
<1> DEFINE r == [old_fp |-> IF t = 4 THEN fp[b][3] ELSE ZeroFp,
                 old_counter |-> IF t = 4 THEN CounterAt(b, 3) ELSE 0, new_fp |-> i,
                 lru_is_replace |-> t = 4 /\ fp[b][3] # ZeroFp /\ CounterAt(b, 3) # 0]
<1>12. announced' = announced /\ loopback' = Append(loopback, r)
  BY UnitEffect DEF Egress2
<1>13. r \in Record
  <2>1. 3 \in Position /\ 0 \in 0..(CounterMod - 1) BY DEF Position
  <2>2. fp[b][3] \in Fp /\ CounterAt(b, 3) \in 0..(CounterMod - 1)
    BY <2>1, <1>1, SlotType DEF CounterAt, CacheTypeOK
  <2>q. QED BY <2>1, <2>2, <1>1 DEF Record
<1>a. /\ r.new_fp = i
      /\ t = 4 /\ fp[b][3] # ZeroFp /\ CounterAt(b, 3) # 0 => r.lru_is_replace
  OBVIOUS
<1> HIDE DEF r
<1>14. /\ \A x : x \in Announcing(loopback) => x \in Announcing(loopback')
       /\ \A x : x \in Announcing(loopback') => x \in Announcing(loopback) \/ x = i
       /\ r.lru_is_replace => i \in Announcing(loopback')
  <2>1. loopback \in Seq(Record) BY DEF CacheTypeOK
  <2>2. \A x : x \in Announcing(Append(loopback, r)) <=>
                 \/ x \in Announcing(loopback)
                 \/ r.lru_is_replace /\ x = r.new_fp
    BY <2>1, <1>13, AnnouncingAppend
  <2>3. \A x : x \in Announcing(loopback') <=>
                 x \in Announcing(loopback) \/ (r.lru_is_replace /\ x = i)
    <3>1. r.new_fp = i /\ loopback' = Append(loopback, r) BY <1>12, <1>a
    <3> HIDE DEF i
    <3>q. QED BY <2>2, <3>1, Zenon
  <2> HIDE DEF i
  <2>q. QED BY <2>3, Zenon
<1>15. \A j \in Fp : j # i => entered'[j] = entered[j] BY <1>1, <1>2
<1>16. CASE t # 4 \/ fp[b][3] # ZeroFp
  <2>1. Filled' = Filled
    <3> SUFFICES ASSUME NEW c \in Bucket, NEW p \in Position
                 PROVE  fp'[c][p] # ZeroFp <=> fp[c][p] # ZeroFp
      BY DEF Filled
    <3>1. CASE c # b BY <3>1, <1>7
    <3>2. CASE c = b
      BY <3>2, <1>1, <1>4, <1>5, <1>8, <1>9, <1>16 DEF EmptyLast, Position
    <3>q. QED BY <3>1, <3>2
  <2>2. Unannounced' \subseteq Unannounced
    <3>1. CASE t # 4
      <4>1. entered[i] > 0 BY <3>1, <1>1, <1>3, <1>4, <1>5, <1>8 DEF CountersPositive
      <4>q. QED BY <4>1, <1>12, <1>14, <1>15 DEF Unannounced
    <3>2. CASE t = 4
      <4>1. CounterAt(b, 3) # 0
        BY <3>2, <1>1, <1>3, <1>5, <1>16 DEF CountersPositive, Position
      <4>2. r.lru_is_replace BY <3>2, <4>1, <1>16, <1>a, Zenon
      <4>3. i \in Announcing(loopback') BY <4>2, <1>14
      <4>q. QED BY <4>3, <1>12, <1>14, <1>15 DEF Unannounced
    <3>q. QED BY <3>1, <3>2
  <2>3. /\ IsFiniteSet(Unannounced') /\ Cardinality(Unannounced') <= Cardinality(Unannounced)
        /\ Cardinality(Unannounced') \in Nat /\ Cardinality(Unannounced) \in Nat
    BY <2>2, <1>5, FS_Subset, FS_CardinalityType DEF FewUnannounced
  <2>q. QED BY <1>5, <1>10, <1>11, <2>1, <2>3, FilledFinite DEF FewUnannounced
<1>17. CASE t = 4 /\ fp[b][3] = ZeroFp
  <2> DEFINE n == IF fp[b][1] = ZeroFp THEN 1 ELSE IF fp[b][2] = ZeroFp THEN 2 ELSE 3
  <2>1. n \in Position /\ <<b, n>> \notin Filled /\ Filled' = Filled \cup {<<b, n>>}
    <3>1. n \in Position /\ fp[b][n] = ZeroFp BY <1>17 DEF Position
    <3>2. ASSUME NEW c \in Bucket, NEW p \in Position
          PROVE  fp'[c][p] # ZeroFp <=> fp[c][p] # ZeroFp \/ <<c, p>> = <<b, n>>
      <4>1. CASE c # b BY <4>1, <1>7
      <4>2. CASE c = b
        BY <4>2, <1>1, <1>4, <1>5, <1>9, <1>17 DEF EmptyLast, Position
      <4>q. QED BY <4>1, <4>2
    <3>q. QED BY <3>1, <3>2, <1>1 DEF Filled
  <2>2. Cardinality(Filled') = Cardinality(Filled) + 1
    BY <2>1, FilledFinite, FS_AddElement
  <2>3. Unannounced' \subseteq Unannounced \cup {i}
    BY <1>12, <1>14, <1>15 DEF Unannounced
  <2>4. /\ IsFiniteSet(Unannounced \cup {i})
        /\ Cardinality(Unannounced) \in Nat
        /\ Cardinality(Unannounced \cup {i}) <= Cardinality(Unannounced) + 1
        /\ Cardinality(Unannounced \cup {i}) \in Nat
    <3>1. IsFiniteSet(Unannounced) BY <1>5 DEF FewUnannounced
    <3>2. /\ IsFiniteSet(Unannounced \cup {i})
          /\ \/ Cardinality(Unannounced \cup {i}) = Cardinality(Unannounced)
             \/ Cardinality(Unannounced \cup {i}) = Cardinality(Unannounced) + 1
      BY <3>1, FS_AddElement
    <3>3. Cardinality(Unannounced) \in Nat BY <3>1, FS_CardinalityType
    <3>q. QED BY <3>2, <3>3
  <2>5. /\ IsFiniteSet(Unannounced') /\ Cardinality(Unannounced') \in Nat
        /\ Cardinality(Unannounced') <= Cardinality(Unannounced \cup {i})
    BY <2>3, <2>4, FS_Subset, FS_CardinalityType
  <2>q. QED BY <1>5, <1>10, <1>11, <2>2, <2>4, <2>5, FilledFinite DEF FewUnannounced
<1>q. QED BY <1>1, <1>16, <1>17

(* The loopback port moves an announcement on; the receiver and the network *)
(* touch none.                                                              *)
LEMMA UnitInvInductive == UnitInv /\ [CacheNext]_cacheVars => UnitInv'
<1> SUFFICES ASSUME UnitInv, [CacheNext]_cacheVars PROVE UnitInv' OBVIOUS
<1>1. CacheTypeOK' BY UnitTypeStep DEF UnitInv
<1>2. CASE \E f \in Flow, len \in PktLen : Egress2(f, len)
  BY <1>1, <1>2, PacketKeepsUnit DEF UnitInv
<1>3. ASSUME UNCHANGED <<fp, reg_dfa, counter, entered>>,
             \A x \in Fp : x \in announced' \cup Announcing(loopback')
                             <=> x \in announced \cup Announcing(loopback)
      PROVE  UnitInv'
  <2>1. Unannounced' = Unannounced BY <1>3 DEF Unannounced
  <2>2. Filled' = Filled BY <1>3 DEF Filled
  <2>q. QED
    BY <1>1, <1>3, <2>1, <2>2 DEF UnitInv, NoWrap, EmptyLast, CountersPositive,
                                  CounterAt, FewUnannounced
<1>4. CASE Ingress2
  <2>1. \A x : x \in Announcing(loopback) <=>
                 \/ x \in Announcing(loopback')
                 \/ Head(loopback).lru_is_replace /\ x = Head(loopback).new_fp
    BY <1>4, AnnouncingTail DEF Ingress2, UnitInv, CacheTypeOK
  <2>2. CASE Head(loopback).lru_is_replace
    <3>1. announced' = announced \cup {Head(loopback).new_fp}
      BY <1>4, <2>2, Zenon DEF Ingress2
    <3>q. QED BY <1>3, <1>4, <2>1, <2>2, <3>1 DEF Ingress2, cacheRegs
  <2>3. CASE ~Head(loopback).lru_is_replace
    <3>1. announced' = announced BY <1>4, <2>3, Zenon DEF Ingress2
    <3>q. QED BY <1>3, <1>4, <2>1, <2>3, <3>1 DEF Ingress2, cacheRegs
  <2>q. QED BY <2>2, <2>3
<1>5. CASE ReceiveSubmit \/ LoseSubmit \/ UNCHANGED cacheVars
  BY <1>3, <1>5 DEF ReceiveSubmit, LoseSubmit, cacheVars, cacheRegs
<1>q. QED BY <1>2, <1>4, <1>5 DEF CacheNext

(* The registers, links and totals of the unit stay in range.               *)
THEOREM UnitTypeCorrect == CacheSpec => []CacheTypeOK
BY UnitTypeInit, UnitTypeStep, PTL DEF CacheSpec

(* The server learns the five-tuple of every flow but at most three per     *)
(* bucket, the ones that found a register empty: as long as no fingerprint  *)
(* is 0 and no counter wraps.                                               *)
THEOREM FlowsLearnt == CacheSpec => []FlowsAnnounced
<1>1. UnitInv => FlowsAnnounced
  <2> SUFFICES ASSUME UnitInv, NoWrap
               PROVE  Cardinality(Unannounced) <= 3 * Cardinality(Bucket)
    BY DEF FlowsAnnounced, NoWrap, Unannounced
  <2>1. FewUnannounced BY DEF UnitInv
  <2>2. /\ Cardinality(Bucket) \in Nat /\ Cardinality(Unannounced) \in Nat
        /\ Cardinality(Filled) \in Nat
    BY <2>1, LRUBuckets, FilledFinite, FS_CardinalityType DEF FewUnannounced
  <2>q. QED BY <2>1, <2>2, FilledFinite DEF FewUnannounced
<1>q. QED BY <1>1, UnitInvInit, UnitInvInductive, PTL DEF CacheSpec

-----------------------------------------------------------------------------
(* The bytes of fingerprint j a record carries, *)
Debit(r, j) == IF r.old_fp = j THEN r.old_counter ELSE 0
Debits(link, j) == [n \in 1..Len(link) |-> Debit(link[n], j)]

(* and those of it a link carries: their sum. *)
LEMMA BytesInSum ==
  ASSUME NEW link \in Seq(Record), NEW j
  PROVE  Debits(link, j) \in Seq(Nat) /\ BytesIn(link, j) = SumOf(Debits(link, j))
<1> DEFINE D == 1..Len(link)
           T == {n \in D : link[n].old_fp = j}
           w == [n \in D |-> link[n].old_counter]
           v == Debits(link, j)
           P(g) == g = [s \in SUBSET T |-> IF s = {} THEN 0
                          ELSE LET x == CHOOSE x \in s : TRUE IN link[x].old_counter + g[s \ {x}]]
<1>1. DOMAIN link = D /\ Len(link) \in Nat /\ \A n \in D : link[n] \in Record OBVIOUS
<1>2. IsFiniteSet(D) BY <1>1, FS_Interval
<1>3. \A n \in D : link[n].old_counter \in Nat BY <1>1, LRUNumbers DEF Record
<1>4. \A n \in D : v[n] \in Nat /\ v[n] = IF n \in T THEN w[n] ELSE 0
  BY <1>3 DEF Debits, Debit
<1>5. v \in Seq(Nat) /\ DOMAIN v = D
  <2>1. v \in [1..Len(link) -> Nat] BY <1>4 DEF Debits
  <2>q. QED BY <1>1, <2>1
<1>6. BytesIn(link, j) = (CHOOSE g : P(g))[T]
  BY <1>1 DEF BytesIn, MapThenSumSet, MapThenFoldSet
<1>7. ASSUME NEW g PROVE P(g) <=> Sums(g, w, T)
  <2>1. \A s \in SUBSET T : s # {} => w[Pick(s)] = link[Pick(s)].old_counter BY DEF Pick
  <2> HIDE DEF w, T
  <2>q. QED BY <2>1 DEF Sums, Pick
<1>8. T \in SUBSET D OBVIOUS
<1> HIDE DEF P, w, T, v, D
<1>9. (CHOOSE g : P(g)) = CHOOSE g : Sums(g, w, T) BY <1>7
<1>10. BytesIn(link, j) = Total(w, T) BY <1>6, <1>9, TotalIs
<1>11. Total(w, T) = Total(v, D) BY <1>2, <1>4, <1>8, TotalFilter
<1>q. QED BY <1>5, <1>10, <1>11 DEF v, SumOf

LEMMA DebitType ==
  ASSUME NEW r \in Record, NEW j
  PROVE  Debit(r, j) \in Nat
BY LRUNumbers DEF Debit, Record

LEMMA BytesInType ==
  ASSUME NEW link \in Seq(Record), NEW j
  PROVE  BytesIn(link, j) \in Nat
BY BytesInSum, SumType

LEMMA BytesInAppend ==
  ASSUME NEW link \in Seq(Record), NEW r \in Record, NEW j
  PROVE  BytesIn(Append(link, r), j) = BytesIn(link, j) + Debit(r, j)
<1>1. Append(link, r) \in Seq(Record) OBVIOUS
<1>2. Debits(Append(link, r), j) = Append(Debits(link, j), Debit(r, j)) BY DEF Debits
<1>3. Debits(link, j) \in Seq(Int) BY BytesInSum
<1>4. Debit(r, j) \in Int BY LRUNumbers DEF Debit, Record
<1>5. SumOf(Append(Debits(link, j), Debit(r, j))) = SumOf(Debits(link, j)) + Debit(r, j)
  BY <1>3, <1>4, SumAppend
<1>q. QED BY <1>1, <1>2, <1>5, BytesInSum

LEMMA TailIs ==
  ASSUME NEW S, NEW s \in Seq(S), s # <<>>
  PROVE  Tail(s) = [n \in 1..(Len(s) - 1) |-> s[n + 1]]
<1> DEFINE t == Tail(s)
           u == [n \in 1..(Len(s) - 1) |-> s[n + 1]]
<1>1. /\ Len(s) \in Nat \ {0} /\ t \in Seq(S) /\ Len(t) = Len(s) - 1
      /\ \A n \in 1..(Len(s) - 1) : t[n] = s[n + 1]
  OBVIOUS
<1>2. t \in [1..Len(t) -> S] 
  <2>1. \A S1, z : z \in Seq(S1) => z \in [1..Len(z) -> S1] OBVIOUS
  <2>q. QED BY <1>1, <2>1
<1>3. u \in [1..(Len(s) - 1) -> S] BY <1>1
<1> HIDE DEF t
<1>4. t = u BY <1>1, <1>2, <1>3
<1>q. QED BY <1>4 DEF t

LEMMA BytesInTail ==
  ASSUME NEW link \in Seq(Record), link # <<>>, NEW j
  PROVE  BytesIn(link, j) = BytesIn(Tail(link), j) + Debit(Head(link), j)
<1> DEFINE d == Debits(link, j)
<1>1. Tail(link) \in Seq(Record) /\ Head(link) \in Record OBVIOUS
<1>2. d \in Seq(Int) /\ d # <<>> /\ Head(d) = Debit(Head(link), j)
      /\ Tail(d) = Debits(Tail(link), j)
  <2>1. d \in Seq(Int) BY BytesInSum
  <2>2. Len(d) = Len(link) /\ Len(link) \in Nat \ {0} BY DEF Debits
  <2>3. d # <<>> BY <2>2
  <2>4. Head(d) = d[1] /\ Head(link) = link[1] /\ d[1] = Debit(link[1], j) BY <2>2, <2>3 DEF Debits
  <2>5. Tail(link) = [n \in 1..(Len(link) - 1) |-> link[n + 1]] BY TailIs
  <2>6. Tail(d) = [n \in 1..(Len(link) - 1) |-> d[n + 1]]
    <3> HIDE DEF d
    <3>q. QED BY <2>1, <2>2, <2>3, TailIs
  <2>7. \A n \in 1..(Len(link) - 1) : d[n + 1] = Debit(link[n + 1], j) BY <2>2 DEF Debits
  <2>8. Len(Tail(link)) = Len(link) - 1 BY <2>2
  <2> HIDE DEF d
  <2>9. Debits(Tail(link), j) = [n \in 1..(Len(link) - 1) |-> Debit(link[n + 1], j)]
    BY <2>5, <2>8 DEF Debits
  <2>q. QED BY <2>1, <2>3, <2>4, <2>6, <2>7, <2>9
<1> HIDE DEF d
<1>3. SumOf(d) = Head(d) + SumOf(Tail(d)) BY <1>2, SumTail
<1>4. BytesIn(link, j) = SumOf(d) BY BytesInSum DEF d
<1>5. BytesIn(Tail(link), j) = SumOf(Tail(d)) BY <1>1, <1>2, BytesInSum
<1>6. BytesIn(Tail(link), j) \in Nat /\ Debit(Head(link), j) \in Nat
  BY <1>1, BytesInType, DebitType
<1>q. QED BY <1>2, <1>3, <1>4, <1>5, <1>6

-----------------------------------------------------------------------------
(* The bytes of fingerprint j in the registers fps, dfa and ctr.            *)
BytesOf(fps, dfa, ctr, j) ==
  MapThenSumSet(LAMBDA bp : ctr[bp[1]][ReplaceSlot(bp[2], dfa[bp[1]])],
                {bp \in Bucket \X Position : fps[bp[1]][bp[2]] = j})

Holding(fps, dfa, ctr, j) ==
  [bp \in Bucket \X Position |->
     IF fps[bp[1]][bp[2]] = j THEN ctr[bp[1]][ReplaceSlot(bp[2], dfa[bp[1]])] ELSE 0]

Registers(fps, dfa, ctr) ==
  /\ fps \in [Bucket -> [Position -> Fp]] /\ dfa \in [Bucket -> DfaState]
  /\ ctr \in [Bucket -> [Slot -> 0..(CounterMod - 1)]]

LEMMA PlacesFinite == IsFiniteSet(Bucket \X Position)
<1>1. IsFiniteSet(Position)
  <2>1. 1 \in Int /\ 3 \in Int OBVIOUS
  <2>q. QED BY <2>1, FS_Interval DEF Position
<1>q. QED BY <1>1, LRUBuckets, FS_Product

LEMMA BytesOfSum ==
  ASSUME NEW fps, NEW dfa, NEW ctr, Registers(fps, dfa, ctr), NEW j
  PROVE  /\ \A bp \in Bucket \X Position : Holding(fps, dfa, ctr, j)[bp] \in Nat
         /\ BytesOf(fps, dfa, ctr, j) = Total(Holding(fps, dfa, ctr, j), Bucket \X Position)
<1> DEFINE D == Bucket \X Position
           T == {bp \in D : fps[bp[1]][bp[2]] = j}
           w == [bp \in D |-> ctr[bp[1]][ReplaceSlot(bp[2], dfa[bp[1]])]]
           v == Holding(fps, dfa, ctr, j)
           P(g) == g = [s \in SUBSET T |-> IF s = {} THEN 0
                          ELSE LET x == CHOOSE x \in s : TRUE
                               IN ctr[x[1]][ReplaceSlot(x[2], dfa[x[1]])] + g[s \ {x}]]
<1>1. \A bp \in D : w[bp] \in Nat
  BY LRUNumbers, SlotType DEF Registers
<1>2. \A bp \in D : v[bp] \in Nat /\ v[bp] = IF bp \in T THEN w[bp] ELSE 0
  BY <1>1 DEF Holding
<1>3. BytesOf(fps, dfa, ctr, j) = (CHOOSE g : P(g))[T]
  BY DEF BytesOf, MapThenSumSet, MapThenFoldSet
<1>4. ASSUME NEW g PROVE P(g) <=> Sums(g, w, T)
  <2>1. \A s \in SUBSET T : s # {} =>
           w[Pick(s)] = ctr[Pick(s)[1]][ReplaceSlot(Pick(s)[2], dfa[Pick(s)[1]])]
    BY DEF Pick
  <2> HIDE DEF w, T
  <2>q. QED BY <2>1 DEF Sums, Pick
<1>5. T \in SUBSET D /\ IsFiniteSet(D) BY PlacesFinite
<1>6. (CHOOSE g : P(g)) = CHOOSE g : Sums(g, w, T)
  <2> HIDE DEF P, w, T, v, D
  <2>q. QED BY <1>4
<1> HIDE DEF P, w, T, v, D
<1>7. BytesOf(fps, dfa, ctr, j) = Total(w, T) BY <1>3, <1>6, TotalIs
<1>8. Total(w, T) = Total(v, D) BY <1>2, <1>5, TotalFilter
<1>q. QED BY <1>2, <1>7, <1>8 DEF v, D

(* They are the bytes in bucket b and those in the other buckets. *)
LEMMA BytesOfSplit ==
  ASSUME NEW fps, NEW dfa, NEW ctr, Registers(fps, dfa, ctr), NEW j, NEW b \in Bucket
  PROVE  LET w == Holding(fps, dfa, ctr, j)
             R == (Bucket \ {b}) \X Position
         IN  /\ BytesOf(fps, dfa, ctr, j) = w[<<b, 1>>] + w[<<b, 2>>] + w[<<b, 3>>] + Total(w, R)
             /\ Total(w, R) \in Nat /\ IsFiniteSet(R)
             /\ \A p \in Position : w[<<b, p>>] \in Nat
<1> DEFINE D == Bucket \X Position
           R == (Bucket \ {b}) \X Position
           w == Holding(fps, dfa, ctr, j)
           D1 == D \ {<<b, 1>>}
           D2 == D1 \ {<<b, 2>>}
           D3 == D2 \ {<<b, 3>>}
<1>1. D3 = R BY DEF Position
<1>2. <<b, 1>> \in D /\ <<b, 2>> \in D1 /\ <<b, 3>> \in D2 BY DEF Position
<1>3. \A x \in D : w[x] \in Int /\ w[x] \in Nat BY BytesOfSum
<1>4. IsFiniteSet(D) /\ IsFiniteSet(D1) /\ IsFiniteSet(D2) /\ IsFiniteSet(D3)
  BY PlacesFinite, FS_Subset
<1>5. D1 \subseteq D /\ D2 \subseteq D /\ D3 \subseteq D OBVIOUS
<1>6. D1 = D \ {<<b, 1>>} /\ D2 = D1 \ {<<b, 2>>} /\ D3 = D2 \ {<<b, 3>>} OBVIOUS
<1> HIDE DEF D, D1, D2, D3, R, w
<1>7. Total(w, D) = w[<<b, 1>>] + Total(w, D \ {<<b, 1>>}) BY <1>2, <1>3, <1>4, TotalRemove
<1>8. Total(w, D1) = w[<<b, 2>>] + Total(w, D1 \ {<<b, 2>>})
  BY <1>2, <1>3, <1>4, <1>5, TotalRemove
<1>9. Total(w, D2) = w[<<b, 3>>] + Total(w, D2 \ {<<b, 3>>})
  BY <1>2, <1>3, <1>4, <1>5, TotalRemove
<1>10. Total(w, D3) \in Nat BY <1>3, <1>4, <1>5, TotalType
<1>11. w[<<b, 1>>] \in Nat /\ w[<<b, 2>>] \in Nat /\ w[<<b, 3>>] \in Nat
  BY <1>2, <1>3, <1>5
<1>12. Total(w, D) = w[<<b, 1>>] + (w[<<b, 2>>] + (w[<<b, 3>>] + Total(w, D3)))
  <2>1. Total(w, D \ {<<b, 1>>}) = Total(w, D1) /\ Total(w, D1 \ {<<b, 2>>}) = Total(w, D2)
        /\ Total(w, D2 \ {<<b, 3>>}) = Total(w, D3)
    BY <1>6, Zenon
  <2>q. QED BY <1>7, <1>8, <1>9, <2>1
<1>13. BytesOf(fps, dfa, ctr, j) = Total(w, D) BY BytesOfSum DEF w, D
<1>14. BytesOf(fps, dfa, ctr, j) = w[<<b, 1>>] + w[<<b, 2>>] + w[<<b, 3>>] + Total(w, D3)
  BY <1>10, <1>11, <1>12, <1>13
<1>15. \A p \in Position : w[<<b, p>>] \in Nat BY <1>3 DEF D
<1>16. IsFiniteSet(R) /\ Total(w, R) = Total(w, D3) /\ R = D3 BY <1>1, <1>4, Zenon
<1>q. QED BY <1>10, <1>14, <1>15, <1>16 DEF w, R

(* The record a packet of flow f sends, with what it evicts, and the bytes  *)
(* already counted for its fingerprint.                                     *)
Submitted(f) ==
  LET b == lru_bucket_hash[f]
      i == fp_hash[f]
      t == Tsm(fp[b], i)
  IN  [old_fp |-> IF t = 4 THEN fp[b][3] ELSE ZeroFp,
       old_counter |-> IF t = 4 THEN CounterAt(b, 3) ELSE 0, new_fp |-> i,
       lru_is_replace |-> t = 4 /\ fp[b][3] # ZeroFp /\ CounterAt(b, 3) # 0]

Held(f) ==
  LET b == lru_bucket_hash[f]
      t == Tsm(fp[b], fp_hash[f])
  IN  IF t = 4 THEN 0 ELSE CounterAt(b, t)

Counted(f, len) == (Held(f) + len) % CounterMod

(* A packet moves the bytes of its bucket with their fingerprints, adds its *)
(* length to its own, up to the width of the counter, and puts the bytes it *)
(* evicts into the record.                                                  *)
LEMMA CachedAfter ==
  ASSUME CacheTypeOK, NEW f \in Flow, NEW len \in PktLen, Egress2(f, len), NEW j
  PROVE  /\ CachedBytes(j)' + Debit(Submitted(f), j)
              = CachedBytes(j) + IF j = fp_hash[f] THEN Counted(f, len) - Held(f) ELSE 0
         /\ loopback' = Append(loopback, Submitted(f))
<1> USE LRUHashAssumption
<1> DEFINE b == lru_bucket_hash[f]
           i == fp_hash[f]
           t == Tsm(fp[b], i)
           r == [old_fp |-> IF t = 4 THEN fp[b][3] ELSE ZeroFp,
                 old_counter |-> IF t = 4 THEN CounterAt(b, 3) ELSE 0, new_fp |-> i,
                 lru_is_replace |-> t = 4 /\ fp[b][3] # ZeroFp /\ CounterAt(b, 3) # 0]
           held == IF t = 4 THEN 0 ELSE CounterAt(b, t)
           new == (held + len) % CounterMod
           w == Holding(fp, reg_dfa, counter, j)
           v == Holding(fp', reg_dfa', counter', j)
           R == (Bucket \ {b}) \X Position
           c(p) == CounterAt(b, p)
           d(p) == CounterAt(b, p)'
<1>1. b \in Bucket /\ t \in 1..4 /\ len \in Nat BY TsmType, LRUNumbers
<1>2. Registers(fp, reg_dfa, counter) /\ Registers(fp', reg_dfa', counter')
  BY UnitTypePacket DEF Registers, CacheTypeOK
<1>3. /\ CachedBytes(j) = BytesOf(fp, reg_dfa, counter, j)
      /\ CachedBytes(j)' = BytesOf(fp', reg_dfa', counter', j)
  BY DEF CachedBytes, BytesOf, MapThenSumSet, MapThenFoldSet
<1>a. ASSUME NEW fps, NEW dfa, NEW ctr, Registers(fps, dfa, ctr)
      PROVE  LET u == Holding(fps, dfa, ctr, j)
             IN  /\ BytesOf(fps, dfa, ctr, j) = u[<<b, 1>>] + u[<<b, 2>>] + u[<<b, 3>>] + Total(u, R)
                 /\ Total(u, R) \in Nat /\ IsFiniteSet(R)
  <2> HIDE DEF b
  <2>q. QED BY <1>1, <1>a, BytesOfSplit
<1>4. /\ BytesOf(fp, reg_dfa, counter, j) = w[<<b, 1>>] + w[<<b, 2>>] + w[<<b, 3>>] + Total(w, R)
      /\ Total(w, R) \in Nat /\ IsFiniteSet(R)
  BY <1>2, <1>a
<1>5. /\ BytesOf(fp', reg_dfa', counter', j)
           = v[<<b, 1>>] + v[<<b, 2>>] + v[<<b, 3>>] + Total(v, R)
      /\ Total(v, R) \in Nat
  BY <1>2, <1>a
<1>6. /\ \A p \in Position : fp'[b][p] = IF p = 1 THEN i ELSE fp[b][Origin(t, p)]
      /\ d(1) = CounterAfter(t, c(Origin(t, 1)), len)
      /\ \A p \in Position \ {1} : d(p) = c(Origin(t, p))
      /\ \A z \in Bucket \ {b}, p \in Position :
            CounterAt(z, p)' = CounterAt(z, p) /\ fp'[z] = fp[z]
  BY UnitEffect
<1>7. Total(v, R) = Total(w, R)
  <2>1. \A x \in R : v[x] = w[x]
    BY <1>6 DEF Holding, CounterAt
  <2>2. \A x \in R : w[x] \in Int BY <1>2, BytesOfSum
  <2> HIDE DEF v, w, R
  <2>q. QED BY <1>4, <2>1, <2>2, TotalSame
<1>8. \A p \in Position : /\ w[<<b, p>>] = IF fp[b][p] = j THEN c(p) ELSE 0
                          /\ v[<<b, p>>] = IF fp'[b][p] = j THEN d(p) ELSE 0
  BY <1>1 DEF Holding, CounterAt
<1>9. \A p \in Position : c(p) \in Nat
  BY <1>1, LRUNumbers, SlotType DEF CounterAt, CacheTypeOK
<1>10. t # 4 => fp[b][t] = i BY TsmMeaning
<1>11. new \in Nat
  <2>1. held \in Nat BY <1>1, <1>9 DEF Position
  <2> HIDE DEF held
  <2>q. QED BY <2>1, <1>1, LRUNumbers, Wrapped
<1>12. d(1) = new
  <2>1. t = 4 => Origin(t, 1) = 3 BY DEF Origin
  <2>2. t # 4 => Origin(t, 1) = t BY DEF Origin
  <2>3. t = 4 => 0 + len = len BY <1>1
  <2>q. QED BY <1>6, <2>1, <2>2, <2>3 DEF CounterAfter
<1>13. Debit(r, j) = IF t = 4 /\ fp[b][3] = j THEN c(3) ELSE 0 BY DEF Debit
<1> DEFINE f1 == fp[b][1]
           f2 == fp[b][2]
           f3 == fp[b][3]
           g1 == fp'[b][1]
           g2 == fp'[b][2]
           g3 == fp'[b][3]
           c1 == c(1)
           c2 == c(2)
           c3 == c(3)
           sum == Total(w, R)
           ev == Debit(r, j)
<1>14. /\ g1 = i
       /\ g2 = IF t = 1 THEN f2 ELSE f1
       /\ g3 = IF t \in {1, 2} THEN f3 ELSE f2
       /\ d(2) = IF t = 1 THEN c2 ELSE c1
       /\ d(3) = IF t \in {1, 2} THEN c3 ELSE c2
  BY <1>1, <1>6 DEF Origin, Position
<1>15. /\ CachedBytes(j) = (IF f1 = j THEN c1 ELSE 0) + (IF f2 = j THEN c2 ELSE 0)
                             + (IF f3 = j THEN c3 ELSE 0) + sum
       /\ CachedBytes(j)' = (IF g1 = j THEN d(1) ELSE 0) + (IF g2 = j THEN d(2) ELSE 0)
                             + (IF g3 = j THEN d(3) ELSE 0) + sum
  BY <1>3, <1>4, <1>5, <1>7, <1>8 DEF Position
<1>16. /\ t = 1 => f1 = i /\ held = c1
       /\ t = 2 => f2 = i /\ held = c2
       /\ t = 3 => f3 = i /\ held = c3
       /\ t = 4 => held = 0
  BY <1>10
<1>17. c1 \in Nat /\ c2 \in Nat /\ c3 \in Nat /\ sum \in Nat BY <1>4, <1>9 DEF Position
<1>18. ev = IF t = 4 /\ f3 = j THEN c3 ELSE 0 BY <1>13
<1> HIDE DEF b, i, t, r, held, new, w, v, R, c, d, f1, f2, f3, g1, g2, g3, c1, c2, c3, sum, ev
<1>19. CachedBytes(j)' + ev = CachedBytes(j) + IF j = i THEN new - held ELSE 0
  <2>1. t = 1 \/ t = 2 \/ t = 3 \/ t = 4 BY <1>1
  <2>2. CASE t = 1 BY <2>2, <1>11, <1>12, <1>14, <1>15, <1>16, <1>17, <1>18
  <2>3. CASE t = 2 BY <2>3, <1>11, <1>12, <1>14, <1>15, <1>16, <1>17, <1>18
  <2>4. CASE t = 3 BY <2>4, <1>11, <1>12, <1>14, <1>15, <1>16, <1>17, <1>18
  <2>5. CASE t = 4 BY <2>5, <1>11, <1>12, <1>14, <1>15, <1>16, <1>17, <1>18
  <2>q. QED BY <2>1, <2>2, <2>3, <2>4, <2>5
<1>20. r = Submitted(f) /\ held = Held(f) /\ i = fp_hash[f] /\ ev = Debit(r, j)
  BY DEF r, held, Submitted, Held, b, i, t, ev
<1>21. new = Counted(f, len) BY <1>20 DEF new, Counted
<1>22. loopback' = Append(loopback, r) BY UnitEffect DEF r, b, i, t
<1>q. QED BY <1>19, <1>20, <1>21, <1>22

-----------------------------------------------------------------------------
(* The inductive invariant of the bytes: the records say truly whether they *)
(* carry bytes, and what is cached, under way, received or lost is what     *)
(* entered, but for what the counters dropped when they wrapped.            *)
Accounted(j) ==
  CachedBytes(j) + BytesIn(loopback, j) + BytesIn(toServer, j) + reported[j] + lost[j]

Marked ==
  \A n \in DOMAIN loopback :
     loopback[n].lru_is_replace = IsReplace(loopback[n].old_fp, loopback[n].old_counter)

Balanced ==
  \A j \in Fp : /\ Accounted(j) <= entered[j]
                /\ j # ZeroFp => Accounted(j) % CounterMod = entered[j] % CounterMod

BytesInv == CacheTypeOK /\ Marked /\ Balanced

LEMMA BytesOfType ==
  ASSUME NEW fps, NEW dfa, NEW ctr, Registers(fps, dfa, ctr), NEW j
  PROVE  BytesOf(fps, dfa, ctr, j) \in Nat
<1> DEFINE w == Holding(fps, dfa, ctr, j)
           D == Bucket \X Position
<1>1. (\A x \in D : w[x] \in Nat) /\ BytesOf(fps, dfa, ctr, j) = Total(w, D) BY BytesOfSum
<1>2. IsFiniteSet(D) BY PlacesFinite
<1> HIDE DEF w, D
<1>q. QED BY <1>1, <1>2, TotalType

LEMMA CachedBytesType ==
  ASSUME NEW j
  PROVE  /\ CacheTypeOK => CachedBytes(j) \in Nat
         /\ CacheTypeOK' => CachedBytes(j)' \in Nat
<1>1. /\ CachedBytes(j) = BytesOf(fp, reg_dfa, counter, j)
      /\ CachedBytes(j)' = BytesOf(fp', reg_dfa', counter', j)
  BY DEF CachedBytes, BytesOf, MapThenSumSet, MapThenFoldSet
<1>2. /\ CacheTypeOK => Registers(fp, reg_dfa, counter)
      /\ CacheTypeOK' => Registers(fp', reg_dfa', counter')
  BY DEF CacheTypeOK, Registers
<1>q. QED BY <1>1, <1>2, BytesOfType

LEMMA PartsType ==
  ASSUME CacheTypeOK, NEW j \in Fp
  PROVE  /\ CachedBytes(j) \in Nat /\ BytesIn(loopback, j) \in Nat
         /\ BytesIn(toServer, j) \in Nat /\ reported[j] \in Nat /\ lost[j] \in Nat
         /\ entered[j] \in Nat /\ Accounted(j) \in Nat
<1>1. CachedBytes(j) \in Nat BY CachedBytesType
<1>2. BytesIn(loopback, j) \in Nat /\ BytesIn(toServer, j) \in Nat
  BY BytesInType DEF CacheTypeOK
<1>3. reported[j] \in Nat /\ lost[j] \in Nat /\ entered[j] \in Nat BY DEF CacheTypeOK
<1>q. QED BY <1>1, <1>2, <1>3 DEF Accounted

LEMMA BytesInvInit == CacheInit => BytesInv
<1> SUFFICES ASSUME CacheInit PROVE BytesInv OBVIOUS
<1>1. CacheTypeOK BY UnitTypeInit
<1>2. Marked BY DEF CacheInit, Marked
<1>3. ASSUME NEW j \in Fp PROVE Accounted(j) = 0 /\ entered[j] = 0
  <2>1. \A link \in Seq(Record) : link = <<>> => BytesIn(link, j) = 0
    <3> SUFFICES ASSUME NEW link \in Seq(Record), link = <<>> PROVE BytesIn(link, j) = 0
      OBVIOUS
    <3>1. Debits(link, j) = <<>> BY DEF Debits
    <3>2. DOMAIN Debits(link, j) = {} BY <3>1
    <3>q. QED BY <3>2, BytesInSum, TotalEmpty DEF SumOf
  <2>2. BytesIn(loopback, j) = 0 /\ BytesIn(toServer, j) = 0
    BY <1>1, <2>1 DEF CacheInit, CacheTypeOK
  <2>3. CachedBytes(j) = 0
    <3> DEFINE w == Holding(fp, reg_dfa, counter, j)
               D == Bucket \X Position
               z == [x \in {} |-> 0]
    <3>1. Registers(fp, reg_dfa, counter) BY <1>1 DEF CacheTypeOK, Registers
    <3>2. CachedBytes(j) = BytesOf(fp, reg_dfa, counter, j)
      BY DEF CachedBytes, BytesOf, MapThenSumSet, MapThenFoldSet
    <3>3. BytesOf(fp, reg_dfa, counter, j) = Total(w, D) BY <3>1, BytesOfSum
    <3>4. \A x \in D : w[x] = 0 BY SlotType DEF Holding, CacheInit
    <3>5. IsFiniteSet(D) BY PlacesFinite
    <3>6. {} \in SUBSET D /\ \A x \in D : w[x] \in Int /\ w[x] = IF x \in {} THEN z[x] ELSE 0
      BY <3>4
    <3> HIDE DEF w, D, z
    <3>7. Total(w, D) = Total(z, {}) BY <3>5, <3>6, TotalFilter
    <3>q. QED BY <3>2, <3>3, <3>7, TotalEmpty
  <2>4. reported[j] = 0 /\ lost[j] = 0 /\ entered[j] = 0 BY DEF CacheInit
  <2>q. QED BY <2>2, <2>3, <2>4 DEF Accounted
<1>4. Balanced BY <1>3 DEF Balanced
<1>q. QED BY <1>1, <1>2, <1>4 DEF BytesInv

(* A packet adds its length, up to the width of a counter. *)
LEMMA PacketKeepsBytes ==
  ASSUME BytesInv, NEW f \in Flow, NEW len \in PktLen, Egress2(f, len)
  PROVE  BytesInv'
<1> USE LRUHashAssumption, LRUNumbers
<1> DEFINE b == lru_bucket_hash[f]
           i == fp_hash[f]
           t == Tsm(fp[b], i)
           r == Submitted(f)
           held == Held(f)
           new == Counted(f, len)
<1>1. CacheTypeOK BY DEF BytesInv
<1>0. CacheTypeOK' BY <1>1, UnitTypePacket
<1>2. b \in Bucket /\ i \in Fp /\ t \in 1..4 /\ len \in Nat BY TsmType DEF Fp
<1>3. \A j : CachedBytes(j)' + Debit(r, j) = CachedBytes(j) + IF j = i THEN new - held ELSE 0
  BY <1>1, CachedAfter
<1>4. loopback' = Append(loopback, r) BY <1>1, CachedAfter
<1>5. r \in Record
  <2>1. 3 \in Position /\ 0 \in 0..(CounterMod - 1) /\ ZeroFp \in Fp BY DEF Position, Fp
  <2>2. fp[b][3] \in Fp /\ CounterAt(b, 3) \in 0..(CounterMod - 1)
    BY <1>1, <1>2, <2>1, SlotType DEF CounterAt, CacheTypeOK
  <2>q. QED BY <1>2, <2>1, <2>2 DEF Record, Submitted
<1>6. r.lru_is_replace = IsReplace(r.old_fp, r.old_counter) BY DEF IsReplace, Submitted
<1>7. held \in Nat
  <2>1. t # 4 => t \in Position BY <1>2 DEF Position
  <2>q. QED BY <1>1, <1>2, <2>1, SlotType DEF CounterAt, CacheTypeOK, Held
<1> HIDE DEF r, held
<1>8. new \in Nat /\ new <= held + len /\ new % CounterMod = (held + len) % CounterMod
  <2> DEFINE x == held + len
  <2>1. x \in Nat BY <1>2, <1>7
  <2> HIDE DEF x
  <2>2. x % CounterMod \in 0..(CounterMod - 1) BY <2>1, Wrapped
  <2>3. x % CounterMod <= x
    <3>1. CASE x < CounterMod BY <3>1, <2>1, NotWrapped
    <3>2. CASE x >= CounterMod BY <3>2, <2>1, <2>2
    <3>q. QED BY <3>1, <3>2, <2>1
  <2>4. (x % CounterMod) % CounterMod = x % CounterMod BY <2>2, NotWrapped
  <2>5. new = x % CounterMod BY DEF new, Counted, x, held
  <2>6. new \in Nat /\ new <= x /\ new % CounterMod = x % CounterMod
    <3> HIDE DEF new
    <3>q. QED BY <2>1, <2>2, <2>3, <2>4, <2>5
  <2>q. QED BY <2>6 DEF x
<1> HIDE DEF new, i
<1>9. Marked'
  <2>1. \A n \in DOMAIN loopback' :
          \/ n \in DOMAIN loopback /\ loopback'[n] = loopback[n]
          \/ loopback'[n] = r
    <3>1. \A S, s, e : s \in Seq(S) /\ e \in S =>
             \A n \in DOMAIN Append(s, e) : \/ n \in DOMAIN s /\ Append(s, e)[n] = s[n]
                                          \/ Append(s, e)[n] = e
      OBVIOUS
    <3>q. QED BY <1>1, <1>4, <1>5, <3>1 DEF CacheTypeOK
  <2>q. QED BY <1>6, <2>1 DEF Marked, BytesInv
<1>10. ASSUME NEW j \in Fp
       PROVE  Accounted(j)' = Accounted(j) + IF j = i THEN new - held ELSE 0
  <2>1. BytesIn(loopback', j) = BytesIn(loopback, j) + Debit(r, j)
    BY <1>1, <1>4, <1>5, BytesInAppend DEF CacheTypeOK
  <2>2. UNCHANGED <<toServer, reported, lost>> BY DEF Egress2
  <2>3. /\ CachedBytes(j) \in Nat /\ BytesIn(loopback, j) \in Nat
        /\ BytesIn(toServer, j) \in Nat /\ reported[j] \in Nat /\ lost[j] \in Nat
    BY <1>1, PartsType
  <2>4. Debit(r, j) \in Nat BY <1>5, DebitType
  <2>5. CachedBytes(j)' \in Nat BY <1>0, CachedBytesType
  <2>6. Accounted(j)' = CachedBytes(j)' + BytesIn(loopback', j) + BytesIn(toServer, j)
                          + reported[j] + lost[j]
    BY <2>2 DEF Accounted
  <2>q. QED BY <1>3, <1>7, <1>8, <2>1, <2>3, <2>4, <2>5, <2>6 DEF Accounted
<1>11. ASSUME NEW j \in Fp PROVE entered'[j] = entered[j] + IF j = i THEN len ELSE 0
  <2>1. entered' = [entered EXCEPT ![i] = entered[i] + len] BY DEF Egress2, i
  <2>2. entered \in [Fp -> Nat] BY <1>1 DEF CacheTypeOK
  <2>q. QED BY <1>2, <2>1, <2>2
<1>12. Balanced'
  <2> SUFFICES ASSUME NEW j \in Fp
               PROVE  /\ Accounted(j)' <= entered'[j]
                      /\ j # ZeroFp => Accounted(j)' % CounterMod = entered'[j] % CounterMod
    BY DEF Balanced
  <2>1. /\ Accounted(j) <= entered[j]
        /\ j # ZeroFp => Accounted(j) % CounterMod = entered[j] % CounterMod
    BY DEF BytesInv, Balanced
  <2>2. Accounted(j) \in Nat /\ entered[j] \in Nat BY <1>1, PartsType
  <2>3. CASE j # i BY <2>1, <2>2, <2>3, <1>10, <1>11
  <2>4. CASE j = i
    <3> DEFINE A == Accounted(j)
               E == entered[j]
    <3>1. Accounted(j)' = A + (new - held) /\ entered'[j] = E + len BY <1>10, <1>11, <2>4
    <3> HIDE DEF A, E
    <3>2. A \in Int /\ E \in Int BY <2>2 DEF A, E
    <3>3. A % CounterMod = E % CounterMod => (A + len) % CounterMod = (E + len) % CounterMod
      <4> SUFFICES ASSUME A % CounterMod = E % CounterMod
                   PROVE  (A + len) % CounterMod = (E + len) % CounterMod
        OBVIOUS
      <4>1. len \in Int BY <1>2
      <4>q. QED BY <3>2, <4>1, WrapShift
    <3>4. (new + (A - held)) % CounterMod = (held + len + (A - held)) % CounterMod
      <4> DEFINE x == held + len
                 d == A - held
      <4>1. d \in Int /\ x \in Int /\ new \in Int /\ new % CounterMod = x % CounterMod
        BY <3>2, <1>2, <1>7, <1>8
      <4> HIDE DEF x, d
      <4>2. (new + d) % CounterMod = (x + d) % CounterMod BY <4>1, WrapShift
      <4>q. QED BY <4>2 DEF x, d
    <3>5. new + (A - held) = A + (new - held) /\ held + len + (A - held) = A + len
      BY <3>2, <1>2, <1>7, <1>8
    <3>6. A + (new - held) <= E + len
      <4>1. A <= E BY <2>1 DEF A, E
      <4>q. QED BY <4>1, <3>2, <1>2, <1>7, <1>8
    <3>7. j # ZeroFp => A % CounterMod = E % CounterMod BY <2>1 DEF A, E
    <3>q. QED BY <3>1, <3>3, <3>4, <3>5, <3>6, <3>7
  <2>q. QED BY <2>3, <2>4
<1>q. QED BY <1>0, <1>9, <1>12 DEF BytesInv

(* The loopback port drops a record only if it carries no bytes, the        *)
(* receiver counts what a record carries, and what the network drops is     *)
(* lost.                                                                    *)
LEMMA BytesInvInductive == BytesInv /\ [CacheNext]_cacheVars => BytesInv'
<1> SUFFICES ASSUME BytesInv, [CacheNext]_cacheVars PROVE BytesInv' OBVIOUS
<1>1. CacheTypeOK /\ CacheTypeOK' BY UnitTypeStep DEF BytesInv
<1>2. CASE \E f \in Flow, len \in PktLen : Egress2(f, len) BY <1>2, PacketKeepsBytes
<1>3. ASSUME UNCHANGED cacheRegs
      PROVE  \A j : CachedBytes(j)' = CachedBytes(j)
  BY <1>3 DEF cacheRegs, CachedBytes, MapThenSumSet, MapThenFoldSet
<1>4. \A j \in Fp :
        /\ CachedBytes(j) \in Nat /\ BytesIn(loopback, j) \in Nat
        /\ BytesIn(toServer, j) \in Nat /\ reported[j] \in Nat /\ lost[j] \in Nat
        /\ entered[j] \in Nat /\ Accounted(j) \in Nat
  BY <1>1, PartsType
<1>5. ASSUME \A j \in Fp \ {ZeroFp} : Accounted(j)' = Accounted(j),
             Accounted(ZeroFp)' <= Accounted(ZeroFp), Accounted(ZeroFp)' \in Int,
             entered' = entered
      PROVE  Balanced'
  <2> SUFFICES ASSUME NEW j \in Fp
               PROVE  /\ Accounted(j)' <= entered'[j]
                      /\ j # ZeroFp => Accounted(j)' % CounterMod = entered'[j] % CounterMod
    BY DEF Balanced
  <2>1. /\ Accounted(j) <= entered[j]
        /\ j # ZeroFp => Accounted(j) % CounterMod = entered[j] % CounterMod
    BY DEF BytesInv, Balanced
  <2>2. Accounted(j) \in Nat /\ entered[j] \in Nat BY <1>4
  <2>3. CASE j # ZeroFp BY <2>1, <2>3, <1>5
  <2>4. CASE j = ZeroFp BY <2>1, <2>2, <2>4, <1>5
  <2>q. QED BY <2>3, <2>4
<1>0. ZeroFp \in Fp BY DEF Fp
<1>6. CASE Ingress2
  <2> DEFINE r == Head(loopback)
  <2>1. loopback # <<>> /\ loopback' = Tail(loopback) BY <1>6 DEF Ingress2
  <2>2. UNCHANGED <<cacheRegs, reported, lost, entered>> BY <1>6 DEF Ingress2
  <2>3. r \in Record /\ loopback \in Seq(Record) BY <1>1, <2>1 DEF CacheTypeOK
  <2>4. r.lru_is_replace = IsReplace(r.old_fp, r.old_counter)
    <3>1. 1 \in DOMAIN loopback /\ r = loopback[1] BY <2>1, <2>3
    <3>q. QED BY <3>1 DEF BytesInv, Marked
  <2>5. Marked'
    <3>1. \A n \in DOMAIN loopback' : n + 1 \in DOMAIN loopback /\ loopback'[n] = loopback[n + 1]
      BY <2>1, <2>3
    <3>q. QED BY <3>1 DEF BytesInv, Marked
  <2>6. \A j \in Fp : BytesIn(loopback, j) = BytesIn(loopback', j) + Debit(r, j)
    BY <2>1, <2>3, BytesInTail
  <2>7. \A j \in Fp : BytesIn(loopback', j) \in Nat /\ Debit(r, j) \in Nat
    <3>1. loopback' \in Seq(Record) BY <1>1 DEF CacheTypeOK
    <3>q. QED BY <2>3, <3>1, BytesInType, DebitType
  <2>8. \A j : CachedBytes(j)' = CachedBytes(j) BY <1>3, <2>2
  <2>9. \A j : Accounted(j)' = CachedBytes(j) + BytesIn(loopback', j) + BytesIn(toServer', j)
                                + reported[j] + lost[j]
    BY <2>2, <2>8 DEF Accounted
  <2> HIDE DEF r
  <2>10. CASE r.lru_is_replace
    <3>1. toServer' = Append(toServer, r) BY <1>6, <2>10, Zenon DEF Ingress2, r
    <3>2. \A j \in Fp : BytesIn(toServer', j) = BytesIn(toServer, j) + Debit(r, j)
      BY <1>1, <2>3, <3>1, BytesInAppend DEF CacheTypeOK
    <3>3. \A j \in Fp : Accounted(j)' = Accounted(j)
      BY <2>6, <2>7, <2>9, <3>2, <1>4 DEF Accounted
    <3>q. QED BY <1>0, <1>1, <1>4, <1>5, <2>2, <2>5, <3>3 DEF BytesInv
  <2>11. CASE ~r.lru_is_replace
    <3>1. toServer' = toServer BY <1>6, <2>11, Zenon DEF Ingress2, r
    <3>2. r.old_fp = ZeroFp \/ r.old_counter = 0 BY <2>4, <2>11 DEF IsReplace
    <3>3. \A j \in Fp \ {ZeroFp} : Debit(r, j) = 0 BY <3>2 DEF Debit
    <3>4. \A j \in Fp : Accounted(j)' + Debit(r, j) = Accounted(j) /\ Accounted(j)' \in Nat
      BY <2>6, <2>7, <2>9, <3>1, <1>4 DEF Accounted
    <3>5. \A j \in Fp \ {ZeroFp} : Accounted(j)' = Accounted(j) BY <3>3, <3>4
    <3>6. Accounted(ZeroFp)' <= Accounted(ZeroFp) /\ Accounted(ZeroFp)' \in Int
      BY <1>0, <1>4, <2>7, <3>4
    <3>q. QED BY <1>1, <1>5, <2>2, <2>5, <3>5, <3>6 DEF BytesInv
  <2>q. QED BY <2>10, <2>11
<1>7. ASSUME toServer # <<>>, toServer' = Tail(toServer),
             UNCHANGED <<cacheRegs, loopback, entered>>,
             \A j \in Fp : reported'[j] + lost'[j] = reported[j] + lost[j] + Debit(Head(toServer), j)
      PROVE  BytesInv'
  <2> DEFINE r == Head(toServer)
  <2>1. r \in Record /\ toServer \in Seq(Record) BY <1>1, <1>7 DEF CacheTypeOK
  <2>2. \A j \in Fp : BytesIn(toServer, j) = BytesIn(toServer', j) + Debit(r, j)
    BY <1>7, <2>1, BytesInTail
  <2>3. \A j \in Fp : BytesIn(toServer', j) \in Nat /\ Debit(r, j) \in Nat
    <3>1. toServer' \in Seq(Record) BY <1>1 DEF CacheTypeOK
    <3>q. QED BY <2>1, <3>1, BytesInType, DebitType
  <2>4. \A j : CachedBytes(j)' = CachedBytes(j) BY <1>3, <1>7
  <2>5. \A j \in Fp : reported'[j] \in Nat /\ lost'[j] \in Nat BY <1>1 DEF CacheTypeOK
  <2>6. \A j : Accounted(j)' = CachedBytes(j) + BytesIn(loopback, j) + BytesIn(toServer', j)
                                + reported'[j] + lost'[j]
    BY <1>7, <2>4 DEF Accounted
  <2>a. \A j \in Fp : reported'[j] + lost'[j] = reported[j] + lost[j] + Debit(r, j)
    BY <1>7
  <2> HIDE DEF r
  <2>7. \A j \in Fp : Accounted(j)' = Accounted(j)
    BY <1>4, <2>2, <2>3, <2>5, <2>6, <2>a DEF Accounted
  <2>8. Marked' BY <1>7 DEF Marked, BytesInv
  <2>q. QED BY <1>0, <1>1, <1>4, <1>5, <1>7, <2>7, <2>8 DEF BytesInv
<1>8. \A j \in Fp, r \in Record, fn \in [Fp -> Nat] :
        [fn EXCEPT ![r.old_fp] = fn[r.old_fp] + r.old_counter][j] = fn[j] + Debit(r, j)
  BY LRUNumbers DEF Debit, Record
<1>9. toServer # <<>> => Head(toServer) \in Record BY <1>1 DEF CacheTypeOK
<1>10. reported \in [Fp -> Nat] /\ lost \in [Fp -> Nat] BY <1>1 DEF CacheTypeOK
<1>11. CASE ReceiveSubmit
  <2> DEFINE r == Head(toServer)
  <2>1. /\ toServer # <<>> /\ toServer' = Tail(toServer) /\ lost' = lost
        /\ UNCHANGED <<cacheRegs, loopback, entered>>
        /\ reported' = [reported EXCEPT ![r.old_fp] = reported[r.old_fp] + r.old_counter]
    BY <1>11 DEF ReceiveSubmit
  <2>2. r \in Record BY <1>9, <2>1
  <2> HIDE DEF r
  <2>3. \A j \in Fp : reported'[j] = reported[j] + Debit(r, j) BY <1>8, <1>10, <2>1, <2>2
  <2>4. \A j \in Fp : reported'[j] + lost'[j] = reported[j] + lost[j] + Debit(r, j)
    BY <1>4, <2>1, <2>2, <2>3, DebitType
  <2>q. QED BY <1>7, <2>1, <2>4 DEF r
<1>12. CASE LoseSubmit
  <2> DEFINE r == Head(toServer)
  <2>1. /\ toServer # <<>> /\ toServer' = Tail(toServer) /\ reported' = reported
        /\ UNCHANGED <<cacheRegs, loopback, entered>>
        /\ lost' = [lost EXCEPT ![r.old_fp] = lost[r.old_fp] + r.old_counter]
    BY <1>12 DEF LoseSubmit
  <2>2. r \in Record BY <1>9, <2>1
  <2> HIDE DEF r
  <2>3. \A j \in Fp : lost'[j] = lost[j] + Debit(r, j) BY <1>8, <1>10, <2>1, <2>2
  <2>4. \A j \in Fp : reported'[j] + lost'[j] = reported[j] + lost[j] + Debit(r, j)
    BY <1>4, <2>1, <2>2, <2>3, DebitType
  <2>q. QED BY <1>7, <2>1, <2>4 DEF r
<1>13. CASE UNCHANGED cacheVars
  <2>1. UNCHANGED <<cacheRegs, loopback, toServer, reported, lost, entered>>
    BY <1>13 DEF cacheVars, cacheRegs
  <2>2. \A j : CachedBytes(j)' = CachedBytes(j) BY <1>3, <2>1
  <2>3. \A j : Accounted(j)' = Accounted(j) BY <2>1, <2>2 DEF Accounted
  <2>4. Marked' BY <2>1 DEF Marked, BytesInv
  <2>q. QED BY <1>0, <1>1, <1>4, <1>5, <2>1, <2>3, <2>4 DEF BytesInv
<1>q. QED BY <1>2, <1>6, <1>11, <1>12, <1>13 DEF CacheNext

(* No byte of a flow that passed the filter is lost in the unit, counted    *)
(* twice or for another flow, whatever is evicted, delayed and dropped on   *)
(* the way: the counters of the registers, the records under way, the       *)
(* receiver's total and the bytes lost with records add up to what entered, *)
(* but for whole wraps of a counter, and nothing is invented.               *)
THEOREM BytesAddUp == CacheSpec => []ReportsExact
<1>1. BytesInv => ReportsExact
  <2> SUFFICES ASSUME BytesInv PROVE BytesConserved /\ NothingInvented
    BY DEF ReportsExact, BytesInv
  <2>1. BytesConserved BY DEF BytesInv, Balanced, BytesConserved, Accounted
  <2>2. ASSUME NEW j \in Fp PROVE reported[j] + lost[j] <= entered[j]
    <3>1. Accounted(j) <= entered[j] BY DEF BytesInv, Balanced
    <3>2. /\ CachedBytes(j) \in Nat /\ BytesIn(loopback, j) \in Nat
          /\ BytesIn(toServer, j) \in Nat /\ reported[j] \in Nat /\ lost[j] \in Nat
          /\ entered[j] \in Nat
      BY PartsType DEF BytesInv
    <3>q. QED BY <3>1, <3>2 DEF Accounted
  <2>q. QED BY <2>1, <2>2 DEF NothingInvented
<1>q. QED BY <1>1, BytesInvInit, BytesInvInductive, PTL DEF CacheSpec

-----------------------------------------------------------------------------
(***************************************************************************)
(* FarmHash: which bytes the functions read.  Every set of offsets is an   *)
(* interval, put together from fetches at both ends and rounds between.    *)
(***************************************************************************)
(* A call of a function at offset s with length len reads exactly R. *)
Exactly(R, s, len) == R = s .. (s + len - 1)

(* Rounds over blocks of one size read an interval. *)
LEMMA Chunks16 ==
  ASSUME NEW s \in Int, NEW k \in Nat
  PROVE  UNION {(s + 16 * i) .. (s + 16 * i + 15) : i \in 0 .. k - 1} = s .. (s + 16 * k - 1)
<1>1. ASSUME NEW i \in 0 .. k - 1, NEW x \in (s + 16 * i) .. (s + 16 * i + 15) PROVE x \in s .. (s + 16 * k - 1)
  OBVIOUS
<1>2. ASSUME NEW x \in s .. (s + 16 * k - 1)
      PROVE  \E i \in 0 .. k - 1 : x \in (s + 16 * i) .. (s + 16 * i + 15)
  <2>1. (x - s) \div 16 \in 0 .. k - 1 /\ x \in (s + 16 * ((x - s) \div 16)) .. (s + 16 * ((x - s) \div 16) + 15) OBVIOUS
  <2>q. QED BY <2>1
<1>q. QED BY <1>1, <1>2

LEMMA Chunks20 ==
  ASSUME NEW s \in Int, NEW k \in Nat
  PROVE  UNION {(s + 20 * i) .. (s + 20 * i + 19) : i \in 0 .. k - 1} = s .. (s + 20 * k - 1)
<1>1. ASSUME NEW i \in 0 .. k - 1, NEW x \in (s + 20 * i) .. (s + 20 * i + 19) PROVE x \in s .. (s + 20 * k - 1)
  OBVIOUS
<1>2. ASSUME NEW x \in s .. (s + 20 * k - 1)
      PROVE  \E i \in 0 .. k - 1 : x \in (s + 20 * i) .. (s + 20 * i + 19)
  <2>1. (x - s) \div 20 \in 0 .. k - 1 /\ x \in (s + 20 * ((x - s) \div 20)) .. (s + 20 * ((x - s) \div 20) + 19) OBVIOUS
  <2>q. QED BY <2>1
<1>q. QED BY <1>1, <1>2

LEMMA Chunks64 ==
  ASSUME NEW s \in Int, NEW k \in Nat
  PROVE  UNION {(s + 64 * i) .. (s + 64 * i + 63) : i \in 0 .. k - 1} = s .. (s + 64 * k - 1)
<1>1. ASSUME NEW i \in 0 .. k - 1, NEW x \in (s + 64 * i) .. (s + 64 * i + 63) PROVE x \in s .. (s + 64 * k - 1)
  OBVIOUS
<1>2. ASSUME NEW x \in s .. (s + 64 * k - 1)
      PROVE  \E i \in 0 .. k - 1 : x \in (s + 64 * i) .. (s + 64 * i + 63)
  <2>1. (x - s) \div 64 \in 0 .. k - 1 /\ x \in (s + 64 * ((x - s) \div 64)) .. (s + 64 * ((x - s) \div 64) + 63) OBVIOUS
  <2>q. QED BY <2>1
<1>q. QED BY <1>1, <1>2

LEMMA Chunks80 ==
  ASSUME NEW s \in Int, NEW k \in Nat
  PROVE  UNION {(s + 80 * i) .. (s + 80 * i + 79) : i \in 0 .. k - 1} = s .. (s + 80 * k - 1)
<1>1. ASSUME NEW i \in 0 .. k - 1, NEW x \in (s + 80 * i) .. (s + 80 * i + 79) PROVE x \in s .. (s + 80 * k - 1)
  OBVIOUS
<1>2. ASSUME NEW x \in s .. (s + 80 * k - 1)
      PROVE  \E i \in 0 .. k - 1 : x \in (s + 80 * i) .. (s + 80 * i + 79)
  <2>1. (x - s) \div 80 \in 0 .. k - 1 /\ x \in (s + 80 * ((x - s) \div 80)) .. (s + 80 * ((x - s) \div 80) + 79) OBVIOUS
  <2>q. QED BY <2>1
<1>q. QED BY <1>1, <1>2

LEMMA Chunks256 ==
  ASSUME NEW s \in Int, NEW k \in Nat
  PROVE  UNION {(s + 256 * i) .. (s + 256 * i + 255) : i \in 0 .. k - 1} = s .. (s + 256 * k - 1)
<1>1. ASSUME NEW i \in 0 .. k - 1, NEW x \in (s + 256 * i) .. (s + 256 * i + 255) PROVE x \in s .. (s + 256 * k - 1)
  OBVIOUS
<1>2. ASSUME NEW x \in s .. (s + 256 * k - 1)
      PROVE  \E i \in 0 .. k - 1 : x \in (s + 256 * i) .. (s + 256 * i + 255)
  <2>1. (x - s) \div 256 \in 0 .. k - 1 /\ x \in (s + 256 * ((x - s) \div 256)) .. (s + 256 * ((x - s) \div 256) + 255) OBVIOUS
  <2>q. QED BY <2>1
<1>3. ASSUME NEW x \in UNION {(s + 256 * i) .. (s + 256 * i + 255) : i \in 0 .. k - 1} PROVE x \in s .. (s + 256 * k - 1)
  BY <1>1
<1>4. ASSUME NEW x \in s .. (s + 256 * k - 1) PROVE x \in UNION {(s + 256 * i) .. (s + 256 * i + 255) : i \in 0 .. k - 1}
  <2>1. PICK i \in 0 .. k - 1 : x \in (s + 256 * i) .. (s + 256 * i + 255) BY <1>2
  <2>2. (s + 256 * i) .. (s + 256 * i + 255) \in {(s + 256 * j) .. (s + 256 * j + 255) : j \in 0 .. k - 1} OBVIOUS
  <2>3. \A S : (s + 256 * i) .. (s + 256 * i + 255) \in S => x \in UNION S BY <2>1
  <2>q. QED BY <2>2, <2>3
<1>q. QED BY <1>3, <1>4

LEMMA Interval ==
  ASSUME NEW R, NEW s \in Int, NEW len \in Int, \A x : x \in R <=> x \in Int /\ s <= x /\ x <= s + len - 1
  PROVE  Exactly(R, s, len)
<1>1. ASSUME NEW x \in R PROVE x \in s .. (s + len - 1) OBVIOUS
<1>2. ASSUME NEW x \in s .. (s + len - 1) PROVE x \in R OBVIOUS
<1>q. QED BY <1>1, <1>2 DEF Exactly

LEMMA na0to16 == ASSUME NEW s \in Int, NEW len \in 0 .. 16 PROVE Exactly(naHashLen0to16(s, len), s, len)
<1>1. ASSUME NEW x PROVE x \in naHashLen0to16(s, len) <=> x \in Int /\ s <= x /\ x <= s + len - 1
  <2>1. CASE len >= 8 BY <2>1 DEF naHashLen0to16, Fetch64
  <2>2. CASE len \in 4 .. 7 BY <2>2 DEF naHashLen0to16, Fetch32
  <2>3. CASE len \in 1 .. 3 BY <2>3 DEF naHashLen0to16
  <2>4. CASE len = 0 BY <2>4 DEF naHashLen0to16
  <2>q. QED BY <2>1, <2>2, <2>3, <2>4
<1>q. QED BY <1>1, Interval

LEMMA na17to32 == ASSUME NEW s \in Int, NEW len \in 17 .. 32 PROVE Exactly(naHashLen17to32(s, len), s, len)
<1>1. ASSUME NEW x PROVE x \in naHashLen17to32(s, len) <=> x \in Int /\ s <= x /\ x <= s + len - 1
  <2>1. x \in naHashLen17to32(s, len) <=> \E p \in {s, s + 8, s + len - 8, s + len - 16} : x \in Fetch64(p) BY DEF naHashLen17to32
  <2>2. x \in naHashLen17to32(s, len) <=> x \in Fetch64(s) \/ x \in Fetch64(s + 8) \/ x \in Fetch64(s + len - 8) \/ x \in Fetch64(s + len - 16)
    BY <2>1
  <2>q. QED BY <2>2 DEF Fetch64
<1>q. QED BY <1>1, Interval

LEMMA na33to64 == ASSUME NEW s \in Int, NEW len \in 33 .. 64 PROVE Exactly(naHashLen33to64(s, len), s, len)
<1>1. ASSUME NEW x PROVE x \in naHashLen33to64(s, len) <=> x \in Int /\ s <= x /\ x <= s + len - 1
  <2>1. x \in naHashLen33to64(s, len) <=> \E p \in {s, s + 8, s + len - 8, s + len - 16, s + 16, s + 24, s + len - 32, s + len - 24} : x \in Fetch64(p) BY DEF naHashLen33to64
  <2>2. x \in naHashLen33to64(s, len) <=> x \in Fetch64(s) \/ x \in Fetch64(s + 8) \/ x \in Fetch64(s + len - 8) \/ x \in Fetch64(s + len - 16) \/ x \in Fetch64(s + 16) \/ x \in Fetch64(s + 24) \/ x \in Fetch64(s + len - 32) \/ x \in Fetch64(s + len - 24)
    BY <2>1
  <2>q. QED BY <2>2 DEF Fetch64
<1>q. QED BY <1>1, Interval

LEMMA Weak == ASSUME NEW s \in Int PROVE naWeakHashLen32WithSeeds(s) = s .. s + 31 /\ ccWeakHashLen32WithSeeds(s) = s .. s + 31
<1>1. ASSUME NEW x PROVE x \in UNION {Fetch64(p) : p \in {s, s + 8, s + 16, s + 24}} <=> x \in Int /\ s <= x /\ x <= s + 31
  <2>1. x \in UNION {Fetch64(p) : p \in {s, s + 8, s + 16, s + 24}} <=> \E p \in {s, s + 8, s + 16, s + 24} : x \in Fetch64(p) OBVIOUS
  <2>2. x \in UNION {Fetch64(p) : p \in {s, s + 8, s + 16, s + 24}}
        <=> x \in Fetch64(s) \/ x \in Fetch64(s + 8) \/ x \in Fetch64(s + 16) \/ x \in Fetch64(s + 24)
    BY <2>1
  <2>q. QED BY <2>2 DEF Fetch64
<1>2. UNION {Fetch64(p) : p \in {s, s + 8, s + 16, s + 24}} = s .. s + 31
  <2>1. 32 \in Int /\ s + 32 - 1 = s + 31 OBVIOUS
  <2>2. Exactly(UNION {Fetch64(p) : p \in {s, s + 8, s + 16, s + 24}}, s, 32) BY <1>1, <2>1, Interval
  <2>q. QED BY <2>1, <2>2 DEF Exactly
<1>q. QED BY <1>2 DEF naWeakHashLen32WithSeeds, ccWeakHashLen32WithSeeds

LEMMA Blocks == ASSUME NEW s \in Int PROVE naBlock(s) = s .. s + 63 /\ ccBlock(s) = s .. s + 63
<1>1. /\ naWeakHashLen32WithSeeds(s) = s .. s + 31 /\ naWeakHashLen32WithSeeds(s + 32) = (s + 32) .. s + 32 + 31
      /\ ccWeakHashLen32WithSeeds(s) = s .. s + 31 /\ ccWeakHashLen32WithSeeds(s + 32) = (s + 32) .. s + 32 + 31
  <2>1. s + 32 \in Int OBVIOUS
  <2>q. QED BY <2>1, Weak
<1>2. Fetch64(s + 8) \cup Fetch64(s + 48) \cup Fetch64(s + 40) \cup Fetch64(s + 16) \subseteq s .. s + 63 BY DEF Fetch64
<1>3. (s .. s + 31) \cup ((s + 32) .. s + 32 + 31) = s .. s + 63
  <2>1. ASSUME NEW x \in s .. s + 63 PROVE x \in (s .. s + 31) \cup ((s + 32) .. s + 32 + 31) OBVIOUS
  <2>2. ASSUME NEW x \in (s .. s + 31) \cup ((s + 32) .. s + 32 + 31) PROVE x \in s .. s + 63 OBVIOUS
  <2>q. QED BY <2>1, <2>2
<1>q. QED BY <1>1, <1>2, <1>3 DEF naBlock, ccBlock

(* The blocks of 64 bytes, and the last one again: for a length above 64. *)
LEMMA Ends64 ==
  ASSUME NEW s \in Int, NEW len \in Int, len > 64
  PROVE  /\ (End64(s, len) - s) \div 64 \in Nat /\ 64 * ((End64(s, len) - s) \div 64) >= len - 64
         /\ 64 * ((End64(s, len) - s) \div 64) <= len - 1
         /\ Last64(s, len) = s + len - 64
<1>1. PICK q : q = (len - 1) \div 64 OBVIOUS
<1>2. PICK r : r = (len - 1) % 64 OBVIOUS
<1>3. q \in Nat /\ r \in 0 .. 63 /\ len - 1 = 64 * q + r BY <1>1, <1>2
<1>4. End64(s, len) = s + q * 64 BY <1>1 DEF End64
<1>5. Last64(s, len) = s + q * 64 + r - 63 BY <1>2, <1>4 DEF Last64
<1>6. (End64(s, len) - s) \div 64 = q BY <1>3, <1>4
<1>q. QED BY <1>3, <1>5, <1>6

LEMMA Nested == ASSUME NEW a, NEW b, NEW c, NEW d, b \in Int, c \in Int, a \in Int, d \in Int, a <= c, c <= b + 1, b <= d
                PROVE (a .. b) \cup (c .. d) = a .. d
<1>1. ASSUME NEW x \in a .. d PROVE x \in (a .. b) \cup (c .. d) OBVIOUS
<1>2. ASSUME NEW x \in (a .. b) \cup (c .. d) PROVE x \in a .. d OBVIOUS
<1>q. QED BY <1>1, <1>2

LEMMA naHash == ASSUME NEW s \in Int, NEW len \in Nat PROVE Exactly(naHash64(s, len), s, len)
<1>1. CASE len <= 16
  <2>1. naHash64(s, len) = naHashLen0to16(s, len) BY <1>1 DEF naHash64
  <2>q. QED BY <1>1, <2>1, na0to16
<1>2. CASE len \in 17 .. 32
  <2>1. naHash64(s, len) = naHashLen17to32(s, len) BY <1>2 DEF naHash64
  <2>q. QED BY <1>2, <2>1, na17to32
<1>3. CASE len \in 33 .. 64
  <2>1. naHash64(s, len) = naHashLen33to64(s, len) BY <1>3 DEF naHash64
  <2>q. QED BY <1>3, <2>1, na33to64
<1>4. CASE len > 64
  <2>1. PICK k : k = (End64(s, len) - s) \div 64 OBVIOUS
  <2>2. k \in Nat /\ 64 * k >= len - 64 /\ 64 * k <= len - 1 /\ Last64(s, len) = s + len - 64 BY <1>4, <2>1, Ends64
  <2>3. UNION {naBlock(s + 64 * i) : i \in 0 .. k - 1} = s .. (s + 64 * k - 1)
    <3>1. \A i \in 0 .. k - 1 : naBlock(s + 64 * i) = (s + 64 * i) .. (s + 64 * i + 63)
      <4>1. \A i \in 0 .. k - 1 : s + 64 * i \in Int BY <2>2
      <4>q. QED BY <4>1, Blocks
    <3>2. {naBlock(s + 64 * i) : i \in 0 .. k - 1} = {(s + 64 * i) .. (s + 64 * i + 63) : i \in 0 .. k - 1} BY <3>1
    <3>q. QED BY <2>2, <3>2, Chunks64
  <2>4. naBlock(Last64(s, len)) = (s + len - 64) .. (s + len - 1)
    <3>1. Last64(s, len) \in Int /\ Last64(s, len) + 63 = s + len - 1 BY <2>2
    <3>q. QED BY <2>2, <3>1, Blocks
  <2>5. Fetch64(s) \subseteq s .. (s + len - 1) BY <1>4 DEF Fetch64
  <2>6. (s .. (s + 64 * k - 1)) \cup ((s + len - 64) .. (s + len - 1)) = s .. (s + len - 1)
    BY <1>4, <2>2, Nested
  <2>7. naHash64(s, len) = Fetch64(s) \cup (UNION {naBlock(s + 64 * i) : i \in 0 .. k - 1}) \cup naBlock(Last64(s, len))
    BY <1>4, <2>1 DEF naHash64
  <2>8. naHash64(s, len) = Fetch64(s) \cup (s .. (s + 64 * k - 1)) \cup ((s + len - 64) .. (s + len - 1)) BY <2>3, <2>4, <2>7
  <2>q. QED BY <2>5, <2>6, <2>8 DEF Exactly
<1>q. QED BY <1>1, <1>2, <1>3, <1>4

LEMMA uoRounds == ASSUME NEW s \in Int PROVE uoRound(s) = s .. s + 63
<1>1. ASSUME NEW x \in uoRound(s) PROVE x \in s .. s + 63 BY DEF uoRound, Fetch64
<1>2. ASSUME NEW x \in s .. s + 63 PROVE x \in uoRound(s)
  <2>1. (x - s) \div 8 \in 0 .. 7 /\ x \in Fetch64(s + 8 * ((x - s) \div 8)) BY DEF Fetch64
  <2>q. QED BY <2>1 DEF uoRound
<1>q. QED BY <1>1, <1>2

LEMMA uoHash == ASSUME NEW s \in Int, NEW len \in Nat
                PROVE Exactly(uoHash64(s, len), s, len) /\ Exactly(uoHash64WithSeeds(s, len), s, len)
<1>0. Exactly(naHash64(s, len), s, len) BY naHash
<1>1. Exactly(uoHash64WithSeeds(s, len), s, len)
  <2>1. CASE len <= 64 BY <1>0, <2>1 DEF uoHash64WithSeeds, naHash64WithSeeds
  <2>2. CASE len > 64
    <3>1. PICK k : k = (End64(s, len) - s) \div 64 OBVIOUS
    <3>2. k \in Nat /\ 64 * k >= len - 64 /\ 64 * k <= len - 1 /\ Last64(s, len) = s + len - 64 BY <2>2, <3>1, Ends64
    <3>3. UNION {uoRound(s + 64 * i) : i \in 0 .. k - 1} = s .. (s + 64 * k - 1)
      <4>1. \A i \in 0 .. k - 1 : s + 64 * i \in Int BY <3>2
      <4>2. \A i \in 0 .. k - 1 : uoRound(s + 64 * i) = (s + 64 * i) .. (s + 64 * i + 63) BY <4>1, uoRounds
      <4>3. {uoRound(s + 64 * i) : i \in 0 .. k - 1} = {(s + 64 * i) .. (s + 64 * i + 63) : i \in 0 .. k - 1} BY <4>2
      <4>q. QED BY <3>2, <4>3, Chunks64
    <3>4. naBlock(Last64(s, len)) = (s + len - 64) .. (s + len - 1)
      <4>1. Last64(s, len) \in Int /\ Last64(s, len) + 63 = s + len - 1 BY <3>2
      <4>q. QED BY <3>2, <4>1, Blocks
    <3>5. (s .. (s + 64 * k - 1)) \cup ((s + len - 64) .. (s + len - 1)) = s .. (s + len - 1)
      BY <2>2, <3>2, Nested
    <3>6. uoHash64WithSeeds(s, len) = (UNION {uoRound(s + 64 * i) : i \in 0 .. k - 1}) \cup naBlock(Last64(s, len))
      BY <2>2, <3>1 DEF uoHash64WithSeeds
    <3>7. uoHash64WithSeeds(s, len) = (s .. (s + 64 * k - 1)) \cup ((s + len - 64) .. (s + len - 1)) BY <3>3, <3>4, <3>6
    <3>q. QED BY <3>5, <3>7 DEF Exactly
  <2>q. QED BY <2>1, <2>2
<1>q. QED BY <1>0, <1>1 DEF uoHash64

LEMMA xo32 == ASSUME NEW s \in Int PROVE xoH32(s, 32) = s .. s + 31
<1>1. xoH32(s, 32) = UNION {Fetch64(p) : p \in {s, s + 8, s + 24, s + 16}}
  <2>1. s + 32 - 8 = s + 24 /\ s + 32 - 16 = s + 16 OBVIOUS
  <2>q. QED BY <2>1 DEF xoH32
<1>2. {s, s + 8, s + 24, s + 16} = {s, s + 8, s + 16, s + 24} OBVIOUS
<1>q. QED BY <1>1, <1>2, Weak DEF naWeakHashLen32WithSeeds

LEMMA xoHash == ASSUME NEW s \in Int, NEW len \in Nat
                PROVE Exactly(xoHash64(s, len), s, len) /\ Exactly(xoHash64WithSeed(s, len), s, len)
<1>0. Exactly(naHash64(s, len), s, len) /\ Exactly(uoHash64(s, len), s, len) /\ Exactly(uoHash64WithSeeds(s, len), s, len)
  BY naHash, uoHash
<1>1. CASE len <= 16
  <2>1. xoHash64(s, len) = naHashLen0to16(s, len) BY <1>1 DEF xoHash64
  <2>2. naHash64(s, len) = naHashLen0to16(s, len) BY <1>1 DEF naHash64
  <2>q. QED BY <1>0, <1>1, <2>1, <2>2 DEF xoHash64WithSeed, uoHash64WithSeed, naHash64WithSeed, naHash64WithSeeds
<1>2. CASE len \in 17 .. 32
  <2>1. xoHash64(s, len) = naHashLen17to32(s, len) BY <1>2 DEF xoHash64
  <2>2. naHash64(s, len) = naHashLen17to32(s, len) BY <1>2 DEF naHash64
  <2>q. QED BY <1>0, <1>2, <2>1, <2>2 DEF xoHash64WithSeed, uoHash64WithSeed, naHash64WithSeed, naHash64WithSeeds
<1>3. CASE len \in 33 .. 64
  <2>1. xoHash64(s, len) = xoH32(s, 32) \cup xoH32(s + len - 32, 32) BY <1>3 DEF xoHash64, xoHashLen33to64
  <2>2. xoH32(s, 32) = s .. s + 31 /\ xoH32(s + len - 32, 32) = (s + len - 32) .. (s + len - 32 + 31) BY xo32
  <2>3. s + len - 32 + 31 = s + len - 1 OBVIOUS
  <2>4. (s .. s + 31) \cup ((s + len - 32) .. (s + len - 1)) = s .. (s + len - 1) BY <1>3, Nested
  <2>5. Exactly(xoHash64(s, len), s, len) BY <2>1, <2>2, <2>3, <2>4 DEF Exactly
  <2>q. QED BY <1>0, <1>3, <2>5 DEF xoHash64WithSeed, uoHash64WithSeed, naHash64WithSeed, naHash64WithSeeds
<1>4. CASE len \in 65 .. 96
  <2>1. xoHash64(s, len) = (xoH32(s, 32) \cup xoH32(s + 32, 32)) \cup xoH32(s + len - 32, 32) BY <1>4 DEF xoHash64, xoHashLen65to96
  <2>2. xoH32(s, 32) = s .. s + 31 /\ xoH32(s + 32, 32) = (s + 32) .. (s + 32 + 31)
        /\ xoH32(s + len - 32, 32) = (s + len - 32) .. (s + len - 32 + 31)
    BY xo32
  <2>3. s + len - 32 + 31 = s + len - 1 /\ s + 32 + 31 = s + 63 OBVIOUS
  <2>4. (s .. s + 31) \cup ((s + 32) .. (s + 63)) = s .. (s + 63) BY Nested
  <2>5. (s .. s + 63) \cup ((s + len - 32) .. (s + len - 1)) = s .. (s + len - 1) BY <1>4, Nested
  <2>6. Exactly(xoHash64(s, len), s, len) BY <2>1, <2>2, <2>3, <2>4, <2>5 DEF Exactly
  <2>q. QED BY <1>0, <1>4, <2>6 DEF xoHash64WithSeed, uoHash64WithSeed, naHash64WithSeed, naHash64WithSeeds
<1>5. CASE len > 96
  BY <1>0, <1>5 DEF xoHash64, xoHash64WithSeed, uoHash64WithSeed
<1>q. QED BY <1>1, <1>2, <1>3, <1>4, <1>5

LEMMA teRounds == ASSUME NEW s \in Int PROVE teRound(s) = s .. s + 255
<1>1. ASSUME NEW x \in teRound(s) PROVE x \in s .. s + 255 BY DEF teRound, Fetch128
<1>2. ASSUME NEW x \in s .. s + 255 PROVE x \in teRound(s)
  <2>1. (x - s) \div 16 \in 0 .. 15 /\ x \in Fetch128(s + 16 * ((x - s) \div 16)) BY DEF Fetch128
  <2>q. QED BY <2>1 DEF teRound
<1>q. QED BY <1>1, <1>2

LEMMA teHash ==
  ASSUME NEW s \in Int, NEW len \in Nat, build.sse41, build.x86_64
  PROVE  Exactly(teHash64(s, len), s, len) /\ Exactly(teHash64WithSeed(s, len), s, len)
<1>0. Exactly(xoHash64(s, len), s, len) /\ Exactly(xoHash64WithSeed(s, len), s, len) BY xoHash
<1>1. CASE len < 512 BY <1>0, <1>1 DEF teHash64, teHash64WithSeed
<1>2. CASE len >= 512
  <2>1. PICK k : k = len \div 256 OBVIOUS
  <2>2. PICK r : r = len % 256 OBVIOUS
  <2>3. k \in Nat /\ r \in 0 .. 255 /\ len = 256 * k + r BY <2>1, <2>2
  <2>4. UNION {teRound(s + 256 * i) : i \in 0 .. k - 1} = s .. (s + 256 * k - 1)
    <3>1. \A i \in 0 .. k - 1 : s + 256 * i \in Int BY <2>3
    <3>2. \A i \in 0 .. k - 1 : teRound(s + 256 * i) = (s + 256 * i) .. (s + 256 * i + 255) BY <3>1, teRounds
    <3>3. {teRound(s + 256 * i) : i \in 0 .. k - 1} = {(s + 256 * i) .. (s + 256 * i + 255) : i \in 0 .. k - 1} BY <3>2
    <3>q. QED BY <2>3, <3>3, Chunks256
  <2>5. teTail(s, len) = (s + len - r) .. (s + len - 1)
    <3>1. CASE r = 0
      <4>1. teTail(s, len) = {} BY <2>2, <3>1 DEF teTail
      <4>q. QED BY <4>1, <3>1
    <3>2. CASE r # 0
      <4>1. teTail(s, len) = xoHash64(s + len - r, r) BY <2>2, <3>2 DEF teTail
      <4>2. s + len - r \in Int /\ r \in Nat /\ s + len - r + r - 1 = s + len - 1 BY <2>3
      <4>3. Exactly(xoHash64(s + len - r, r), s + len - r, r) BY <4>2, xoHash
      <4>q. QED BY <4>1, <4>2, <4>3 DEF Exactly
    <3>q. QED BY <3>1, <3>2
  <2>6. (s .. (s + 256 * k - 1)) \cup ((s + len - r) .. (s + len - 1)) = s .. (s + len - 1)
    BY <2>3, Nested
  <2>7. teHash64Long(s, len) = (UNION {teRound(s + 256 * i) : i \in 0 .. k - 1}) \cup teTail(s, len)
    BY <2>1 DEF teHash64Long
  <2>8. Exactly(teHash64Long(s, len), s, len)
    <3>1. teHash64Long(s, len) = (s .. (s + 256 * k - 1)) \cup ((s + len - r) .. (s + len - 1)) BY <2>4, <2>5, <2>7
    <3>q. QED BY <2>6, <3>1 DEF Exactly
  <2>q. QED BY <1>2, <2>8 DEF teHash64, teHash64WithSeed
<1>q. QED BY <1>1, <1>2

(* farmhashmk, and what is built on it. *)
LEMMA Halves == ASSUME NEW len \in Int PROVE \E h \in Int : h = len \div 2 /\ (len = 2 * h \/ len = 2 * h + 1)
<1>1. len \div 2 \in Int /\ (len = 2 * (len \div 2) \/ len = 2 * (len \div 2) + 1) OBVIOUS
<1>q. QED BY <1>1

LEMMA mk13to24 ==
  ASSUME NEW s \in Int, NEW len \in 13 .. 24
  PROVE  Exactly(mkHash32Len13to24(s, len), s, len) /\ Exactly(ccHash32Len13to24(s, len), s, len)
<1>1. PICK h \in Int : h = len \div 2 /\ (len = 2 * h \/ len = 2 * h + 1) BY Halves
<1>2. PICK P : P = {s - 4 + h, s + 4, s + len - 8, s + h, s, s + len - 4} OBVIOUS
<1>3. ASSUME NEW x PROVE x \in UNION {Fetch32(p) : p \in P} <=> x \in Int /\ s <= x /\ x <= s + len - 1
  <2>1. x \in UNION {Fetch32(p) : p \in P} <=> \E p \in P : x \in Fetch32(p) OBVIOUS
  <2>2. x \in UNION {Fetch32(p) : p \in P}
        <=> x \in Fetch32(s - 4 + h) \/ x \in Fetch32(s + 4) \/ x \in Fetch32(s + len - 8) \/ x \in Fetch32(s + h)
            \/ x \in Fetch32(s) \/ x \in Fetch32(s + len - 4)
    BY <1>2, <2>1
  <2>q. QED BY <1>1, <2>2 DEF Fetch32
<1>4. mkHash32Len13to24(s, len) = UNION {Fetch32(p) : p \in P} /\ ccHash32Len13to24(s, len) = UNION {Fetch32(p) : p \in P}
  BY <1>1, <1>2 DEF mkHash32Len13to24, ccHash32Len13to24
<1>5. Exactly(UNION {Fetch32(p) : p \in P}, s, len) BY <1>3, Interval
<1>q. QED BY <1>4, <1>5

LEMMA mk5to12 ==
  ASSUME NEW s \in Int, NEW len \in 5 .. 12
  PROVE  Exactly(mkHash32Len5to12(s, len), s, len) /\ Exactly(ccHash32Len5to12(s, len), s, len)
<1>1. PICK d \in {0, 4} : d = (IF (len \div 2) % 8 >= 4 THEN 4 ELSE 0) OBVIOUS
<1>2. d = 0 => len <= 7 BY <1>1
<1>3. PICK R : R = Fetch32(s) \cup Fetch32(s + len - 4) \cup Fetch32(s + d) OBVIOUS
<1>4. d = 4 => len >= 8 BY <1>1
<1>5. ASSUME NEW x PROVE x \in R <=> x \in Int /\ s <= x /\ x <= s + len - 1
  BY <1>1, <1>2, <1>3, <1>4 DEF Fetch32
<1>6. Exactly(R, s, len) BY <1>5, Interval
<1>q. QED BY <1>1, <1>3, <1>6 DEF mkHash32Len5to12, ccHash32Len5to12

LEMMA mkShortExact == ASSUME NEW s \in Int, NEW len \in 0 .. 24 PROVE Exactly(mkShort(s, len), s, len)
<1>1. CASE len <= 4
  <2>1. mkShort(s, len) = mkHash32Len0to4(s, len) BY <1>1 DEF mkShort
  <2>q. QED BY <2>1 DEF mkHash32Len0to4, Exactly
<1>2. CASE len \in 5 .. 12
  <2>1. mkShort(s, len) = mkHash32Len5to12(s, len) BY <1>2 DEF mkShort
  <2>q. QED BY <1>2, <2>1, mk5to12
<1>3. CASE len \in 13 .. 24
  <2>1. mkShort(s, len) = mkHash32Len13to24(s, len) BY <1>3 DEF mkShort
  <2>q. QED BY <1>3, <2>1, mk13to24
<1>q. QED BY <1>1, <1>2, <1>3

(* Five words from the end. *)
LEMMA Last20 == ASSUME NEW s \in Int, NEW len \in Int
                PROVE UNION {Fetch32(s + len - 4 * i) : i \in 1 .. 5} = (s + len - 20) .. (s + len - 1)
<1>1. ASSUME NEW x \in UNION {Fetch32(s + len - 4 * i) : i \in 1 .. 5} PROVE x \in (s + len - 20) .. (s + len - 1)
  <2>1. PICK i \in 1 .. 5 : x \in Fetch32(s + len - 4 * i) OBVIOUS
  <2>q. QED BY <2>1 DEF Fetch32
<1>2. ASSUME NEW x \in (s + len - 20) .. (s + len - 1) PROVE x \in UNION {Fetch32(s + len - 4 * i) : i \in 1 .. 5}
  <2>1. PICK e \in 1 .. 20 : x = s + len - e
    <3>1. s + len - x \in 1 .. 20 /\ x = s + len - (s + len - x) OBVIOUS
    <3>q. QED BY <3>1
  <2>2. PICK i \in 1 .. 5 : 4 * i - 3 <= e /\ e <= 4 * i
    <3>1. (e + 3) \div 4 \in 1 .. 5 /\ 4 * ((e + 3) \div 4) - 3 <= e /\ e <= 4 * ((e + 3) \div 4) OBVIOUS
    <3>q. QED BY <3>1
  <2>3. x \in Fetch32(s + len - 4 * i) BY <2>1, <2>2 DEF Fetch32
  <2>q. QED BY <2>3
<1>q. QED BY <1>1, <1>2

LEMMA Rounds20 == ASSUME NEW s \in Int PROVE mkRound(s) = s .. s + 19 /\ ccRound(s) = s .. s + 19
<1>1. ASSUME NEW x \in UNION {Fetch32(s + 4 * i) : i \in 0 .. 4} PROVE x \in s .. s + 19
  <2>1. PICK i \in 0 .. 4 : x \in Fetch32(s + 4 * i) OBVIOUS
  <2>q. QED BY <2>1 DEF Fetch32
<1>2. ASSUME NEW x \in s .. s + 19 PROVE x \in UNION {Fetch32(s + 4 * i) : i \in 0 .. 4}
  <2>1. (x - s) \div 4 \in 0 .. 4 /\ x \in Fetch32(s + 4 * ((x - s) \div 4)) BY DEF Fetch32
  <2>q. QED BY <2>1
<1>3. UNION {Fetch32(s + 4 * i) : i \in 0 .. 4} = s .. s + 19 BY <1>1, <1>2
<1>q. QED BY <1>3 DEF mkRound, ccRound

LEMMA mkHash ==
  ASSUME NEW s \in Int, NEW len \in Nat
  PROVE  Exactly(mkHash32(s, len), s, len) /\ Exactly(ccHash32(s, len), s, len)
<1>1. CASE len <= 24
  <2>1. Exactly(mkShort(s, len), s, len) BY <1>1, mkShortExact
  <2>2. mkHash32(s, len) = mkShort(s, len) BY <1>1 DEF mkHash32
  <2>3. Exactly(ccHash32(s, len), s, len)
    <3>1. CASE len <= 4
      <4>1. ccHash32(s, len) = ccHash32Len0to4(s, len) BY <3>1 DEF ccHash32
      <4>q. QED BY <4>1 DEF ccHash32Len0to4, Exactly
    <3>2. CASE len \in 5 .. 12
      <4>1. ccHash32(s, len) = ccHash32Len5to12(s, len) BY <3>2 DEF ccHash32
      <4>q. QED BY <3>2, <4>1, mk5to12
    <3>3. CASE len \in 13 .. 24
      <4>1. ccHash32(s, len) = ccHash32Len13to24(s, len) BY <3>3 DEF ccHash32
      <4>q. QED BY <3>3, <4>1, mk13to24
    <3>q. QED BY <1>1, <3>1, <3>2, <3>3
  <2>q. QED BY <2>1, <2>2, <2>3
<1>2. CASE len > 24
  <2>1. PICK k : k = (len - 1) \div 20 OBVIOUS
  <2>2. k \in Nat /\ 20 * k <= len - 1 /\ 20 * k >= len - 20 BY <1>2, <2>1
  <2>3. \A i \in 0 .. k - 1 : s + 20 * i \in Int BY <2>2
  <2>4. \A i \in 0 .. k - 1 : mkRound(s + 20 * i) = (s + 20 * i) .. (s + 20 * i + 19)
                              /\ ccRound(s + 20 * i) = (s + 20 * i) .. (s + 20 * i + 19)
    BY <2>3, Rounds20
  <2>5. UNION {mkRound(s + 20 * i) : i \in 0 .. k - 1} = s .. (s + 20 * k - 1)
    <3>1. {mkRound(s + 20 * i) : i \in 0 .. k - 1} = {(s + 20 * i) .. (s + 20 * i + 19) : i \in 0 .. k - 1} BY <2>4
    <3>q. QED BY <2>2, <3>1, Chunks20
  <2>6. UNION {ccRound(s + 20 * i) : i \in 0 .. k - 1} = s .. (s + 20 * k - 1)
    <3>1. {ccRound(s + 20 * i) : i \in 0 .. k - 1} = {(s + 20 * i) .. (s + 20 * i + 19) : i \in 0 .. k - 1} BY <2>4
    <3>q. QED BY <2>2, <3>1, Chunks20
  <2>7. UNION {Fetch32(s + len - 4 * i) : i \in 1 .. 5} = (s + len - 20) .. (s + len - 1) BY Last20
  <2>8. (s .. (s + 20 * k - 1)) \cup ((s + len - 20) .. (s + len - 1)) = s .. (s + len - 1) BY <1>2, <2>2, Nested
  <2>9. mkHash32(s, len) = (UNION {Fetch32(s + len - 4 * i) : i \in 1 .. 5}) \cup (UNION {mkRound(s + 20 * i) : i \in 0 .. k - 1})
    BY <1>2, <2>1 DEF mkHash32, mkLast20
  <2>10. ccHash32(s, len) = (UNION {Fetch32(s + len - 4 * i) : i \in 1 .. 5}) \cup (UNION {ccRound(s + 20 * i) : i \in 0 .. k - 1})
    BY <1>2, <2>1 DEF ccHash32
  <2>11. mkHash32(s, len) = ((s + len - 20) .. (s + len - 1)) \cup (s .. (s + 20 * k - 1)) BY <2>5, <2>7, <2>9
  <2>12. ccHash32(s, len) = ((s + len - 20) .. (s + len - 1)) \cup (s .. (s + 20 * k - 1)) BY <2>6, <2>7, <2>10
  <2>q. QED BY <2>8, <2>11, <2>12 DEF Exactly
<1>q. QED BY <1>1, <1>2

(* The first 24 bytes are hashed for the seed, the rest after them. *)
LEMMA Seeded ==
  ASSUME NEW s \in Int, NEW len \in Nat, len > 24, NEW R, Exactly(R, s + 24, len - 24)
  PROVE  Exactly(mkHash32Len13to24(s, 24) \cup R, s, len)
<1>1. Exactly(mkHash32Len13to24(s, 24), s, 24) BY mk13to24
<1>2. mkHash32Len13to24(s, 24) = s .. (s + 23) BY <1>1 DEF Exactly
<1>3. R = (s + 24) .. (s + len - 1) BY DEF Exactly
<1>4. (s .. (s + 23)) \cup ((s + 24) .. (s + len - 1)) = s .. (s + len - 1) BY Nested
<1>q. QED BY <1>2, <1>3, <1>4 DEF Exactly

LEMMA mkSeed ==
  ASSUME NEW s \in Int, NEW len \in Nat
  PROVE  Exactly(mkHash32WithSeed(s, len), s, len) /\ Exactly(ccHash32WithSeed(s, len), s, len)
<1>1. CASE len <= 24
  <2>1. Exactly(mkShort(s, len), s, len) BY <1>1, mkShortExact
  <2>q. QED BY <1>1, <2>1 DEF mkHash32WithSeed, ccHash32WithSeed
<1>2. CASE len > 24
  <2>1. s + 24 \in Int /\ len - 24 \in Nat BY <1>2
  <2>2. Exactly(mkHash32(s + 24, len - 24), s + 24, len - 24) /\ Exactly(ccHash32(s + 24, len - 24), s + 24, len - 24)
    BY <2>1, mkHash
  <2>3. Exactly(mkHash32Len13to24(s, 24) \cup mkHash32(s + 24, len - 24), s, len) BY <1>2, <2>2, Seeded
  <2>4. Exactly(mkHash32Len13to24(s, 24) \cup ccHash32(s + 24, len - 24), s, len) BY <1>2, <2>2, Seeded
  <2>q. QED BY <1>2, <2>3, <2>4 DEF mkHash32WithSeed, ccHash32WithSeed
<1>q. QED BY <1>1, <1>2

(* farmhashsu and farmhashsa differ in the instructions they need only.     *)
LEMMA Aes25to39 ==
  ASSUME NEW s \in Int, NEW len \in 25 .. 39
  PROVE  Exactly(suLen25to39(s, len), s, len) /\ Exactly(saLen25to39(s, len), s, len)
<1>1. PICK h : h = (len + 1) \div 2 OBVIOUS
<1>2. h \in 13 .. 20 /\ 2 * h >= len BY <1>1
<1>3. mkHash32Len13to24(s, h) = s .. (s + h - 1)
  <2>1. h \in 13 .. 24 BY <1>2
  <2>2. Exactly(mkHash32Len13to24(s, h), s, h) BY <2>1, mk13to24
  <2>q. QED BY <2>2 DEF Exactly
<1>4. UNION {Fetch32(s + len - 4 * i) : i \in 1 .. 5} = (s + len - 20) .. (s + len - 1) BY Last20
<1>5. (s .. (s + h - 1)) \cup ((s + len - 20) .. (s + len - 1)) = s .. (s + len - 1) BY <1>2, Nested
<1>6. suLen25to39(s, len) = (UNION {Fetch32(s + len - 4 * i) : i \in 1 .. 5}) \cup mkHash32Len13to24(s, h)
  BY <1>1 DEF suLen25to39
<1>7. saLen25to39(s, len) = (UNION {Fetch32(s + len - 4 * i) : i \in 1 .. 5}) \cup mkHash32Len13to24(s, h)
  BY <1>1 DEF saLen25to39
<1>8. ((s + len - 20) .. (s + len - 1)) \cup (s .. (s + h - 1)) = s .. (s + len - 1) BY <1>5
<1>9. suLen25to39(s, len) = s .. (s + len - 1) BY ONLY <1>3, <1>4, <1>6, <1>8, Zenon
<1>10. saLen25to39(s, len) = s .. (s + len - 1) BY ONLY <1>3, <1>4, <1>7, <1>8, Zenon
<1>q. QED BY <1>9, <1>10 DEF Exactly

LEMMA Aes40to79 ==
  ASSUME NEW s \in Int, NEW len \in 40 .. 79
  PROVE  Exactly(suLen40to79(s, len), s, len) /\ Exactly(saLen40to79(s, len), s, len)
<1>1. PICK h : h = (len - 15) \div 2 OBVIOUS
<1>2. h \in 12 .. 32 /\ len - 16 <= 2 * h /\ 2 * h <= len - 15 BY <1>1
<1>3. PICK P : P = {s, s + 16, s + h, s + len - 32, s + len - 16} OBVIOUS
<1>4. ASSUME NEW x PROVE x \in UNION {Fetch128(p) : p \in P} <=> x \in Int /\ s <= x /\ x <= s + len - 1
  <2>1. x \in UNION {Fetch128(p) : p \in P} <=> \E p \in P : x \in Fetch128(p) OBVIOUS
  <2>2. x \in UNION {Fetch128(p) : p \in P}
        <=> x \in Fetch128(s) \/ x \in Fetch128(s + 16) \/ x \in Fetch128(s + h) \/ x \in Fetch128(s + len - 32)
            \/ x \in Fetch128(s + len - 16)
    BY <1>3, <2>1
  <2>q. QED BY <1>2, <2>2 DEF Fetch128
<1>5. Exactly(UNION {Fetch128(p) : p \in P}, s, len) BY <1>4, Interval
<1>6. suLen40to79(s, len) = UNION {Fetch128(p) : p \in P} /\ saLen40to79(s, len) = UNION {Fetch128(p) : p \in P}
  BY <1>1, <1>3 DEF suLen40to79, saLen40to79
<1>q. QED BY <1>5, <1>6

LEMMA AesChunks == ASSUME NEW s \in Int PROVE suChunk(s) = s .. s + 79 /\ saChunk(s) = s .. s + 79
<1>1. ASSUME NEW x \in UNION {Fetch128(s + 16 * i) : i \in 0 .. 4} PROVE x \in s .. s + 79
  <2>1. PICK i \in 0 .. 4 : x \in Fetch128(s + 16 * i) OBVIOUS
  <2>q. QED BY <2>1 DEF Fetch128
<1>2. ASSUME NEW x \in s .. s + 79 PROVE x \in UNION {Fetch128(s + 16 * i) : i \in 0 .. 4}
  <2>1. (x - s) \div 16 \in 0 .. 4 /\ x \in Fetch128(s + 16 * ((x - s) \div 16)) BY DEF Fetch128
  <2>q. QED BY <2>1
<1>3. UNION {Fetch128(s + 16 * i) : i \in 0 .. 4} = s .. s + 79 BY <1>1, <1>2
<1>q. QED BY <1>3 DEF suChunk, saChunk

(* The rounds of 80 bytes, and the last 80 once more. *)
LEMMA Rounds80 ==
  ASSUME NEW s \in Int, NEW len \in Nat, len >= 80
  PROVE  /\ (UNION {suChunk(s + 80 * i) : i \in 0 .. (len - 1) \div 80 - 1}) \cup suChunk(s + len - 80) = s .. (s + len - 1)
         /\ (UNION {saChunk(s + 80 * i) : i \in 0 .. (len - 1) \div 80 - 1}) \cup saChunk(s + len - 80) = s .. (s + len - 1)
<1>1. PICK k : k = (len - 1) \div 80 OBVIOUS
<1>2. k \in Nat /\ 80 * k <= len - 1 /\ 80 * k >= len - 80 BY <1>1
<1>3. \A i \in 0 .. k - 1 : s + 80 * i \in Int BY <1>2
<1>4. \A i \in 0 .. k - 1 : suChunk(s + 80 * i) = (s + 80 * i) .. (s + 80 * i + 79)
                            /\ saChunk(s + 80 * i) = (s + 80 * i) .. (s + 80 * i + 79)
  BY <1>3, AesChunks
<1>5. UNION {suChunk(s + 80 * i) : i \in 0 .. k - 1} = s .. (s + 80 * k - 1)
  <2>1. {suChunk(s + 80 * i) : i \in 0 .. k - 1} = {(s + 80 * i) .. (s + 80 * i + 79) : i \in 0 .. k - 1} BY <1>4
  <2>q. QED BY <1>2, <2>1, Chunks80
<1>6. UNION {saChunk(s + 80 * i) : i \in 0 .. k - 1} = s .. (s + 80 * k - 1)
  <2>1. {saChunk(s + 80 * i) : i \in 0 .. k - 1} = {(s + 80 * i) .. (s + 80 * i + 79) : i \in 0 .. k - 1} BY <1>4
  <2>q. QED BY <1>2, <2>1, Chunks80
<1>7. suChunk(s + len - 80) = (s + len - 80) .. (s + len - 1) /\ saChunk(s + len - 80) = (s + len - 80) .. (s + len - 1)
  <2>1. s + len - 80 \in Int /\ s + len - 80 + 79 = s + len - 1 OBVIOUS
  <2>q. QED BY <2>1, AesChunks
<1>8. (s .. (s + 80 * k - 1)) \cup ((s + len - 80) .. (s + len - 1)) = s .. (s + len - 1) BY <1>2, Nested
<1>q. QED BY ONLY <1>1, <1>5, <1>6, <1>7, <1>8, Zenon

LEMMA suHash ==
  ASSUME NEW s \in Int, NEW len \in Nat, build.sse42, build.aesni
  PROVE  Exactly(suHash32(s, len), s, len)
<1>1. CASE len <= 24
  <2>1. suHash32(s, len) = mkShort(s, len) BY <1>1 DEF suHash32
  <2>q. QED BY <1>1, <2>1, mkShortExact
<1>2. CASE len \in 25 .. 39
  <2>1. suHash32(s, len) = suLen25to39(s, len) BY <1>2 DEF suHash32
  <2>q. QED BY <1>2, <2>1, Aes25to39
<1>3. CASE len \in 40 .. 79
  <2>1. suHash32(s, len) = suLen40to79(s, len) BY <1>3 DEF suHash32
  <2>q. QED BY <1>3, <2>1, Aes40to79
<1>4. CASE len >= 80
  <2>1. suHash32(s, len) = (UNION {suChunk(s + 80 * i) : i \in 0 .. (len - 1) \div 80 - 1}) \cup suChunk(s + len - 80)
    BY <1>4 DEF suHash32
  <2>2. suHash32(s, len) = s .. (s + len - 1) BY <1>4, <2>1, Rounds80
  <2>q. QED BY <2>2 DEF Exactly
<1>q. QED BY <1>1, <1>2, <1>3, <1>4

LEMMA saHash ==
  ASSUME NEW s \in Int, NEW len \in Nat, build.sse42
  PROVE  Exactly(saHash32(s, len), s, len)
<1>1. CASE len <= 24
  <2>1. saHash32(s, len) = mkShort(s, len) BY <1>1 DEF saHash32
  <2>q. QED BY <1>1, <2>1, mkShortExact
<1>2. CASE len \in 25 .. 39
  <2>1. saHash32(s, len) = saLen25to39(s, len) BY <1>2 DEF saHash32
  <2>q. QED BY <1>2, <2>1, Aes25to39
<1>3. CASE len \in 40 .. 79
  <2>1. saHash32(s, len) = saLen40to79(s, len) BY <1>3 DEF saHash32
  <2>q. QED BY <1>3, <2>1, Aes40to79
<1>4. CASE len >= 80
  <2>1. saHash32(s, len) = (UNION {saChunk(s + 80 * i) : i \in 0 .. (len - 1) \div 80 - 1}) \cup saChunk(s + len - 80)
    BY <1>4 DEF saHash32
  <2>2. saHash32(s, len) = s .. (s + len - 1) BY <1>4, <2>1, Rounds80
  <2>q. QED BY <2>2 DEF Exactly
<1>q. QED BY <1>1, <1>2, <1>3, <1>4

LEMMA AesSeed ==
  ASSUME NEW s \in Int, NEW len \in Nat, build.sse42
  PROVE  /\ build.aesni => Exactly(suHash32WithSeed(s, len), s, len)
         /\ Exactly(saHash32WithSeed(s, len), s, len)
<1>1. CASE len <= 24
  <2>1. Exactly(mkShort(s, len), s, len) BY <1>1, mkShortExact
  <2>2. build.aesni => suHash32WithSeed(s, len) = mkShort(s, len) BY <1>1 DEF suHash32WithSeed
  <2>3. saHash32WithSeed(s, len) = mkShort(s, len) BY <1>1 DEF saHash32WithSeed
  <2>q. QED BY <2>1, <2>2, <2>3
<1>2. CASE len > 24
  <2>1. s + 24 \in Int /\ len - 24 \in Nat BY <1>2
  <2>2. ASSUME build.aesni PROVE Exactly(suHash32WithSeed(s, len), s, len)
    <3>1. Exactly(suHash32(s + 24, len - 24), s + 24, len - 24) BY <2>1, <2>2, suHash
    <3>2. Exactly(mkHash32Len13to24(s, 24) \cup suHash32(s + 24, len - 24), s, len) BY <1>2, <3>1, Seeded
    <3>q. QED BY <1>2, <2>2, <3>2 DEF suHash32WithSeed
  <2>3. Exactly(saHash32(s + 24, len - 24), s + 24, len - 24) BY <2>1, saHash
  <2>4. Exactly(mkHash32Len13to24(s, 24) \cup saHash32(s + 24, len - 24), s, len) BY <1>2, <2>3, Seeded
  <2>5. saHash32WithSeed(s, len) = mkHash32Len13to24(s, 24) \cup saHash32(s + 24, len - 24)
    BY <1>2 DEF saHash32WithSeed
  <2>q. QED BY <2>2, <2>4, <2>5
<1>q. QED BY <1>1, <1>2

(* The 128 bit functions of farmhashcc. *)
LEMMA Murmur ==
  ASSUME NEW s \in Int, NEW len \in Nat
  PROVE  Exactly(CityMurmur(s, len), s, len)
<1>1. CASE len <= 16
  <2>1. ccHashLen0to16(s, len) = naHashLen0to16(s, len) BY DEF ccHashLen0to16, naHashLen0to16
  <2>2. naHashLen0to16(s, len) = s .. (s + len - 1)
    <3>1. Exactly(naHashLen0to16(s, len), s, len) BY <1>1, na0to16
    <3>q. QED BY <3>1 DEF Exactly
  <2>3. CityMurmur(s, len) = naHashLen0to16(s, len) \cup (IF len >= 8 THEN Fetch64(s) ELSE {})
    BY <1>1, <2>1 DEF CityMurmur
  <2>4. (IF len >= 8 THEN Fetch64(s) ELSE {}) \subseteq s .. (s + len - 1) BY DEF Fetch64
  <2>q. QED BY <2>2, <2>3, <2>4 DEF Exactly
<1>2. CASE len > 16
  <2>1. PICK k : k = (len - 17) \div 16 + 1 OBVIOUS
  <2>2. k \in Nat /\ 16 * k <= len - 1 /\ 16 * k >= len - 16 /\ (len - 17) \div 16 = k - 1 BY <1>2, <2>1
  <2>3. \A i \in 0 .. k - 1 : Fetch64(s + 16 * i) \cup Fetch64(s + 16 * i + 8) = (s + 16 * i) .. (s + 16 * i + 15)
    <3>1. TAKE i \in 0 .. k - 1
    <3>2. PICK a \in Int : a = s + 16 * i BY <2>2
    <3>3. Fetch64(a) \cup Fetch64(a + 8) = a .. (a + 15)
      <4>1. ASSUME NEW x \in a .. (a + 15) PROVE x \in Fetch64(a) \cup Fetch64(a + 8) BY DEF Fetch64
      <4>2. ASSUME NEW x \in Fetch64(a) \cup Fetch64(a + 8) PROVE x \in a .. (a + 15) BY DEF Fetch64
      <4>q. QED BY <4>1, <4>2
    <3>q. QED BY <3>2, <3>3
  <2>4. UNION {Fetch64(s + 16 * i) \cup Fetch64(s + 16 * i + 8) : i \in 0 .. k - 1} = s .. (s + 16 * k - 1)
    <3>1. {Fetch64(s + 16 * i) \cup Fetch64(s + 16 * i + 8) : i \in 0 .. k - 1}
          = {(s + 16 * i) .. (s + 16 * i + 15) : i \in 0 .. k - 1}
      BY <2>3
    <3>q. QED BY <2>2, <3>1, Chunks16
  <2>5. Fetch64(s + len - 8) \cup Fetch64(s + len - 16) = (s + len - 16) .. (s + len - 1)
    <3>1. ASSUME NEW x \in (s + len - 16) .. (s + len - 1) PROVE x \in Fetch64(s + len - 8) \cup Fetch64(s + len - 16)
      BY DEF Fetch64
    <3>2. ASSUME NEW x \in Fetch64(s + len - 8) \cup Fetch64(s + len - 16) PROVE x \in (s + len - 16) .. (s + len - 1)
      BY DEF Fetch64
    <3>q. QED BY <3>1, <3>2
  <2>6. (s .. (s + 16 * k - 1)) \cup ((s + len - 16) .. (s + len - 1)) = s .. (s + len - 1) BY <1>2, <2>2, Nested
  <2>7. CityMurmur(s, len) = Fetch64(s + len - 8) \cup Fetch64(s + len - 16)
                             \cup (UNION {Fetch64(s + 16 * i) \cup Fetch64(s + 16 * i + 8) : i \in 0 .. k - 1})
    BY <1>2, <2>2 DEF CityMurmur
  <2>8. CityMurmur(s, len) = ((s + len - 16) .. (s + len - 1)) \cup (s .. (s + 16 * k - 1))
    BY ONLY <2>4, <2>5, <2>7, Zenon
  <2>q. QED BY <2>6, <2>8 DEF Exactly
<1>q. QED BY <1>1, <1>2

(* Chunks of 32 bytes from the end, the last of which may begin before s. *)
LEMMA CityTailIs ==
  ASSUME NEW s \in Int, NEW len \in Nat
  PROVE  \E m \in Nat : /\ 32 * m >= len /\ 32 * m <= len + 31
                        /\ ccTail(s, len) = (s + len - 32 * m) .. (s + len - 1)
<1>1. PICK m : m = (len + 31) \div 32 OBVIOUS
<1>2. m \in Nat /\ 32 * m >= len /\ 32 * m <= len + 31 BY <1>1
<1> DEFINE chunk(p) == Fetch64(p + 16) \cup Fetch64(p) \cup ccWeakHashLen32WithSeeds(p)
<1>3. \A p \in Int : chunk(p) = p .. p + 31
  <2>1. TAKE p \in Int
  <2>2. ccWeakHashLen32WithSeeds(p) = p .. p + 31 BY Weak
  <2>3. Fetch64(p + 16) \subseteq p .. p + 31 /\ Fetch64(p) \subseteq p .. p + 31 BY DEF Fetch64
  <2>q. QED BY <2>2, <2>3
<1>4. ccTail(s, len) = UNION {chunk(s + len - 32 * i) : i \in 1 .. m} BY <1>1 DEF ccTail
<1> HIDE DEF chunk
<1>5. \A i \in 1 .. m : chunk(s + len - 32 * i) = (s + len - 32 * i) .. (s + len - 32 * i + 31)
  <2>1. \A i \in 1 .. m : s + len - 32 * i \in Int BY <1>2
  <2>q. QED BY <1>3, <2>1
<1>6. ASSUME NEW x \in UNION {chunk(s + len - 32 * i) : i \in 1 .. m} PROVE x \in (s + len - 32 * m) .. (s + len - 1)
  <2>1. PICK i \in 1 .. m : x \in chunk(s + len - 32 * i) OBVIOUS
  <2>2. x \in (s + len - 32 * i) .. (s + len - 32 * i + 31) BY <1>5, <2>1
  <2>q. QED BY <1>2, <2>2
<1>7. ASSUME NEW x \in (s + len - 32 * m) .. (s + len - 1) PROVE x \in UNION {chunk(s + len - 32 * i) : i \in 1 .. m}
  <2>1. PICK e \in 1 .. 32 * m : x = s + len - e
    <3>1. s + len - x \in 1 .. 32 * m /\ x = s + len - (s + len - x) BY <1>2
    <3>q. QED BY <3>1
  <2>2. PICK i \in 1 .. m : 32 * i - 31 <= e /\ e <= 32 * i
    <3>1. (e + 31) \div 32 \in 1 .. m /\ 32 * ((e + 31) \div 32) - 31 <= e /\ e <= 32 * ((e + 31) \div 32) BY <1>2
    <3>q. QED BY <3>1
  <2>3. x \in (s + len - 32 * i) .. (s + len - 32 * i + 31) BY <2>1, <2>2
  <2>4. x \in chunk(s + len - 32 * i) BY <1>5, <2>3
  <2>q. QED BY <2>4
<1>8. UNION {chunk(s + len - 32 * i) : i \in 1 .. m} = (s + len - 32 * m) .. (s + len - 1) BY <1>6, <1>7
<1>9. ccTail(s, len) = (s + len - 32 * m) .. (s + len - 1) BY ONLY <1>4, <1>8, Zenon
<1>q. QED BY <1>2, <1>9

LEMMA City ==
  ASSUME NEW s \in Int, NEW len \in Nat
  PROVE  Exactly(CityHash128WithSeed(s, len), s, len)
<1>1. CASE len < 128
  <2>1. CityHash128WithSeed(s, len) = CityMurmur(s, len) BY <1>1 DEF CityHash128WithSeed
  <2>q. QED BY <2>1, Murmur
<1>2. CASE len >= 128
  <2>1. PICK r : r = len \div 128 OBVIOUS
  <2>2. r \in Nat \ {0} /\ 128 * r <= len /\ len <= 128 * r + 127 BY <1>2, <2>1
  <2>3. PICK k \in Nat : k = 2 * r BY <2>2
  <2>4. UNION {ccBlock(s + 64 * i) : i \in 0 .. k - 1} = s .. (s + 64 * k - 1)
    <3>1. \A i \in 0 .. k - 1 : s + 64 * i \in Int BY <2>3
    <3>2. \A i \in 0 .. k - 1 : ccBlock(s + 64 * i) = (s + 64 * i) .. (s + 64 * i + 63) BY <3>1, Blocks
    <3>3. {ccBlock(s + 64 * i) : i \in 0 .. k - 1} = {(s + 64 * i) .. (s + 64 * i + 63) : i \in 0 .. k - 1} BY <3>2
    <3>q. QED BY <2>3, <3>3, Chunks64
  <2>5. PICK a \in Int, n \in Nat : a = s + 128 * r /\ n = len - 128 * r
    <3>1. s + 128 * r \in Int /\ len - 128 * r \in Nat BY <2>2
    <3>q. QED BY <3>1
  <2>6. PICK m \in Nat : 32 * m >= n /\ 32 * m <= n + 31 /\ ccTail(a, n) = (a + n - 32 * m) .. (a + n - 1)
    BY CityTailIs
  <2>7. CityHash128WithSeed(s, len) = Fetch64(s) \cup Fetch64(s + 8) \cup Fetch64(s + 88)
          \cup (UNION {ccBlock(s + 64 * i) : i \in 0 .. k - 1}) \cup ccTail(a, n)
    BY <1>2, <2>1, <2>3, <2>5 DEF CityHash128WithSeed
  <2>8. Fetch64(s) \cup Fetch64(s + 8) \cup Fetch64(s + 88) \subseteq s .. (s + 64 * k - 1)
    BY <2>2, <2>3 DEF Fetch64
  <2>9. (s .. (s + 64 * k - 1)) \cup ((a + n - 32 * m) .. (a + n - 1)) = s .. (s + len - 1)
    <3>1. a + n = s + len /\ s + 64 * k - 1 = a - 1 /\ n <= 127 BY <2>2, <2>3, <2>5
    <3>2. s <= a + n - 32 * m /\ a + n - 32 * m <= a BY <2>2, <2>5, <2>6
    <3>3. s + 64 * k - 1 <= a + n - 1 BY <3>1
    <3>4. s + 64 * k - 1 \in Int /\ a + n - 32 * m \in Int /\ a + n - 1 \in Int
          /\ a + n - 32 * m <= (s + 64 * k - 1) + 1
      BY <2>3, <3>1, <3>2
    <3>5. (s .. (s + 64 * k - 1)) \cup ((a + n - 32 * m) .. (a + n - 1)) = s .. (a + n - 1)
      BY <3>2, <3>3, <3>4, Nested
    <3>q. QED BY <3>1, <3>5
  <2>10. CityHash128WithSeed(s, len) = (s .. (s + 64 * k - 1)) \cup ((a + n - 32 * m) .. (a + n - 1))
    BY <2>4, <2>6, <2>7, <2>8
  <2>q. QED BY <2>9, <2>10 DEF Exactly
<1>q. QED BY <1>1, <1>2

LEMMA City128 ==
  ASSUME NEW s \in Int, NEW len \in Nat
  PROVE  Exactly(CityHash128(s, len), s, len)
<1>1. CASE len < 16
  <2>1. CityHash128(s, len) = CityHash128WithSeed(s, len) BY <1>1 DEF CityHash128
  <2>q. QED BY <2>1, City
<1>2. CASE len >= 16
  <2>1. s + 16 \in Int /\ len - 16 \in Nat BY <1>2
  <2>2. Exactly(CityHash128WithSeed(s + 16, len - 16), s + 16, len - 16) BY <2>1, City
  <2>3. CityHash128WithSeed(s + 16, len - 16) = (s + 16) .. (s + len - 1) BY <2>2 DEF Exactly
  <2>4. Fetch64(s) \cup Fetch64(s + 8) = s .. (s + 15)
    <3>1. ASSUME NEW x \in s .. (s + 15) PROVE x \in Fetch64(s) \cup Fetch64(s + 8) BY DEF Fetch64
    <3>2. ASSUME NEW x \in Fetch64(s) \cup Fetch64(s + 8) PROVE x \in s .. (s + 15) BY DEF Fetch64
    <3>q. QED BY <3>1, <3>2
  <2>5. (s .. (s + 15)) \cup ((s + 16) .. (s + len - 1)) = s .. (s + len - 1) BY <1>2, Nested
  <2>6. CityHash128(s, len) = CityHash128WithSeed(s + 16, len - 16) \cup Fetch64(s) \cup Fetch64(s + 8)
    BY <1>2 DEF CityHash128
  <2>7. CityHash128(s, len) = ((s + 16) .. (s + len - 1)) \cup (s .. (s + 15)) BY <2>3, <2>4, <2>6
  <2>q. QED BY <2>5, <2>7 DEF Exactly
<1>q. QED BY <1>1, <1>2

(* The public functions: no build calls a stub. *)
LEMMA Hash32Is ==
  ASSUME build \in Builds, NEW len \in Nat
  PROVE  Exactly(Hash32(len), 0, len) /\ Exactly(Hash32WithSeed(len), 0, len)
<1>1. CASE build.sse41 /\ build.x86_64
  <2>1. Hash32(len) = teHash64(0, len) BY <1>1 DEF Hash32, ntHash32
  <2>2. Hash32WithSeed(len) = teHash64WithSeed(0, len) BY <1>1 DEF Hash32WithSeed, ntHash32WithSeed
  <2>3. Exactly(teHash64(0, len), 0, len) /\ Exactly(teHash64WithSeed(0, len), 0, len) BY <1>1, teHash
  <2>q. QED BY <2>1, <2>2, <2>3
<1>2. CASE ~(build.sse41 /\ build.x86_64) /\ build.sse42 /\ build.aesni
  <2>1. Hash32(len) = suHash32(0, len) /\ Hash32WithSeed(len) = suHash32WithSeed(0, len)
    BY <1>2 DEF Hash32, Hash32WithSeed
  <2>2. Exactly(suHash32(0, len), 0, len) BY <1>2, suHash
  <2>3. Exactly(suHash32WithSeed(0, len), 0, len) BY <1>2, AesSeed
  <2>q. QED BY <2>1, <2>2, <2>3
<1>3. CASE ~(build.sse41 /\ build.x86_64) /\ build.sse42 /\ ~build.aesni
  <2>1. Hash32(len) = saHash32(0, len) /\ Hash32WithSeed(len) = saHash32WithSeed(0, len)
    BY <1>3 DEF Hash32, Hash32WithSeed
  <2>2. Exactly(saHash32(0, len), 0, len) BY <1>3, saHash
  <2>3. Exactly(saHash32WithSeed(0, len), 0, len) BY <1>3, AesSeed
  <2>q. QED BY <2>1, <2>2, <2>3
<1>4. CASE ~(build.sse41 /\ build.x86_64) /\ ~build.sse42
  <2>1. Hash32(len) = mkHash32(0, len) /\ Hash32WithSeed(len) = mkHash32WithSeed(0, len)
    BY <1>4 DEF Hash32, Hash32WithSeed
  <2>2. Exactly(mkHash32(0, len), 0, len) BY mkHash
  <2>3. Exactly(mkHash32WithSeed(0, len), 0, len) BY mkSeed
  <2>q. QED BY <2>1, <2>2, <2>3
<1>q. QED BY <1>1, <1>2, <1>3, <1>4

LEMMA HashIs ==
  ASSUME build \in Builds, NEW len \in Nat
  PROVE  Exactly(Hash64(len), 0, len) /\ Exactly(Hash(len), 0, len)
<1>1. build.sse42 => build.sse41 BY DEF Builds
<1>2. Exactly(Hash64(len), 0, len)
  <2>1. CASE build.sse42 /\ build.x86_64
    <3>1. Hash64(len) = teHash64(0, len) BY <2>1 DEF Hash64
    <3>2. Exactly(teHash64(0, len), 0, len) BY <1>1, <2>1, teHash
    <3>q. QED BY <3>1, <3>2
  <2>2. CASE ~(build.sse42 /\ build.x86_64)
    <3>1. Hash64(len) = xoHash64(0, len) BY <2>2 DEF Hash64
    <3>2. Exactly(xoHash64(0, len), 0, len) BY xoHash
    <3>q. QED BY <3>1, <3>2
  <2>q. QED BY <2>1, <2>2
<1>3. Exactly(Hash32(len), 0, len) BY Hash32Is
<1>q. QED BY <1>2, <1>3 DEF Hash

LEMMA EntriesExact ==
  ASSUME build \in Builds, NEW len \in Nat, NEW e \in Entries
  PROVE  Exactly(Reads(e, len), 0, len)
<1>1. Exactly(Hash32(len), 0, len) /\ Exactly(Hash32WithSeed(len), 0, len) BY Hash32Is
<1>2. Exactly(Hash(len), 0, len) /\ Exactly(Hash64(len), 0, len) BY HashIs
<1>3. Exactly(Hash64WithSeed(len), 0, len) /\ Exactly(Hash64WithSeeds(len), 0, len) /\ Exactly(Fingerprint64(len), 0, len)
  BY naHash DEF Hash64WithSeed, Hash64WithSeeds, Fingerprint64, naHash64WithSeed, naHash64WithSeeds
<1>4. Exactly(Hash128(len), 0, len) /\ Exactly(Fingerprint128(len), 0, len)
  BY City128 DEF Hash128, Fingerprint128, ccFingerprint128
<1>5. Exactly(Hash128WithSeed(len), 0, len) BY City DEF Hash128WithSeed
<1>6. Exactly(Fingerprint32(len), 0, len) /\ Exactly(ccHash32(0, len), 0, len) BY mkHash DEF Fingerprint32
<1>7. Exactly(ccHash32WithSeed(0, len), 0, len) BY mkSeed
<1>8. CASE e \in {"Hash32", "Hash32WithSeed", "Hash", "Hash64"} BY <1>1, <1>2, <1>8 DEF Reads
<1>9. CASE e \in {"Hash64WithSeed", "Hash64WithSeeds", "Hash128", "Hash128WithSeed"} BY <1>3, <1>4, <1>5, <1>9 DEF Reads
<1>10. CASE e \in {"Fingerprint32", "Fingerprint64", "Fingerprint128"} BY <1>3, <1>4, <1>6, <1>10 DEF Reads
<1>11. CASE e \in {"ccHash32", "ccHash32WithSeed"} BY <1>6, <1>7, <1>11 DEF Reads
<1>q. QED BY <1>8, <1>9, <1>10, <1>11 DEF Entries

(* Whatever the build and the length, each public function reads every byte *)
(* of its input and none outside (ReadsExactlyTheInput): the dispatch calls *)
(* no stub, and the overlapping last blocks leave nothing out.              *)
THEOREM FarmReadsAll == FarmSpec => []ReadsExactlyTheInput
<1> DEFINE FarmInv == build \in Builds /\ entry \in Entries /\ length \in Nat
<1>1. FarmInit => FarmInv BY DEF FarmInit
<1>2. FarmInv /\ [FarmNext]_farmVars => FarmInv'
  <2>1. SUFFICES ASSUME FarmInv, [FarmNext]_farmVars PROVE FarmInv' OBVIOUS
  <2>q. QED BY <2>1 DEF FarmNext, HashLonger, farmVars
<1>3. FarmInv => ReadsExactlyTheInput
  <2>1. SUFFICES ASSUME FarmInv PROVE ReadsExactlyTheInput OBVIOUS
  <2>2. Exactly(Reads(entry, length), 0, length) BY <2>1, EntriesExact
  <2>3. 0 + length - 1 = length - 1 BY <2>1
  <2>q. QED BY <2>2, <2>3 DEF Exactly, ReadsExactlyTheInput
<1>q. QED BY <1>1, <1>2, <1>3, PTL DEF FarmSpec
=============================================================================
