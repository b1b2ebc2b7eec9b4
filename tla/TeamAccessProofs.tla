-------------------------- MODULE TeamAccessProofs --------------------------
(* Proofs about TeamAccess for every set of users, teams and clients: type   *)
(* correctness, the bound on chains of teams under concurrent calls, and     *)
(* that a change which is refreshed at once keeps the cache in agreement     *)
(* with the memberships.                                                     *)
EXTENDS TeamAccess, FiniteSetTheorems, WellFoundedInduction, TLAPS

----------------------------------------------------------------------------
(* Induction up to a bound, over a set instead of a predicate.               *)

LEMMA UpTo ==
    ASSUME NEW N \in Nat, NEW S, 0 \in S, \A n \in 0 .. N - 1 : n \in S => n + 1 \in S
    PROVE  \A n \in 0 .. N : n \in S
<1> SUFFICES ASSUME NEW x \in 0 .. N, x \notin S
             PROVE  FALSE
  OBVIOUS
<1> DEFINE T == {n \in Nat : n <= N /\ n \notin S}
<1>1. T # {} /\ T \subseteq Nat
  OBVIOUS
<1>2. PICK n \in T : \A m \in T : <<m, n>> \notin OpToRel(<, Nat)
  BY <1>1, NatLessThanWellFounded, WFMin
<1>3. n \in T /\ \A m \in T : ~(m < n)
  BY <1>2 DEF OpToRel
<1>4. n \in 0 .. N /\ n \notin S /\ n # 0
  BY <1>3
<1>5. n - 1 \in 0 .. N - 1 /\ n - 1 < n /\ n - 1 \in 0 .. N
  BY <1>4
<1>6. n - 1 \in S
  BY <1>3, <1>5
<1>7. (n - 1) + 1 = n
  BY <1>4
<1> QED BY <1>4, <1>5, <1>6, <1>7

\* A function can be iterated.
Iteration(T, F, a, N, f) ==
    /\ f \in [0 .. N -> T]
    /\ f[0] = a /\ \A k \in 1 .. N : f[k] = F[f[k - 1]]
LEMMA Iterates ==
    ASSUME NEW T, NEW a \in T, NEW F \in [T -> T], NEW N \in Nat
    PROVE  \E f : Iteration(T, F, a, N, f)
<1> DEFINE Iter(n, f) == f[0] = a /\ \A k \in 1 .. n : f[k] = F[f[k - 1]]
           S == {n \in Nat : \E f \in [0 .. n -> T] : Iter(n, f)}
<1>1. 0 \in S
  <2>1. [i \in 0 .. 0 |-> a] \in [0 .. 0 -> T] /\ Iter(0, [i \in 0 .. 0 |-> a])
    OBVIOUS
  <2> QED BY <2>1
<1>2. ASSUME NEW n \in 0 .. N - 1, n \in S PROVE n + 1 \in S
  <2>1. PICK f \in [0 .. n -> T] : Iter(n, f)
    BY <1>2
  <2>2. PICK g : g = [k \in 0 .. n + 1 |-> IF k = n + 1 THEN F[f[n]] ELSE f[k]]
    OBVIOUS
  <2>3. \A k \in 0 .. n : g[k] = f[k]
    BY <2>2
  <2>4. g[n + 1] = F[f[n]] /\ (n + 1) - 1 = n /\ f[n] \in T
    BY <2>1, <2>2
  <2>5. g \in [0 .. n + 1 -> T]
    BY <2>1, <2>2, <2>4
  <2>6. ASSUME NEW k \in 1 .. n + 1 PROVE g[k] = F[g[k - 1]]
    <3>1. CASE k = n + 1
      BY <2>3, <2>4, <3>1
    <3>2. CASE k # n + 1
      <4>1. k \in 1 .. n /\ k \in 0 .. n /\ k - 1 \in 0 .. n
        BY <3>2
      <4> QED BY <4>1, <2>1, <2>3
    <3> QED BY <3>1, <3>2
  <2>7. Iter(n + 1, g)
    BY <2>1, <2>3, <2>6
  <2>8. n + 1 \in Nat
    OBVIOUS
  <2> QED BY <2>5, <2>7, <2>8
<1>3. \A n \in 0 .. N : n \in S
  BY <1>1, <1>2, UpTo
<1>4. N \in S
  BY <1>3
<1> QED BY <1>4 DEF Iteration

LEMMA Largest ==
    ASSUME NEW S \in SUBSET Nat, S # {}, NEW b \in Nat, \A i \in S : i <= b
    PROVE  \E i \in S : \A j \in S : j <= i
<1> DEFINE T == {n \in Nat : b - n \in S}
<1>1. T # {} /\ T \subseteq Nat
  <2>1. PICK i \in S : TRUE
    OBVIOUS
  <2>2. b - i \in Nat /\ b - (b - i) = i
    BY <2>1
  <2> QED BY <2>1, <2>2
<1>2. PICK n \in T : \A m \in T : <<m, n>> \notin OpToRel(<, Nat)
  BY <1>1, NatLessThanWellFounded, WFMin
<1>3. \A m \in T : ~(m < n)
  BY <1>2 DEF OpToRel
<1>4. ASSUME NEW j \in S PROVE j <= b - n
  <2>1. b - j \in T
    BY b - j \in Nat /\ b - (b - j) = j
  <2>2. ~(b - j < n) /\ n \in Nat
    BY <1>3, <2>1
  <2> QED BY <2>2
<1> QED BY <1>2, <1>4

----------------------------------------------------------------------------
(* What the bounded recursions over the graph compute.                       *)

MaxK == 0 .. MAX_DAG_DEPTH

LEMMA AboveDef ==
    ASSUME NEW E, NEW t \in Teams
    PROVE  /\ Above(E, t) \in [MaxK -> SUBSET Teams]
           /\ Above(E, t)[0] = {t}
           /\ \A k \in 1 .. MAX_DAG_DEPTH : Above(E, t)[k] = Parents(E, Above(E, t)[k - 1])
<1> DEFINE Sol(A) == A = [k \in 0 .. MAX_DAG_DEPTH |-> IF k = 0 THEN {t} ELSE Parents(E, A[k - 1])]
<1>0. MAX_DAG_DEPTH \in Nat
  BY TeamAssumption
<1>1. PICK F : F = [S \in SUBSET Teams |-> Parents(E, S)]
  OBVIOUS
<1>1a. F \in [SUBSET Teams -> SUBSET Teams]
  BY <1>1 DEF Parents
<1>2. {t} \in SUBSET Teams
  OBVIOUS
<1>3. \E f \in [0 .. MAX_DAG_DEPTH -> SUBSET Teams] :
          f[0] = {t} /\ \A k \in 1 .. MAX_DAG_DEPTH : f[k] = F[f[k - 1]]
  <2>1. PICK P : P = SUBSET Teams
    OBVIOUS
  <2>2. PICK a : a = {t}
    OBVIOUS
  <2>3. a \in P /\ F \in [P -> P]
    BY <1>1a, <1>2, <2>1, <2>2
  <2>4. \E f : Iteration(P, F, a, MAX_DAG_DEPTH, f)
    BY <1>0, <2>3, Iterates
  <2> QED BY <2>1, <2>2, <2>4 DEF Iteration
<1>4. PICK f \in [0 .. MAX_DAG_DEPTH -> SUBSET Teams] :
          f[0] = {t} /\ \A k \in 1 .. MAX_DAG_DEPTH : f[k] = F[f[k - 1]]
  BY <1>3
<1>5. ASSUME NEW k \in 1 .. MAX_DAG_DEPTH PROVE f[k] = Parents(E, f[k - 1])
  <2>1. k - 1 \in 0 .. MAX_DAG_DEPTH
    BY <1>0
  <2> QED BY <1>1, <1>4, <2>1
<1>6. Sol(f)
  BY <1>0, <1>4, <1>5
<1>7. Above(E, t) = CHOOSE A : Sol(A)
  BY DEF Above
<1>8. Sol(Above(E, t))
  <2> HIDE DEF Sol
  <2> QED BY <1>6, <1>7
<1>9. PICK A : A = Above(E, t)
  OBVIOUS
<1>10. A = [k \in 0 .. MAX_DAG_DEPTH |-> IF k = 0 THEN {t} ELSE Parents(E, A[k - 1])]
  BY <1>8, <1>9
<1>11. A[0] = {t} /\ \A k \in 1 .. MAX_DAG_DEPTH : A[k] = Parents(E, A[k - 1])
  <2>1. 0 \in 0 .. MAX_DAG_DEPTH /\ \A k \in 1 .. MAX_DAG_DEPTH : k \in 0 .. MAX_DAG_DEPTH /\ k # 0
    BY <1>0
  <2> QED BY <1>10, <2>1
<1>12. ASSUME NEW k \in 0 .. MAX_DAG_DEPTH PROVE A[k] \in SUBSET Teams
  <2>1. CASE k = 0
    BY <1>11, <2>1
  <2>2. CASE k # 0
    BY <1>0, <1>11, <2>2 DEF Parents
  <2> QED BY <2>1, <2>2
<1>13. A \in [0 .. MAX_DAG_DEPTH -> SUBSET Teams]
  BY <1>10, <1>12
<1> QED BY <1>9, <1>11, <1>13 DEF MaxK

LEMMA BelowDef ==
    ASSUME NEW E, NEW t \in Teams
    PROVE  /\ Below(E, t) \in [MaxK -> SUBSET Teams]
           /\ Below(E, t)[0] = {t}
           /\ \A k \in 1 .. MAX_DAG_DEPTH : Below(E, t)[k] = Children(E, Below(E, t)[k - 1])
<1> DEFINE Sol(B) == B = [k \in 0 .. MAX_DAG_DEPTH |-> IF k = 0 THEN {t} ELSE Children(E, B[k - 1])]
<1>0. MAX_DAG_DEPTH \in Nat
  BY TeamAssumption
<1>1. PICK F : F = [S \in SUBSET Teams |-> Children(E, S)]
  OBVIOUS
<1>1a. F \in [SUBSET Teams -> SUBSET Teams]
  BY <1>1 DEF Children
<1>2. {t} \in SUBSET Teams
  OBVIOUS
<1>3. \E f \in [0 .. MAX_DAG_DEPTH -> SUBSET Teams] :
          f[0] = {t} /\ \A k \in 1 .. MAX_DAG_DEPTH : f[k] = F[f[k - 1]]
  <2>1. PICK P : P = SUBSET Teams
    OBVIOUS
  <2>2. PICK a : a = {t}
    OBVIOUS
  <2>3. a \in P /\ F \in [P -> P]
    BY <1>1a, <1>2, <2>1, <2>2
  <2>4. \E f : Iteration(P, F, a, MAX_DAG_DEPTH, f)
    BY <1>0, <2>3, Iterates
  <2> QED BY <2>1, <2>2, <2>4 DEF Iteration
<1>4. PICK f \in [0 .. MAX_DAG_DEPTH -> SUBSET Teams] :
          f[0] = {t} /\ \A k \in 1 .. MAX_DAG_DEPTH : f[k] = F[f[k - 1]]
  BY <1>3
<1>5. ASSUME NEW k \in 1 .. MAX_DAG_DEPTH PROVE f[k] = Children(E, f[k - 1])
  <2>1. k - 1 \in 0 .. MAX_DAG_DEPTH
    BY <1>0
  <2> QED BY <1>1, <1>4, <2>1
<1>6. Sol(f)
  BY <1>0, <1>4, <1>5
<1>7. Below(E, t) = CHOOSE B : Sol(B)
  BY DEF Below
<1>8. Sol(Below(E, t))
  <2> HIDE DEF Sol
  <2> QED BY <1>6, <1>7
<1>9. PICK B : B = Below(E, t)
  OBVIOUS
<1>10. B = [k \in 0 .. MAX_DAG_DEPTH |-> IF k = 0 THEN {t} ELSE Children(E, B[k - 1])]
  BY <1>8, <1>9
<1>11. B[0] = {t} /\ \A k \in 1 .. MAX_DAG_DEPTH : B[k] = Children(E, B[k - 1])
  <2>1. 0 \in 0 .. MAX_DAG_DEPTH /\ \A k \in 1 .. MAX_DAG_DEPTH : k \in 0 .. MAX_DAG_DEPTH /\ k # 0
    BY <1>0
  <2> QED BY <1>10, <2>1
<1>12. ASSUME NEW k \in 0 .. MAX_DAG_DEPTH PROVE B[k] \in SUBSET Teams
  <2>1. CASE k = 0
    BY <1>11, <2>1
  <2>2. CASE k # 0
    BY <1>0, <1>11, <2>2 DEF Children
  <2> QED BY <2>1, <2>2
<1>13. B \in [0 .. MAX_DAG_DEPTH -> SUBSET Teams]
  BY <1>10, <1>12
<1> QED BY <1>9, <1>11, <1>13 DEF MaxK

\* The teams at depth k of a user's memberships are those k - 1 edges above a
\* team the user belongs to.
LEMMA MembershipDef ==
    ASSUME NEW U, NEW E, NEW u
    PROVE  \A k \in 1 .. MAX_DAG_DEPTH :
             Membership(U, E, u)[k] =
               {m \in Teams : \E s \in Teams : U[s][u] # "none" /\ m \in Above(E, s)[k - 1]}
<1> DEFINE Sol(R) == R = [k \in 1 .. MAX_DAG_DEPTH |->
                            IF k = 1 THEN {t \in Teams : U[t][u] # "none"} ELSE Parents(E, R[k - 1])]
<1>0. MAX_DAG_DEPTH \in Nat /\ MAX_DAG_DEPTH # 0
  BY TeamAssumption
<1>1. PICK f : f = [k \in 1 .. MAX_DAG_DEPTH |->
               {m \in Teams : \E s \in Teams : U[s][u] # "none" /\ m \in Above(E, s)[k - 1]}]
  OBVIOUS
<1>2. \A k \in 1 .. MAX_DAG_DEPTH : f[k] =
               {m \in Teams : \E s \in Teams : U[s][u] # "none" /\ m \in Above(E, s)[k - 1]}
  BY <1>1
<1>3. f[1] = {t \in Teams : U[t][u] # "none"}
  <2>1. 1 \in 1 .. MAX_DAG_DEPTH /\ 1 - 1 = 0
    BY <1>0
  <2>2. \A s \in Teams : Above(E, s)[0] = {s}
    BY AboveDef
  <2>3. f[1] = {m \in Teams : \E s \in Teams : U[s][u] # "none" /\ m \in Above(E, s)[0]}
    BY <1>2, <2>1
  <2> QED BY <2>2, <2>3
<1>4. ASSUME NEW k \in 1 .. MAX_DAG_DEPTH, k # 1 PROVE f[k] = Parents(E, f[k - 1])
  <2>1. k - 1 \in 1 .. MAX_DAG_DEPTH /\ (k - 1) - 1 \in MaxK
    BY <1>0, <1>4 DEF MaxK
  <2>2. \A s \in Teams : Above(E, s)[k - 1] = Parents(E, Above(E, s)[(k - 1) - 1])
    BY <2>1, AboveDef
  <2>3. \A s \in Teams : Above(E, s)[(k - 1) - 1] \subseteq Teams
    BY <2>1, AboveDef
  <2>4. f[k] = {m \in Teams : \E s \in Teams : U[s][u] # "none" /\ m \in Above(E, s)[k - 1]}
    BY <1>2
  <2>5. f[k - 1] = {m \in Teams : \E s \in Teams : U[s][u] # "none" /\ m \in Above(E, s)[(k - 1) - 1]}
    BY <1>2, <2>1
  <2>6. ASSUME NEW m \in Teams PROVE m \in f[k] <=> m \in Parents(E, f[k - 1])
    BY <2>2, <2>3, <2>4, <2>5 DEF Parents
  <2>7. f[k] \subseteq Teams /\ Parents(E, f[k - 1]) \subseteq Teams
    BY <2>4 DEF Parents
  <2> QED BY <2>6, <2>7
<1>5. Sol(f)
  <2>1. f = [k \in 1 .. MAX_DAG_DEPTH |-> f[k]]
    BY <1>1
  <2>2. \A k \in 1 .. MAX_DAG_DEPTH :
          f[k] = IF k = 1 THEN {t \in Teams : U[t][u] # "none"} ELSE Parents(E, f[k - 1])
    BY <1>3, <1>4
  <2> QED BY <2>1, <2>2
<1>6. Membership(U, E, u) = CHOOSE R : Sol(R)
  BY DEF Membership
<1>7. Sol(Membership(U, E, u))
  <2> HIDE DEF Sol
  <2> QED BY <1>5, <1>6
<1>8. PICK R : R = Membership(U, E, u)
  OBVIOUS
<1>9. \A k \in 1 .. MAX_DAG_DEPTH :
        R[k] = IF k = 1 THEN {t \in Teams : U[t][u] # "none"} ELSE Parents(E, R[k - 1])
  BY <1>7, <1>8
<1> DEFINE Same == {n \in Nat : n + 1 \in 1 .. MAX_DAG_DEPTH => R[n + 1] = f[n + 1]}
<1>10. 0 \in Same
  <2>1. 1 \in 1 .. MAX_DAG_DEPTH /\ 0 + 1 = 1
    BY <1>0
  <2>2. R[1] = {t \in Teams : U[t][u] # "none"}
    BY <1>9, <2>1
  <2>3. R[1] = f[1]
    BY <1>3, <2>2
  <2> QED BY <2>1, <2>3
<1>11. ASSUME NEW n \in 0 .. MAX_DAG_DEPTH - 1, n \in Same PROVE n + 1 \in Same
  <2> SUFFICES ASSUME (n + 1) + 1 \in 1 .. MAX_DAG_DEPTH
               PROVE  R[(n + 1) + 1] = f[(n + 1) + 1]
    BY <1>0
  <2>1. n + 1 \in 1 .. MAX_DAG_DEPTH /\ ((n + 1) + 1) - 1 = n + 1 /\ (n + 1) + 1 # 1
    BY <1>0
  <2>2. R[n + 1] = f[n + 1]
    BY <1>11, <2>1
  <2>3. R[(n + 1) + 1] = Parents(E, R[n + 1])
    BY <1>9, <2>1
  <2>4. f[(n + 1) + 1] = Parents(E, f[n + 1])
    BY <1>4, <2>1
  <2> QED BY <2>2, <2>3, <2>4
<1>12. \A n \in 0 .. MAX_DAG_DEPTH : n \in Same
  <2> HIDE DEF Same
  <2> QED BY <1>0, <1>10, <1>11, UpTo
<1>13. ASSUME NEW k \in 1 .. MAX_DAG_DEPTH PROVE R[k] = f[k]
  <2>1. k - 1 \in 0 .. MAX_DAG_DEPTH /\ (k - 1) + 1 = k
    BY <1>0
  <2> QED BY <1>12, <2>1
<1> QED BY <1>2, <1>8, <1>13

\* One edge more.
LEMMA AboveStep ==
    ASSUME NEW E, NEW t \in Teams, NEW k \in 0 .. MAX_DAG_DEPTH - 1
    PROVE  /\ Above(E, t)[k] \subseteq Teams
           /\ Above(E, t)[k + 1] = {x \in Teams : \E y \in Above(E, t)[k] : E[x][y] # "none"}
<1>0. MAX_DAG_DEPTH \in Nat
  BY TeamAssumption
<1>1. k + 1 \in 1 .. MAX_DAG_DEPTH /\ (k + 1) - 1 = k /\ k \in MaxK
  BY <1>0 DEF MaxK
<1>2. Above(E, t)[k + 1] = Parents(E, Above(E, t)[k])
  BY <1>1, AboveDef
<1>3. Above(E, t)[k] \subseteq Teams
  BY <1>1, AboveDef
<1> QED BY <1>2, <1>3 DEF Parents

LEMMA BelowStep ==
    ASSUME NEW E, NEW t \in Teams, NEW k \in 0 .. MAX_DAG_DEPTH - 1
    PROVE  /\ Below(E, t)[k] \subseteq Teams
           /\ Below(E, t)[k + 1] = {x \in Teams : \E y \in Below(E, t)[k] : E[y][x] # "none"}
<1>0. MAX_DAG_DEPTH \in Nat
  BY TeamAssumption
<1>1. k + 1 \in 1 .. MAX_DAG_DEPTH /\ (k + 1) - 1 = k /\ k \in MaxK
  BY <1>0 DEF MaxK
<1>2. Below(E, t)[k + 1] = Children(E, Below(E, t)[k])
  BY <1>1, BelowDef
<1>3. Below(E, t)[k] \subseteq Teams
  BY <1>1, BelowDef
<1> QED BY <1>2, <1>3 DEF Children

\* A chain is made longer at its other end.
LEMMA AboveShift ==
    ASSUME NEW E, NEW q \in Teams, NEW r \in Teams, E[q][r] # "none"
    PROVE  \A k \in 0 .. MAX_DAG_DEPTH - 1 : Above(E, q)[k] \subseteq Above(E, r)[k + 1]
<1>0. MAX_DAG_DEPTH \in Nat /\ MAX_DAG_DEPTH # 0 /\ MAX_DAG_DEPTH - 1 \in Nat
  BY TeamAssumption
<1> DEFINE S == {k \in Nat : k \in 0 .. MAX_DAG_DEPTH - 1 => Above(E, q)[k] \subseteq Above(E, r)[k + 1]}
<1>1. 0 \in S
  <2>1. Above(E, q)[0] = {q} /\ Above(E, r)[0] = {r}
    BY AboveDef
  <2>2. 0 \in 0 .. MAX_DAG_DEPTH - 1
    BY <1>0
  <2>3. Above(E, r)[0 + 1] = {x \in Teams : \E y \in Above(E, r)[0] : E[x][y] # "none"}
    BY <2>2, AboveStep
  <2> QED BY <2>1, <2>3
<1>2. ASSUME NEW k \in 0 .. (MAX_DAG_DEPTH - 1) - 1, k \in S PROVE k + 1 \in S
  <2>1. k \in 0 .. MAX_DAG_DEPTH - 1 /\ k + 1 \in 0 .. MAX_DAG_DEPTH - 1
    BY <1>0
  <2>2. Above(E, q)[k + 1] = {x \in Teams : \E y \in Above(E, q)[k] : E[x][y] # "none"}
    BY <2>1, AboveStep
  <2>3. Above(E, r)[(k + 1) + 1] = {x \in Teams : \E y \in Above(E, r)[k + 1] : E[x][y] # "none"}
    BY <2>1, AboveStep
  <2>4. Above(E, q)[k] \subseteq Above(E, r)[k + 1]
    BY <1>2, <2>1
  <2>5. Above(E, q)[k + 1] \subseteq Above(E, r)[(k + 1) + 1]
    BY <2>2, <2>3, <2>4
  <2> QED BY <2>1, <2>5
<1>3. \A k \in 0 .. MAX_DAG_DEPTH - 1 : k \in S
  <2> HIDE DEF S
  <2> QED BY <1>0, <1>1, <1>2, UpTo
<1> QED BY <1>3

LEMMA BelowShift ==
    ASSUME NEW E, NEW q \in Teams, NEW r \in Teams, E[q][r] # "none"
    PROVE  \A k \in 0 .. MAX_DAG_DEPTH - 1 : Below(E, r)[k] \subseteq Below(E, q)[k + 1]
<1>0. MAX_DAG_DEPTH \in Nat /\ MAX_DAG_DEPTH # 0 /\ MAX_DAG_DEPTH - 1 \in Nat
  BY TeamAssumption
<1> DEFINE S == {k \in Nat : k \in 0 .. MAX_DAG_DEPTH - 1 => Below(E, r)[k] \subseteq Below(E, q)[k + 1]}
<1>1. 0 \in S
  <2>1. Below(E, r)[0] = {r} /\ Below(E, q)[0] = {q}
    BY BelowDef
  <2>2. 0 \in 0 .. MAX_DAG_DEPTH - 1
    BY <1>0
  <2>3. Below(E, q)[0 + 1] = {x \in Teams : \E y \in Below(E, q)[0] : E[y][x] # "none"}
    BY <2>2, BelowStep
  <2> QED BY <2>1, <2>3
<1>2. ASSUME NEW k \in 0 .. (MAX_DAG_DEPTH - 1) - 1, k \in S PROVE k + 1 \in S
  <2>1. k \in 0 .. MAX_DAG_DEPTH - 1 /\ k + 1 \in 0 .. MAX_DAG_DEPTH - 1
    BY <1>0
  <2>2. Below(E, r)[k + 1] = {x \in Teams : \E y \in Below(E, r)[k] : E[y][x] # "none"}
    BY <2>1, BelowStep
  <2>3. Below(E, q)[(k + 1) + 1] = {x \in Teams : \E y \in Below(E, q)[k + 1] : E[y][x] # "none"}
    <3>1. PICK n : n = k + 1
      OBVIOUS
    <3>2. n \in 0 .. MAX_DAG_DEPTH - 1
      BY <2>1, <3>1
    <3>3. Below(E, q)[n + 1] = {x \in Teams : \E y \in Below(E, q)[n] : E[y][x] # "none"}
      BY <3>2, BelowStep
    <3> QED BY <3>1, <3>3
  <2>4. Below(E, r)[k] \subseteq Below(E, q)[k + 1]
    BY <1>2, <2>1
  <2>5. Below(E, r)[k + 1] \subseteq Below(E, q)[(k + 1) + 1]
    BY <2>2, <2>3, <2>4
  <2> QED BY <2>1, <2>5
<1>3. \A k \in 0 .. MAX_DAG_DEPTH - 1 : k \in S
  <2> HIDE DEF S
  <2> QED BY <1>0, <1>1, <1>2, UpTo
<1> QED BY <1>3

\* What is above and what is below mirror each other.
LEMMA AboveIsBelow ==
    ASSUME NEW E, NEW s \in Teams
    PROVE  \A k \in MaxK : \A x \in Above(E, s)[k] : x \in Teams /\ s \in Below(E, x)[k]
<1>0. MAX_DAG_DEPTH \in Nat /\ MAX_DAG_DEPTH # 0
  BY TeamAssumption
<1> DEFINE S == {k \in Nat : k \in MaxK => \A x \in Above(E, s)[k] : x \in Teams /\ s \in Below(E, x)[k]}
<1>1. 0 \in S
  <2>1. Above(E, s)[0] = {s} /\ Below(E, s)[0] = {s}
    BY AboveDef, BelowDef
  <2> QED BY <2>1
<1>2. ASSUME NEW k \in 0 .. MAX_DAG_DEPTH - 1, k \in S PROVE k + 1 \in S
  <2>1. k \in MaxK /\ k + 1 \in Nat
    BY <1>0 DEF MaxK
  <2>2. Above(E, s)[k + 1] = {x \in Teams : \E y \in Above(E, s)[k] : E[x][y] # "none"}
    BY AboveStep
  <2>3. ASSUME NEW x \in Above(E, s)[k + 1] PROVE x \in Teams /\ s \in Below(E, x)[k + 1]
    <3>1. PICK y \in Above(E, s)[k] : E[x][y] # "none"
      BY <2>2, <2>3
    <3>2. y \in Teams /\ s \in Below(E, y)[k] /\ x \in Teams
      BY <1>2, <2>1, <2>2, <3>1
    <3>3. Below(E, y)[k] \subseteq Below(E, x)[k + 1]
      BY <3>1, <3>2, BelowShift
    <3> QED BY <3>2, <3>3
  <2> QED BY <2>1, <2>3
<1>3. \A k \in 0 .. MAX_DAG_DEPTH : k \in S
  <2> HIDE DEF S
  <2> QED BY <1>0, <1>1, <1>2, UpTo
<1> QED BY <1>3 DEF MaxK

----------------------------------------------------------------------------
(* Chains of teams.  A rank that grows along every edge and stays within     *)
(* MAX_DAG_DEPTH bounds them; an edge that passes the check of dag.py leaves *)
(* room for one.                                                             *)

RanksEdges(E, h) ==
    /\ h \in [Teams -> MaxK]
    /\ \A p \in Teams, m \in Teams : E[p][m] # "none" => h[m] < h[p]

Ranked(E) == \E h : RanksEdges(E, h)

LEMMA RankAbove ==
    ASSUME NEW E, NEW h, RanksEdges(E, h), NEW t \in Teams
    PROVE  \A k \in MaxK : \A x \in Above(E, t)[k] : h[t] + k <= h[x]
<1>0. MAX_DAG_DEPTH \in Nat /\ MAX_DAG_DEPTH # 0
  BY TeamAssumption
<1>a. \A x \in Teams : h[x] \in Nat
  BY <1>0 DEF RanksEdges, MaxK
<1> DEFINE S == {k \in Nat : k \in MaxK => \A x \in Above(E, t)[k] : h[t] + k <= h[x]}
<1>1. 0 \in S
  <2>1. Above(E, t)[0] = {t}
    BY AboveDef
  <2> QED BY <1>a, <2>1
<1>2. ASSUME NEW k \in 0 .. MAX_DAG_DEPTH - 1, k \in S PROVE k + 1 \in S
  <2>1. k \in MaxK /\ k + 1 \in Nat
    BY <1>0 DEF MaxK
  <2>2. Above(E, t)[k + 1] = {x \in Teams : \E y \in Above(E, t)[k] : E[x][y] # "none"}
    BY AboveStep
  <2>3. ASSUME NEW x \in Above(E, t)[k + 1] PROVE h[t] + (k + 1) <= h[x]
    <3>1. PICK y \in Above(E, t)[k] : E[x][y] # "none"
      BY <2>2, <2>3
    <3>2. y \in Teams /\ x \in Teams /\ h[t] + k <= h[y]
      BY <1>2, <2>1, <2>2, <3>1, AboveStep
    <3>3. h[y] < h[x]
      BY <3>1, <3>2 DEF RanksEdges
    <3> QED BY <1>a, <3>2, <3>3
  <2> QED BY <2>1, <2>3
<1>3. \A k \in 0 .. MAX_DAG_DEPTH : k \in S
  <2> HIDE DEF S
  <2> QED BY <1>0, <1>1, <1>2, UpTo
<1> QED BY <1>3 DEF MaxK

LEMMA RankBelow ==
    ASSUME NEW E, NEW h, RanksEdges(E, h), NEW t \in Teams
    PROVE  \A k \in MaxK : \A x \in Below(E, t)[k] : h[x] + k <= h[t]
<1>0. MAX_DAG_DEPTH \in Nat /\ MAX_DAG_DEPTH # 0
  BY TeamAssumption
<1>a. \A x \in Teams : h[x] \in Nat
  BY <1>0 DEF RanksEdges, MaxK
<1> DEFINE S == {k \in Nat : k \in MaxK => \A x \in Below(E, t)[k] : h[x] + k <= h[t]}
<1>1. 0 \in S
  <2>1. Below(E, t)[0] = {t}
    BY BelowDef
  <2> QED BY <1>a, <2>1
<1>2. ASSUME NEW k \in 0 .. MAX_DAG_DEPTH - 1, k \in S PROVE k + 1 \in S
  <2>1. k \in MaxK /\ k + 1 \in Nat
    BY <1>0 DEF MaxK
  <2>2. Below(E, t)[k + 1] = {x \in Teams : \E y \in Below(E, t)[k] : E[y][x] # "none"}
    BY BelowStep
  <2>3. ASSUME NEW x \in Below(E, t)[k + 1] PROVE h[x] + (k + 1) <= h[t]
    <3>1. PICK y \in Below(E, t)[k] : E[y][x] # "none"
      BY <2>2, <2>3
    <3>2. y \in Teams /\ x \in Teams /\ h[y] + k <= h[t]
      BY <1>2, <2>1, <2>2, <3>1, BelowStep
    <3>3. h[x] < h[y]
      BY <3>1, <3>2 DEF RanksEdges
    <3> QED BY <1>a, <3>2, <3>3
  <2> QED BY <2>1, <2>3
<1>3. \A k \in 0 .. MAX_DAG_DEPTH : k \in S
  <2> HIDE DEF S
  <2> QED BY <1>0, <1>1, <1>2, UpTo
<1> QED BY <1>3 DEF MaxK

LEMMA RankBoundsChains ==
    ASSUME NEW E, Ranked(E), NEW t \in Teams
    PROVE  Parents(E, Above(E, t)[MAX_DAG_DEPTH]) = {}
<1>0. MAX_DAG_DEPTH \in Nat /\ MAX_DAG_DEPTH \in MaxK
  BY TeamAssumption DEF MaxK
<1>1. PICK h : RanksEdges(E, h)
  BY DEF Ranked
<1>2. SUFFICES ASSUME NEW x \in Teams, NEW y \in Above(E, t)[MAX_DAG_DEPTH], E[x][y] # "none"
               PROVE  FALSE
  BY DEF Parents
<1>3. y \in Teams
  BY <1>0, AboveDef
<1>4. h[t] + MAX_DAG_DEPTH <= h[y]
  BY <1>0, <1>1, RankAbove
<1>5. h[y] < h[x] /\ h[x] \in MaxK /\ h[y] \in MaxK /\ h[t] \in MaxK
  BY <1>1, <1>2, <1>3 DEF RanksEdges
<1> QED BY <1>0, <1>4, <1>5 DEF MaxK

\* max_chain_depth is the last level that is not empty.
LEMMA ChainDepth ==
    ASSUME NEW level, level[0] # {}
    PROVE  /\ max_chain_depth(level) \in MaxK
           /\ level[max_chain_depth(level)] # {}
           /\ \A j \in MaxK : level[j] # {} => j <= max_chain_depth(level)
<1>0. MAX_DAG_DEPTH \in Nat
  BY TeamAssumption
<1> DEFINE S == {k \in 0 .. MAX_DAG_DEPTH : level[k] # {}}
           Last(k) == level[k] # {} /\ \A j \in 0 .. MAX_DAG_DEPTH : level[j] # {} => j <= k
<1>1. S \in SUBSET Nat /\ S # {} /\ \A i \in S : i <= MAX_DAG_DEPTH
  BY <1>0
<1>2. PICK k \in S : \A j \in S : j <= k
  BY <1>0, <1>1, Largest
<1>3. k \in 0 .. MAX_DAG_DEPTH /\ Last(k)
  BY <1>2
<1>4. max_chain_depth(level) = CHOOSE i \in 0 .. MAX_DAG_DEPTH : Last(i)
  BY DEF max_chain_depth
<1>5. max_chain_depth(level) \in 0 .. MAX_DAG_DEPTH /\ Last(max_chain_depth(level))
  <2> HIDE DEF Last
  <2> QED BY <1>3, <1>4
<1> QED BY <1>5 DEF MaxK

\* Up and down are the lengths of the longest chains above and below a team.
Up(E, t) == max_chain_depth(Above(E, t))
Down(E, t) == max_chain_depth(Below(E, t))

LEMMA UpDown ==
    ASSUME NEW E, NEW h, RanksEdges(E, h), NEW t \in Teams
    PROVE  /\ Up(E, t) \in MaxK /\ Down(E, t) \in MaxK
           /\ h[t] + Up(E, t) <= MAX_DAG_DEPTH
           /\ Down(E, t) <= h[t]
<1>0. MAX_DAG_DEPTH \in Nat
  BY TeamAssumption
<1>1. Above(E, t)[0] # {} /\ Below(E, t)[0] # {}
  BY AboveDef, BelowDef
<1>2. /\ Up(E, t) \in MaxK /\ Above(E, t)[Up(E, t)] # {}
      /\ Down(E, t) \in MaxK /\ Below(E, t)[Down(E, t)] # {}
  BY <1>1, ChainDepth DEF Up, Down
<1>3. PICK x \in Above(E, t)[Up(E, t)] : TRUE
  BY <1>2
<1>4. PICK y \in Below(E, t)[Down(E, t)] : TRUE
  BY <1>2
<1>5. h[t] + Up(E, t) <= h[x] /\ h[y] + Down(E, t) <= h[t]
  BY <1>2, <1>3, <1>4, RankAbove, RankBelow
<1>6. x \in Teams /\ y \in Teams
  BY <1>2, <1>3, <1>4, AboveDef, BelowDef
<1>7. h[t] \in MaxK /\ h[x] \in MaxK /\ h[y] \in MaxK
  BY <1>6 DEF RanksEdges
<1> QED BY <1>0, <1>2, <1>5, <1>7 DEF MaxK

LEMMA UpDownAlong ==
    ASSUME NEW E, NEW h, RanksEdges(E, h), NEW q \in Teams, NEW r \in Teams, E[q][r] # "none"
    PROVE  Up(E, q) + 1 <= Up(E, r) /\ Down(E, r) + 1 <= Down(E, q)
<1>0. MAX_DAG_DEPTH \in Nat
  BY TeamAssumption
<1>1a. \A t \in Teams : Above(E, t)[0] = {t}
  BY AboveDef
<1>1b. \A t \in Teams : Below(E, t)[0] = {t}
  BY BelowDef
<1>1. /\ Above(E, q)[0] # {} /\ Below(E, q)[0] # {}
      /\ Above(E, r)[0] # {} /\ Below(E, r)[0] # {}
  BY <1>1a, <1>1b
<1>2. /\ Above(E, q)[Up(E, q)] # {} /\ Below(E, r)[Down(E, r)] # {}
      /\ \A j \in MaxK : Above(E, r)[j] # {} => j <= Up(E, r)
      /\ \A j \in MaxK : Below(E, q)[j] # {} => j <= Down(E, q)
  BY <1>1, ChainDepth DEF Up, Down
<1>3. /\ Up(E, q) \in MaxK /\ Down(E, r) \in MaxK
      /\ h[q] + Up(E, q) <= MAX_DAG_DEPTH /\ Down(E, r) <= h[r]
  BY UpDown
<1>4. h[r] < h[q] /\ h[q] \in MaxK /\ h[r] \in MaxK
  BY DEF RanksEdges
<1>5. Up(E, q) \in 0 .. MAX_DAG_DEPTH - 1 /\ Down(E, r) \in 0 .. MAX_DAG_DEPTH - 1
  BY <1>0, <1>3, <1>4 DEF MaxK
<1>6. Above(E, q)[Up(E, q)] \subseteq Above(E, r)[Up(E, q) + 1]
  BY <1>5, AboveShift
<1>7. Below(E, r)[Down(E, r)] \subseteq Below(E, q)[Down(E, r) + 1]
  BY <1>5, BelowShift
<1>8. Up(E, q) + 1 \in MaxK /\ Down(E, r) + 1 \in MaxK
  BY <1>0, <1>5 DEF MaxK
<1> QED BY <1>2, <1>6, <1>7, <1>8

\* An edge that can_add_team_as_member lets through leaves the graph ranked: the
\* teams above its parent hang from the top, all others stand on the ground.
LEMMA AddedEdgeRanked ==
    ASSUME NEW E, Ranked(E), NEW p \in Teams, NEW m \in Teams, can_add_team_as_member(E, p, m),
           NEW F, \A q \in Teams, r \in Teams : F[q][r] # "none" => E[q][r] # "none" \/ (q = p /\ r = m)
    PROVE  Ranked(F)
<1>0. MAX_DAG_DEPTH \in Nat /\ MAX_DAG_DEPTH # 0
  BY TeamAssumption
<1>1. PICK h : RanksEdges(E, h)
  BY DEF Ranked
<1> DEFINE Top == {p} \cup walk_ancestors(E, p)
<1>2. PICK g : g = [t \in Teams |-> IF t \in Top THEN MAX_DAG_DEPTH - Up(E, t) ELSE Down(E, t)]
  OBVIOUS
<1>3. \A t \in Teams : /\ Up(E, t) \in MaxK /\ Down(E, t) \in MaxK
                       /\ h[t] + Up(E, t) <= MAX_DAG_DEPTH /\ Down(E, t) <= h[t] /\ h[t] \in MaxK
  BY <1>1, UpDown DEF RanksEdges
<1>4. g \in [Teams -> MaxK]
  <2>1. \A t \in Teams : MAX_DAG_DEPTH - Up(E, t) \in MaxK
    BY <1>0, <1>3 DEF MaxK
  <2> QED BY <1>2, <1>3, <2>1
<1>5. \A t \in Top : \E k \in MaxK : t \in Above(E, p)[k]
  <2>1. Above(E, p)[0] = {p} /\ 0 \in MaxK /\ 1 .. MAX_DAG_DEPTH \subseteq MaxK
    BY <1>0, AboveDef DEF MaxK
  <2> QED BY <2>1 DEF walk_ancestors
<1>6. ASSUME NEW q \in Teams, NEW r \in Teams, E[q][r] # "none", r \in Top PROVE q \in Top
  <2>1. PICK k \in MaxK : r \in Above(E, p)[k]
    BY <1>5, <1>6
  <2>2. h[p] + k <= h[r] /\ h[r] < h[q] /\ h[q] \in MaxK /\ h[r] \in MaxK /\ h[p] \in MaxK
    BY <1>1, <1>3, <1>6, <2>1, RankAbove DEF RanksEdges
  <2>3. k \in 0 .. MAX_DAG_DEPTH - 1 /\ k + 1 \in 1 .. MAX_DAG_DEPTH
    BY <1>0, <2>1, <2>2 DEF MaxK
  <2>4. q \in Above(E, p)[k + 1]
    BY <1>6, <2>1, <2>3, AboveStep
  <2> QED BY <2>3, <2>4 DEF walk_ancestors
<1>7. p \in Top /\ m \notin Top /\ Up(E, p) + 1 + Down(E, m) <= MAX_DAG_DEPTH
  BY DEF can_add_team_as_member, Up, Down
<1>8. ASSUME NEW q \in Teams, NEW r \in Teams, F[q][r] # "none" PROVE g[r] < g[q]
  <2>a. /\ q \in Top => g[q] = MAX_DAG_DEPTH - Up(E, q)
        /\ q \notin Top => g[q] = Down(E, q)
        /\ r \in Top => g[r] = MAX_DAG_DEPTH - Up(E, r)
        /\ r \notin Top => g[r] = Down(E, r)
    BY <1>2
  <2>b. /\ Up(E, q) \in Nat /\ Down(E, q) \in Nat /\ h[q] \in Nat /\ h[q] + Up(E, q) <= MAX_DAG_DEPTH
        /\ Up(E, r) \in Nat /\ Down(E, r) \in Nat /\ h[r] \in Nat /\ Down(E, r) <= h[r]
    BY <1>0, <1>3 DEF MaxK
  <2> HIDE DEF Top
  <2>1. CASE E[q][r] # "none"
    <3>1. Up(E, q) + 1 <= Up(E, r) /\ Down(E, r) + 1 <= Down(E, q)
      BY <1>1, <2>1, UpDownAlong
    <3>2. r \in Top => q \in Top
      BY <1>6, <2>1
    <3>3. h[r] < h[q]
      BY <1>1, <2>1 DEF RanksEdges
    <3> QED BY <1>0, <2>a, <2>b, <3>1, <3>2, <3>3
  <2>2. CASE q = p /\ r = m
    <3>1. q \in Top /\ r \notin Top /\ Up(E, q) + 1 + Down(E, r) <= MAX_DAG_DEPTH
      BY <1>7, <2>2
    <3> QED BY <1>0, <2>a, <2>b, <3>1
  <2> QED BY <1>8, <2>1, <2>2
<1>9. RanksEdges(F, g)
  BY <1>4, <1>8 DEF RanksEdges
<1> QED BY <1>9 DEF Ranked

----------------------------------------------------------------------------
(* Types.                                                                    *)

PCs == {"idle", "checked", "written"}
Rows == UNION {[S -> SUBSET Roles] : S \in SUBSET Pairs}
TxType == [pc : PCs, users : SUBSET UserRow, edges : SUBSET EdgeRow, sync : BOOLEAN, new : Rows]
RefreshType == [pc : {"idle", "read", "computed"}, pairs : SUBSET Pairs, orphans : SUBSET Pairs,
                new : Rows]

\* A transaction writes at most one assignment of a user and one of a team, for
\* teams that exist or that it creates itself.
TxOK(c) ==
    /\ \A x \in tx[c].users, y \in tx[c].users : x = y
    /\ \A x \in tx[c].edges, y \in tx[c].edges : x = y
    /\ \A e \in tx[c].edges : e[1] \in teams /\ (e[2] \in teams \/ \E x \in tx[c].users : x[1] = e[2])

Shapes ==
    /\ tx \in [Clients -> TxType]
    /\ refresh \in RefreshType
    /\ refresh.pc = "computed" => DOMAIN refresh.new = refresh.pairs

Inv == TypeOK /\ Shapes /\ \A c \in Clients : TxOK(c)

LEMMA RowsFacts ==
    /\ NoRows \in Rows
    /\ \A n \in Rows : DOMAIN n \subseteq Pairs /\ \A pr \in DOMAIN n : n[pr] \in SUBSET Roles
<1>1. NoRows \in [{} -> SUBSET Roles]
  BY DEF NoRows
<1>2. {} \in SUBSET Pairs
  OBVIOUS
<1>3. NoRows \in Rows
  BY <1>1, <1>2 DEF Rows
<1>4. ASSUME NEW n \in Rows
      PROVE  DOMAIN n \subseteq Pairs /\ \A pr \in DOMAIN n : n[pr] \in SUBSET Roles
  <2>1. PICK S \in SUBSET Pairs : n \in [S -> SUBSET Roles]
    BY <1>4 DEF Rows
  <2> QED BY <2>1
<1> QED BY <1>3, <1>4

LEMMA EffectiveType ==
    ASSUME NEW U \in [Teams -> [Users -> RoleOrNone]], NEW E \in [Teams -> [Teams -> RoleOrNone]],
           NEW u \in Users, NEW t \in Teams
    PROVE  recompute_effective_access(U, E, u, t) \in SUBSET Roles
<1>0. MAX_DAG_DEPTH \in Nat
  BY TeamAssumption
<1>1. \A k \in 1 .. MAX_DAG_DEPTH - 1 : Membership(U, E, u)[k] \subseteq Teams
  <2>1. \A k \in 1 .. MAX_DAG_DEPTH - 1 : k \in 1 .. MAX_DAG_DEPTH
    BY <1>0
  <2> QED BY <2>1, MembershipDef
<1>2. \A m \in UNION {Membership(U, E, u)[k] : k \in 1 .. MAX_DAG_DEPTH - 1} : E[t][m] \in RoleOrNone
  BY <1>1
<1>3. U[t][u] \in RoleOrNone
  OBVIOUS
<1> QED BY <1>2, <1>3 DEF recompute_effective_access, RoleOrNone

LEMMA RecomputedType ==
    ASSUME NEW U \in [Teams -> [Users -> RoleOrNone]], NEW E \in [Teams -> [Teams -> RoleOrNone]],
           NEW S \in SUBSET Pairs
    PROVE  Recomputed(U, E, S) \in Rows /\ DOMAIN Recomputed(U, E, S) = S
<1>1. \A pr \in S : pr[1] \in Users /\ pr[2] \in Teams
  BY DEF Pairs
<1>2. \A pr \in S : recompute_effective_access(U, E, pr[1], pr[2]) \in SUBSET Roles
  BY <1>1, EffectiveType
<1>3. Recomputed(U, E, S) \in [S -> SUBSET Roles] /\ DOMAIN Recomputed(U, E, S) = S
  BY <1>2 DEF Recomputed
<1> QED BY <1>3 DEF Rows

\* What a transaction sees: its own row, and the tables everywhere else.
LEMMA Seen ==
    ASSUME Inv, NEW c \in Clients
    PROVE  /\ UserSeen(c) \in [Teams -> [Users -> RoleOrNone]]
           /\ \A t \in Teams, u \in Users :
                 /\ \A r : <<t, u, r>> \in tx[c].users => UserSeen(c)[t][u] = r
                 /\ (\A r \in RoleOrNone : <<t, u, r>> \notin tx[c].users) => UserSeen(c)[t][u] = user[t][u]
           /\ EdgeSeen(c) \in [Teams -> [Teams -> RoleOrNone]]
           /\ \A p \in Teams, m \in Teams :
                 /\ \A r : <<p, m, r>> \in tx[c].edges => EdgeSeen(c)[p][m] = r
                 /\ (\A r \in RoleOrNone : <<p, m, r>> \notin tx[c].edges) => EdgeSeen(c)[p][m] = edge[p][m]
<1>1. /\ tx[c].users \subseteq Teams \X Users \X RoleOrNone
      /\ tx[c].edges \subseteq Teams \X Teams \X RoleOrNone
      /\ \A x \in tx[c].users, y \in tx[c].users : x = y
      /\ \A x \in tx[c].edges, y \in tx[c].edges : x = y
      /\ user \in [Teams -> [Users -> RoleOrNone]] /\ edge \in [Teams -> [Teams -> RoleOrNone]]
  BY DEF Inv, TypeOK, TxOK, UserRow, EdgeRow
<1>2. ASSUME NEW t \in Teams, NEW u \in Users
      PROVE  /\ UserSeen(c)[t][u] \in RoleOrNone
             /\ \A r : <<t, u, r>> \in tx[c].users => UserSeen(c)[t][u] = r
             /\ (\A r \in RoleOrNone : <<t, u, r>> \notin tx[c].users) => UserSeen(c)[t][u] = user[t][u]
  <2>1. UserSeen(c)[t][u] = IF \E r \in RoleOrNone : <<t, u, r>> \in tx[c].users
                            THEN CHOOSE r \in RoleOrNone : <<t, u, r>> \in tx[c].users ELSE user[t][u]
    BY DEF UserSeen
  <2>2. ASSUME NEW r, <<t, u, r>> \in tx[c].users PROVE UserSeen(c)[t][u] = r /\ r \in RoleOrNone
    <3>1. r \in RoleOrNone
      BY <1>1, <2>2
    <3>2. \A q \in RoleOrNone : <<t, u, q>> \in tx[c].users => q = r
      BY <1>1, <2>2
    <3> QED BY <2>1, <2>2, <3>1, <3>2
  <2>3. user[t][u] \in RoleOrNone
    BY <1>1
  <2> QED BY <2>1, <2>2, <2>3
<1>3. UserSeen(c) \in [Teams -> [Users -> RoleOrNone]]
  BY <1>2 DEF UserSeen
<1>4. ASSUME NEW p \in Teams, NEW m \in Teams
      PROVE  /\ EdgeSeen(c)[p][m] \in RoleOrNone
             /\ \A r : <<p, m, r>> \in tx[c].edges => EdgeSeen(c)[p][m] = r
             /\ (\A r \in RoleOrNone : <<p, m, r>> \notin tx[c].edges) => EdgeSeen(c)[p][m] = edge[p][m]
  <2>1. EdgeSeen(c)[p][m] = IF \E r \in RoleOrNone : <<p, m, r>> \in tx[c].edges
                            THEN CHOOSE r \in RoleOrNone : <<p, m, r>> \in tx[c].edges ELSE edge[p][m]
    BY DEF EdgeSeen
  <2>2. ASSUME NEW r, <<p, m, r>> \in tx[c].edges PROVE EdgeSeen(c)[p][m] = r /\ r \in RoleOrNone
    <3>1. r \in RoleOrNone
      BY <1>1, <2>2
    <3>2. \A q \in RoleOrNone : <<p, m, q>> \in tx[c].edges => q = r
      BY <1>1, <2>2
    <3> QED BY <2>1, <2>2, <3>1, <3>2
  <2>3. edge[p][m] \in RoleOrNone
    BY <1>1
  <2> QED BY <2>1, <2>2, <2>3
<1>5. EdgeSeen(c) \in [Teams -> [Teams -> RoleOrNone]]
  BY <1>4 DEF EdgeSeen
<1> QED BY <1>2, <1>3, <1>4, <1>5

\* Where the transaction wrote nothing it sees the tables.
LEMMA UnwrittenUser ==
    ASSUME NEW c \in Clients, NEW t \in Teams, NEW u \in Users,
           \A r \in RoleOrNone : <<t, u, r>> \notin tx[c].users
    PROVE  UserSeen(c)[t][u] = user[t][u]
<1>1. UserSeen(c)[t][u] = IF \E r \in RoleOrNone : <<t, u, r>> \in tx[c].users
                          THEN CHOOSE r \in RoleOrNone : <<t, u, r>> \in tx[c].users ELSE user[t][u]
  BY DEF UserSeen
<1> QED BY <1>1

LEMMA UnwrittenEdge ==
    ASSUME NEW c \in Clients, NEW p \in Teams, NEW m \in Teams,
           \A r \in RoleOrNone : <<p, m, r>> \notin tx[c].edges
    PROVE  EdgeSeen(c)[p][m] = edge[p][m]
<1>1. EdgeSeen(c)[p][m] = IF \E r \in RoleOrNone : <<p, m, r>> \in tx[c].edges
                          THEN CHOOSE r \in RoleOrNone : <<p, m, r>> \in tx[c].edges ELSE edge[p][m]
  BY DEF EdgeSeen
<1> QED BY <1>1

LEMMA WalkTypes ==
    ASSUME NEW E, NEW t \in Teams
    PROVE  walk_ancestors(E, t) \subseteq Teams /\ walk_descendants(E, t) \subseteq Teams
<1>1. 1 .. MAX_DAG_DEPTH \subseteq MaxK
  BY TeamAssumption DEF MaxK
<1>2. \A k \in 1 .. MAX_DAG_DEPTH : Above(E, t)[k] \subseteq Teams
  BY <1>1, AboveDef
<1>3. \A k \in 1 .. MAX_DAG_DEPTH : Below(E, t)[k] \subseteq Teams
  BY <1>1, BelowDef
<1> QED BY <1>2, <1>3 DEF walk_ancestors, walk_descendants

LEMMA RefreshedType ==
    ASSUME Inv, NEW c \in Clients
    PROVE  Refreshed(c) \in Rows
<1>1. PICK pairs : pairs = UNION {sync_refresh_on_user_assignment(edge, x[1], x[2]) : x \in tx[c].users}
  OBVIOUS
<1>2. PICK cascade : cascade = UNION {cascade_on_team_member_change(user, EdgeSeen(c), e[1], e[2]) : e \in tx[c].edges}
  OBVIOUS
<1>3. \A x \in tx[c].users : x[1] \in Teams /\ x[2] \in Users
  BY DEF Inv, TypeOK, UserRow
<1>4. \A e \in tx[c].edges : e[1] \in Teams /\ e[2] \in Teams
  BY DEF Inv, TypeOK, EdgeRow
<1>5. pairs \in SUBSET Pairs
  <2>1. ASSUME NEW x \in tx[c].users PROVE sync_refresh_on_user_assignment(edge, x[1], x[2]) \subseteq Pairs
    <3>1. walk_ancestors(edge, x[1]) \subseteq Teams
      BY <1>3, WalkTypes
    <3> QED BY <1>3, <3>1 DEF sync_refresh_on_user_assignment, Pairs
  <2> QED BY <1>1, <2>1
<1>6. cascade \in SUBSET Pairs
  <2>1. ASSUME NEW e \in tx[c].edges
        PROVE  cascade_on_team_member_change(user, EdgeSeen(c), e[1], e[2]) \subseteq Pairs
    <3>1. walk_ancestors(EdgeSeen(c), e[1]) \subseteq Teams
      BY <1>4, WalkTypes
    <3> QED BY <1>4, <3>1 DEF cascade_on_team_member_change, Pairs
  <2> QED BY <1>2, <2>1
<1>7. /\ user \in [Teams -> [Users -> RoleOrNone]] /\ edge \in [Teams -> [Teams -> RoleOrNone]]
      /\ UserSeen(c) \in [Teams -> [Users -> RoleOrNone]]
      /\ EdgeSeen(c) \in [Teams -> [Teams -> RoleOrNone]]
  BY Seen DEF Inv, TypeOK
<1>8. Refreshed(c) = IF tx[c].sync THEN Recomputed(user, EdgeSeen(c), cascade)
                                   ELSE Recomputed(UserSeen(c), edge, pairs)
  BY <1>1, <1>2 DEF Refreshed
<1>9. Recomputed(user, EdgeSeen(c), cascade) \in Rows
  BY <1>6, <1>7, RecomputedType
<1>10. Recomputed(UserSeen(c), edge, pairs) \in Rows
  BY <1>5, <1>7, RecomputedType
<1> QED BY <1>8, <1>9, <1>10

LEMMA Constants ==
    /\ IsFiniteSet(Users)
    /\ DOMAIN Founder \subseteq Teams /\ \A t \in DOMAIN Founder : Founder[t] \in Users
    /\ "owner" \in Roles /\ "none" \notin Roles
    /\ MAX_DAG_DEPTH \in Nat /\ MAX_DAG_DEPTH # 0
    /\ Syncs \subseteq BOOLEAN
BY TeamAssumption

\* What the checks of a call let through.
Opened(users, edges) ==
    /\ users \in SUBSET UserRow /\ edges \in SUBSET EdgeRow
    /\ \A x \in users, y \in users : x = y
    /\ \A x \in edges, y \in edges : x = y
    /\ \A e \in edges : e[1] \in teams /\ (e[2] \in teams \/ \E x \in users : x[1] = e[2])

LEMMA OneUserRow ==
    ASSUME TypeOK, NEW t \in Teams, NEW u \in Users, NEW r \in RoleOrNone
    PROVE  Opened({<<t, u, r>>}, {})
BY DEF Opened, UserRow

LEMMA OneEdgeRow ==
    ASSUME TypeOK, NEW p \in teams, NEW m \in teams, NEW r \in RoleOrNone
    PROVE  Opened({}, {<<p, m, r>>})
BY DEF Opened, EdgeRow, TypeOK

LEMMA Calls ==
    ASSUME TypeOK, NEW c \in Clients, Call(c)
    PROVE  \E users, edges, sync : Opened(users, edges) /\ sync \in BOOLEAN /\ Checked(c, users, edges, sync)
<1>0. /\ teams \subseteq Teams /\ Roles \subseteq RoleOrNone /\ "none" \in RoleOrNone
      /\ FALSE \in BOOLEAN /\ Syncs \subseteq BOOLEAN /\ "owner" \in RoleOrNone
  BY Constants DEF TypeOK, RoleOrNone
<1>1. CASE AssignUser(c)
  <2>1. PICK t \in teams, u \in Users, r \in Roles : Checked(c, {<<t, u, r>>}, {}, FALSE)
    BY <1>1 DEF AssignUser
  <2>2. Opened({<<t, u, r>>}, {})
    BY <1>0, <2>1, OneUserRow
  <2> QED BY <1>0, <2>1, <2>2
<1>2. CASE WebAddMember(c)
  <2>1. PICK t \in teams, u \in Users, r \in Roles : Checked(c, {<<t, u, r>>}, {}, FALSE)
    BY <1>2 DEF WebAddMember
  <2>2. Opened({<<t, u, r>>}, {})
    BY <1>0, <2>1, OneUserRow
  <2> QED BY <1>0, <2>1, <2>2
<1>3. CASE PatchMember(c)
  <2>1. PICK t \in teams, u \in Users, r \in Roles : Checked(c, {<<t, u, r>>}, {}, FALSE)
    BY <1>3 DEF PatchMember
  <2>2. Opened({<<t, u, r>>}, {})
    BY <1>0, <2>1, OneUserRow
  <2> QED BY <1>0, <2>1, <2>2
<1>4. CASE RemoveUser(c)
  <2>1. PICK t \in teams, u \in Users : Checked(c, {<<t, u, "none">>}, {}, FALSE)
    BY <1>4 DEF RemoveUser
  <2>2. Opened({<<t, u, "none">>}, {})
    BY <1>0, <2>1, OneUserRow
  <2> QED BY <1>0, <2>1, <2>2
<1>5. CASE WebRemove(c)
  <2>1. PICK t \in teams, u \in Users : Checked(c, {<<t, u, "none">>}, {}, FALSE)
    BY <1>5 DEF WebRemove
  <2>2. Opened({<<t, u, "none">>}, {})
    BY <1>0, <2>1, OneUserRow
  <2> QED BY <1>0, <2>1, <2>2
<1>6. CASE AssignTeam(c)
  <2>1. PICK p \in teams, m \in teams, r \in Roles, s \in Syncs : Checked(c, {}, {<<p, m, r>>}, s)
    BY <1>6 DEF AssignTeam
  <2>2. Opened({}, {<<p, m, r>>}) /\ s \in BOOLEAN
    BY <1>0, <2>1, OneEdgeRow
  <2> QED BY <2>1, <2>2
<1>7. CASE RemoveTeam(c)
  <2>1. PICK p \in teams, m \in teams, s \in Syncs : Checked(c, {}, {<<p, m, "none">>}, s)
    BY <1>7 DEF RemoveTeam
  <2>2. Opened({}, {<<p, m, "none">>}) /\ s \in BOOLEAN
    BY <1>0, <2>1, OneEdgeRow
  <2> QED BY <2>1, <2>2
<1>8. CASE CreateTeam(c)
  <2>1. PICK a \in Users, t \in Teams \ teams :
          \/ Checked(c, {<<t, a, "owner">>}, {}, FALSE)
          \/ \E p \in teams, r \in Roles : Checked(c, {<<t, a, "owner">>}, {<<p, t, r>>}, FALSE)
    BY <1>8 DEF CreateTeam
  <2>2. CASE Checked(c, {<<t, a, "owner">>}, {}, FALSE)
    <3>1. Opened({<<t, a, "owner">>}, {})
      BY <1>0, <2>1, OneUserRow
    <3> QED BY <1>0, <2>2, <3>1
  <2>3. ASSUME NEW p \in teams, NEW r \in Roles, Checked(c, {<<t, a, "owner">>}, {<<p, t, r>>}, FALSE)
        PROVE  \E users, edges, sync : Opened(users, edges) /\ sync \in BOOLEAN /\ Checked(c, users, edges, sync)
    <3>1. {<<t, a, "owner">>} \in SUBSET UserRow /\ {<<p, t, r>>} \in SUBSET EdgeRow
      BY <1>0, <2>1 DEF UserRow, EdgeRow
    <3>2. \A e \in {<<p, t, r>>} : e[1] \in teams /\ e[2] = t
      OBVIOUS
    <3>3. \E x \in {<<t, a, "owner">>} : x[1] = t
      OBVIOUS
    <3>4. Opened({<<t, a, "owner">>}, {<<p, t, r>>})
      BY <3>1, <3>2, <3>3 DEF Opened
    <3> QED BY <1>0, <2>3, <3>4
  <2> QED BY <2>1, <2>2, <2>3
<1>9. CASE WebCreateTeam(c)
  <2>1. PICK a \in Users, t \in Teams \ teams : Checked(c, {<<t, a, "owner">>}, {}, FALSE)
    BY <1>9 DEF WebCreateTeam
  <2>2. Opened({<<t, a, "owner">>}, {})
    BY <1>0, <2>1, OneUserRow
  <2> QED BY <1>0, <2>1, <2>2
<1> QED BY <1>1, <1>2, <1>3, <1>4, <1>5, <1>6, <1>7, <1>8, <1>9 DEF Call

LEMMA IdleType == Idle \in TxType /\ Idle.pc = "idle" /\ Idle.users = {} /\ Idle.edges = {}
<1>1. NoRows \in Rows
  BY RowsFacts
<1> QED BY <1>1 DEF Idle, TxType, PCs

\* The steps that leave the tables alone.
LEMMA TxMoves ==
    ASSUME Inv, NEW c \in Clients, NEW t \in TxType, tx' = [tx EXCEPT ![c] = t],
           UNCHANGED <<teams, deleted, user, edge, access, refresh>>, changes' \in Nat,
           \A x \in t.users, y \in t.users : x = y,
           \A x \in t.edges, y \in t.edges : x = y,
           \A e \in t.edges : e[1] \in teams /\ (e[2] \in teams \/ \E x \in t.users : x[1] = e[2])
    PROVE  Inv'
<1>1. tx' \in [Clients -> TxType] /\ tx'[c] = t /\ \A d \in Clients : d # c => tx'[d] = tx[d]
  BY DEF Inv, Shapes
<1>2. \A d \in Clients :
          /\ tx'[d].pc \in PCs /\ tx'[d].sync \in BOOLEAN
          /\ tx'[d].users \subseteq UserRow /\ tx'[d].edges \subseteq EdgeRow
          /\ tx'[d].new \in Rows
  BY <1>1 DEF TxType
<1>3. \A d \in Clients : DOMAIN tx'[d].new \subseteq Pairs
  BY <1>2, RowsFacts
<1>4. TypeOK'
  BY <1>2, <1>3 DEF Inv, TypeOK, PCs
<1>5. Shapes'
  BY <1>1 DEF Inv, Shapes
<1>6. ASSUME NEW d \in Clients PROVE TxOK(d)'
  BY <1>1 DEF Inv, TxOK
<1> QED BY <1>4, <1>5, <1>6 DEF Inv

LEMMA CheckedMoves ==
    ASSUME Inv, NEW c \in Clients, NEW users, NEW edges, NEW sync \in BOOLEAN,
           Opened(users, edges), Checked(c, users, edges, sync)
    PROVE  /\ Inv'
           /\ tx'[c] = [pc |-> "checked", users |-> users, edges |-> edges, sync |-> sync, new |-> NoRows]
<1>1. PICK t : t = [pc |-> "checked", users |-> users, edges |-> edges, sync |-> sync, new |-> NoRows]
  OBVIOUS
<1>3. tx' = [tx EXCEPT ![c] = t]
  BY <1>1 DEF Checked
<1>4. NoRows \in Rows /\ users \in SUBSET UserRow /\ edges \in SUBSET EdgeRow
  BY RowsFacts DEF Opened
<1>5. t \in TxType
  BY <1>1, <1>4, Zenon DEF TxType, PCs
<1>6. t.users = users /\ t.edges = edges
  BY <1>1
<1>7. changes' \in Nat
  BY DEF Checked, Inv, TypeOK
<1>8. /\ \A x \in t.users, y \in t.users : x = y
      /\ \A x \in t.edges, y \in t.edges : x = y
      /\ \A e \in t.edges : e[1] \in teams /\ (e[2] \in teams \/ \E x \in t.users : x[1] = e[2])
  BY <1>6 DEF Opened
<1>9. UNCHANGED <<teams, deleted, user, edge, access, refresh>>
  BY DEF Checked
<1>10. Inv'
  BY <1>3, <1>5, <1>7, <1>8, <1>9, TxMoves
<1>11. tx'[c] = t
  BY <1>3 DEF Inv, Shapes
<1> QED BY <1>1, <1>10, <1>11

LEMMA Writes ==
    ASSUME Inv, NEW c \in Clients, Write(c)
    PROVE  /\ Inv'
           /\ tx'[c].pc = "written" /\ tx'[c].users = tx[c].users /\ tx'[c].edges = tx[c].edges
           /\ tx'[c].sync <=> tx[c].sync
           /\ tx'[c].new = Refreshed(c)
<1>0. tx \in [Clients -> TxType] /\ tx[c] \in TxType
  BY DEF Inv, Shapes
<1>1. PICK t : t = [tx[c] EXCEPT !.pc = "written", !.new = Refreshed(c)]
  OBVIOUS
<1>3. tx' = [tx EXCEPT ![c] = t]
  BY <1>0, <1>1 DEF Write
<1>4. Refreshed(c) \in Rows
  BY RefreshedType
<1>5. t \in TxType
  BY <1>0, <1>1, <1>4 DEF TxType, PCs
<1>7. t.users = tx[c].users /\ t.edges = tx[c].edges /\ t.pc = "written" /\ t.new = Refreshed(c)
  BY <1>0, <1>1 DEF TxType
<1>7a. t.sync <=> tx[c].sync
  BY <1>0, <1>1 DEF TxType
<1>8. /\ \A x \in t.users, y \in t.users : x = y
      /\ \A x \in t.edges, y \in t.edges : x = y
      /\ \A e \in t.edges : e[1] \in teams /\ (e[2] \in teams \/ \E x \in t.users : x[1] = e[2])
  BY <1>7 DEF Inv, TxOK
<1>9. UNCHANGED <<teams, deleted, user, edge, access, refresh>> /\ changes' \in Nat
  BY DEF Write, Inv, TypeOK
<1>10. Inv'
  BY <1>3, <1>5, <1>8, <1>9, TxMoves
<1>11. tx'[c] = t
  BY <1>0, <1>3
<1> QED BY <1>7, <1>7a, <1>10, <1>11

LEMMA RollsBack ==
    ASSUME Inv, NEW c \in Clients, Rollback(c)
    PROVE  Inv'
<1>1. tx' = [tx EXCEPT ![c] = Idle]
  BY DEF Rollback
<1>2. UNCHANGED <<teams, deleted, user, edge, access, refresh>> /\ changes' \in Nat
  BY DEF Rollback, Inv, TypeOK
<1> QED BY <1>1, <1>2, IdleType, TxMoves

LEMMA Upserts ==
    ASSUME Inv, NEW n, DOMAIN n \subseteq Pairs, \A pr \in DOMAIN n : n[pr] \in SUBSET Roles
    PROVE  upsert_effective_access(n) \in [Users -> [Teams -> SUBSET Roles]]
<1>1. \A u \in Users, t \in Teams : access[u][t] \in SUBSET Roles
  BY DEF Inv, TypeOK
<1>2. \A u \in Users, t \in Teams :
         (IF <<u, t>> \in DOMAIN n THEN n[<<u, t>>] ELSE access[u][t]) \in SUBSET Roles
  BY <1>1
<1> QED BY <1>2 DEF upsert_effective_access

LEMMA Commits ==
    ASSUME Inv, NEW c \in Clients, Commit(c)
    PROVE  Inv'
<1>0. tx \in [Clients -> TxType] /\ tx[c] \in TxType
  BY DEF Inv, Shapes
<1>1. tx' \in [Clients -> TxType] /\ tx'[c] = Idle /\ \A d \in Clients : d # c => tx'[d] = tx[d]
  BY <1>0, IdleType DEF Commit
<1>2. \A d \in Clients :
          /\ tx'[d].pc \in PCs /\ tx'[d].sync \in BOOLEAN
          /\ tx'[d].users \subseteq UserRow /\ tx'[d].edges \subseteq EdgeRow
          /\ tx'[d].new \in Rows
  BY <1>1 DEF TxType
<1>3. \A d \in Clients : DOMAIN tx'[d].new \subseteq Pairs
  BY <1>2, RowsFacts
<1>4. tx[c].new \in Rows /\ tx[c].users \subseteq UserRow /\ tx[c].edges \subseteq EdgeRow
  BY <1>0 DEF TxType
<1>5. access' \in [Users -> [Teams -> SUBSET Roles]]
  BY <1>4, RowsFacts, Upserts DEF Commit
<1>6. /\ user' \in [Teams -> [Users -> RoleOrNone]] /\ edge' \in [Teams -> [Teams -> RoleOrNone]]
      /\ user' = UserSeen(c) /\ edge' = EdgeSeen(c)
  BY Seen DEF Commit
<1>7. teams' = teams \cup {x[1] : x \in tx[c].users} /\ teams' \subseteq Teams
  BY <1>4 DEF Commit, Inv, TypeOK, UserRow
<1>8. ASSUME NEW t \in Teams \ teams'
      PROVE  /\ \A u \in Users : user'[t][u] = "none"
             /\ \A m \in Teams : edge'[t][m] = "none" /\ edge'[m][t] = "none"
  <2>1. t \notin teams /\ \A x \in tx[c].users : x[1] # t
    BY <1>7
  <2>2. /\ \A u \in Users : user[t][u] = "none"
        /\ \A m \in Teams : edge[t][m] = "none" /\ edge[m][t] = "none"
    BY <2>1 DEF Inv, TypeOK
  <2>3. \A u \in Users, r \in RoleOrNone : <<t, u, r>> \notin tx[c].users
    BY <2>1
  <2>4. \A e \in tx[c].edges : e[1] # t /\ e[2] # t
    BY <2>1 DEF Inv, TxOK
  <2>5. \A m \in Teams, r \in RoleOrNone : <<t, m, r>> \notin tx[c].edges /\ <<m, t, r>> \notin tx[c].edges
    BY <2>4
  <2>6. \A u \in Users : UserSeen(c)[t][u] = user[t][u]
    BY <2>3, UnwrittenUser
  <2>7. \A m \in Teams : EdgeSeen(c)[t][m] = edge[t][m] /\ EdgeSeen(c)[m][t] = edge[m][t]
    BY <2>5, UnwrittenEdge
  <2> QED BY <1>6, <2>2, <2>6, <2>7
<1>9. UNCHANGED <<deleted, refresh, changes>>
  BY DEF Commit
<1>10. TypeOK'
  BY <1>2, <1>3, <1>5, <1>6, <1>7, <1>8, <1>9 DEF Inv, TypeOK, PCs
<1>11. Shapes'
  BY <1>1, <1>9 DEF Inv, Shapes
<1>12. ASSUME NEW d \in Clients PROVE TxOK(d)'
  BY <1>1, <1>7, IdleType DEF Inv, TxOK
<1> QED BY <1>10, <1>11, <1>12 DEF Inv

LEMMA Reconciles ==
    ASSUME Inv, RefreshRead \/ RefreshCompute \/ RefreshCommit
    PROVE  Inv'
<1>0. /\ UNCHANGED <<teams, deleted, user, edge, tx, changes>>
      /\ user \in [Teams -> [Users -> RoleOrNone]] /\ edge \in [Teams -> [Teams -> RoleOrNone]]
      /\ refresh \in RefreshType /\ refresh.orphans \subseteq refresh.pairs
      /\ refresh.pc = "computed" => DOMAIN refresh.new = refresh.pairs
  BY DEF RefreshRead, RefreshCompute, RefreshCommit, Inv, TypeOK, Shapes
<1>1. SUFFICES /\ access' \in [Users -> [Teams -> SUBSET Roles]]
               /\ refresh' \in RefreshType /\ refresh'.orphans \subseteq refresh'.pairs
               /\ refresh'.pc = "computed" => DOMAIN refresh'.new = refresh'.pairs
  <2>1. refresh'.pc \in {"idle", "read", "computed"} /\ refresh'.pairs \subseteq Pairs
    BY <1>1 DEF RefreshType
  <2>2. TypeOK'
    BY <1>0, <1>1, <2>1 DEF Inv, TypeOK
  <2>3. Shapes'
    BY <1>0, <1>1 DEF Inv, Shapes
  <2>4. \A c \in Clients : TxOK(c)'
    BY <1>0 DEF Inv, TxOK
  <2> QED BY <2>2, <2>3, <2>4 DEF Inv
<1>2. access \in [Users -> [Teams -> SUBSET Roles]]
  BY DEF Inv, TypeOK
<1>3. CASE RefreshRead
  <2>1. PICK implied : implied = {pr \in Pairs :
                         \E k \in 1 .. MAX_DAG_DEPTH : pr[2] \in Membership(user, edge, pr[1])[k]}
    OBVIOUS
  <2>2. PICK existing : existing = {pr \in Pairs : access[pr[1]][pr[2]] # {}}
    OBVIOUS
  <2>3. /\ refresh' = [pc |-> "read", pairs |-> implied \cup existing,
                       orphans |-> existing \ implied, new |-> NoRows]
        /\ access' = access
    BY <1>3, <2>1, <2>2 DEF RefreshRead
  <2>4. implied \subseteq Pairs /\ existing \subseteq Pairs /\ NoRows \in Rows
    BY <2>1, <2>2, RowsFacts
  <2> QED BY <1>2, <2>3, <2>4 DEF RefreshType
<1>4. CASE RefreshCompute
  <2>1. refresh.pairs \in SUBSET Pairs
    BY <1>0 DEF RefreshType
  <2>2. Recomputed(user, edge, refresh.pairs) \in Rows /\ DOMAIN Recomputed(user, edge, refresh.pairs) = refresh.pairs
    BY <1>0, <2>1, RecomputedType
  <2>3. /\ refresh' = [refresh EXCEPT !.pc = "computed", !.new = Recomputed(user, edge, refresh.pairs)]
        /\ access' = access
    BY <1>4 DEF RefreshCompute
  <2>4. /\ refresh' \in RefreshType /\ refresh'.pairs = refresh.pairs /\ refresh'.orphans = refresh.orphans
        /\ refresh'.new = Recomputed(user, edge, refresh.pairs)
    BY <1>0, <2>2, <2>3 DEF RefreshType
  <2> QED BY <1>0, <1>2, <2>2, <2>3, <2>4
<1>5. CASE RefreshCommit
  <2>1. PICK n : n = [pr \in refresh.pairs |-> IF pr \in refresh.orphans THEN {} ELSE refresh.new[pr]]
    OBVIOUS
  <2>2. access' = upsert_effective_access(n) /\ refresh' = Asleep
    BY <1>5, <2>1 DEF RefreshCommit
  <2>3. DOMAIN refresh.new = refresh.pairs /\ refresh.new \in Rows /\ refresh.pairs \in SUBSET Pairs
    BY <1>0, <1>5 DEF RefreshCommit, RefreshType
  <2>4. DOMAIN n \subseteq Pairs /\ \A pr \in DOMAIN n : n[pr] \in SUBSET Roles
    BY <2>1, <2>3, RowsFacts
  <2>5. access' \in [Users -> [Teams -> SUBSET Roles]]
    BY <2>2, <2>4, Upserts
  <2>6. NoRows \in Rows
    BY RowsFacts
  <2> QED BY <2>2, <2>5, <2>6 DEF Asleep, RefreshType
<1> QED BY <1>3, <1>4, <1>5

LEMMA InvInit == Init => Inv
<1> SUFFICES ASSUME Init PROVE Inv
  OBVIOUS
<1>0. tx = [c \in Clients |-> Idle] /\ refresh = Asleep /\ teams = DOMAIN Founder
  BY DEF Init
<1>1. tx \in [Clients -> TxType] /\ \A c \in Clients : tx[c] = Idle
  BY <1>0, IdleType
<1>2. refresh \in RefreshType /\ refresh.pc = "idle" /\ refresh.pairs = {} /\ refresh.orphans = {}
  BY <1>0, RowsFacts DEF Asleep, RefreshType
<1>3. Shapes
  BY <1>1, <1>2 DEF Shapes
<1>4. \A c \in Clients : TxOK(c)
  BY <1>1, IdleType DEF TxOK
<1>5. \A c \in Clients :
          /\ tx[c].pc \in {"idle", "checked", "written"} /\ tx[c].sync \in BOOLEAN
          /\ tx[c].users \subseteq UserRow /\ tx[c].edges \subseteq EdgeRow
          /\ DOMAIN tx[c].new \subseteq Pairs
  <2>1. \A c \in Clients : tx[c].new \in Rows /\ tx[c] \in TxType
    BY <1>1 DEF TxType
  <2>2. \A c \in Clients : DOMAIN tx[c].new \subseteq Pairs
    BY <2>1, RowsFacts
  <2> QED BY <2>1, <2>2 DEF TxType, PCs
<1>6. /\ user \in [Teams -> [Users -> RoleOrNone]] /\ edge \in [Teams -> [Teams -> RoleOrNone]]
      /\ access \in [Users -> [Teams -> SUBSET Roles]]
      /\ teams \subseteq Teams /\ deleted \subseteq teams /\ changes \in Nat
      /\ \A t \in Teams \ teams : /\ \A u \in Users : user[t][u] = "none"
                                  /\ \A m \in Teams : edge[t][m] = "none" /\ edge[m][t] = "none"
  BY Constants DEF Init, RoleOrNone
<1>7. TypeOK
  BY <1>2, <1>5, <1>6 DEF TypeOK
<1> QED BY <1>3, <1>4, <1>7 DEF Inv

LEMMA InvNext == Inv /\ [Next]_vars => Inv'
<1> SUFFICES ASSUME Inv, [Next]_vars PROVE Inv'
  OBVIOUS
<1>1. ASSUME NEW c \in Clients, Call(c) PROVE Inv'
  <2>0. TypeOK
    BY DEF Inv
  <2>1. \E users, edges, sync : Opened(users, edges) /\ sync \in BOOLEAN /\ Checked(c, users, edges, sync)
    BY <1>1, <2>0, Calls
  <2>2. PICK users, edges, sync : Opened(users, edges) /\ sync \in BOOLEAN /\ Checked(c, users, edges, sync)
    BY <2>1
  <2> QED BY <2>2, CheckedMoves
<1>2. ASSUME NEW c \in Clients, Write(c) \/ Commit(c) \/ Rollback(c) PROVE Inv'
  BY <1>2, Writes, Commits, RollsBack
<1>3. CASE WebDeleteTeam
  <2>1. UNCHANGED <<teams, user, edge, access, tx, refresh>> /\ deleted' \subseteq teams /\ changes' \in Nat
    BY <1>3 DEF WebDeleteTeam, Inv, TypeOK
  <2> QED BY <2>1 DEF Inv, TypeOK, Shapes, TxOK
<1>4. CASE RefreshRead \/ RefreshCompute \/ RefreshCommit
  BY <1>4, Reconciles
<1>5. CASE UNCHANGED vars
  BY <1>5 DEF Inv, TypeOK, Shapes, TxOK, vars
<1> QED BY <1>1, <1>2, <1>3, <1>4, <1>5 DEF Next

\* The tables, transactions and the reconciler stay well-formed, and only existing
\* teams have members, whatever the calls and their order.
THEOREM TypeCorrect == Spec => []TypeOK
<1>1. Init => Inv
  BY InvInit
<1>2. Inv /\ [Next]_vars => Inv'
  BY InvNext
<1>3. Inv => TypeOK
  BY DEF Inv
<1> QED BY <1>1, <1>2, <1>3, PTL DEF Spec

----------------------------------------------------------------------------
(* The bound on chains.  The advisory lock lets one transaction at a time    *)
(* hold changes of the graph, so that what it has checked stays true until   *)
(* it commits.                                                               *)

OneGraphWriter ==
    \A c \in Clients, d \in Clients :
       tx[c].pc = "written" /\ tx[c].edges # {} /\ tx[d].pc = "written" /\ tx[d].edges # {} => c = d

GraphInv ==
    /\ OneGraphWriter
    /\ Ranked(edge)
    /\ \A c \in Clients : tx[c].pc = "written" => Ranked(EdgeSeen(c))

LEMMA FewerEdgesRanked ==
    ASSUME NEW E, Ranked(E), NEW F, \A q \in Teams, r \in Teams : F[q][r] # "none" => E[q][r] # "none"
    PROVE  Ranked(F)
BY DEF Ranked, RanksEdges

LEMMA WrittenRanked ==
    ASSUME Inv, Ranked(edge), NEW c \in Clients, EdgesAllowed(c)
    PROVE  Ranked(EdgeSeen(c))
<1>0. /\ tx[c].edges \subseteq EdgeRow /\ \A x \in tx[c].edges, y \in tx[c].edges : x = y
  BY DEF Inv, TypeOK, TxOK
<1>1. CASE tx[c].edges = {}
  <2>1. \A p \in Teams, m \in Teams : EdgeSeen(c)[p][m] = edge[p][m]
    BY <1>1, Seen
  <2> QED BY <2>1, FewerEdgesRanked
<1>2. CASE tx[c].edges # {}
  <2>1. PICK e \in tx[c].edges : TRUE
    BY <1>2
  <2>2. e \in Teams \X Teams \X RoleOrNone
    BY <1>0, <2>1 DEF EdgeRow
  <2>3. PICK p \in Teams, m \in Teams, r \in RoleOrNone : e = <<p, m, r>>
    BY <2>2
  <2>4. EdgeSeen(c)[p][m] = r
    BY <2>1, <2>3, Seen
  <2>5. ASSUME NEW q \in Teams, NEW s \in Teams, ~(q = p /\ s = m) PROVE EdgeSeen(c)[q][s] = edge[q][s]
    <3>1. \A i \in RoleOrNone : <<q, s, i>> \notin tx[c].edges
      BY <1>0, <2>1, <2>3, <2>5
    <3> QED BY <3>1, Seen
  <2>6. CASE r = "none"
    <3>1. \A q \in Teams, s \in Teams : EdgeSeen(c)[q][s] # "none" => edge[q][s] # "none"
      BY <2>4, <2>5, <2>6
    <3> QED BY <3>1, FewerEdgesRanked
  <2>7. CASE r # "none"
    <3>1. can_add_team_as_member(edge, p, m)
      <4>1. e[3] = r /\ e[1] = p /\ e[2] = m
        BY <2>3
      <4> QED BY <2>1, <2>7, <4>1 DEF EdgesAllowed
    <3>2. \A q \in Teams, s \in Teams : EdgeSeen(c)[q][s] # "none" => edge[q][s] # "none" \/ (q = p /\ s = m)
      BY <2>5
    <3> QED BY <3>1, <3>2, AddedEdgeRanked
  <2> QED BY <2>6, <2>7
<1> QED BY <1>1, <1>2

LEMMA SeenAgain ==
    ASSUME NEW d, tx'[d].edges = tx[d].edges, edge' = edge
    PROVE  EdgeSeen(d)' = EdgeSeen(d)
BY DEF EdgeSeen

LEMMA GraphNext == Inv /\ GraphInv /\ [Next]_vars => GraphInv'
<1> SUFFICES ASSUME Inv, GraphInv, [Next]_vars PROVE GraphInv'
  OBVIOUS
<1>0. Inv' /\ tx \in [Clients -> TxType]
  BY InvNext DEF Inv, Shapes
<1>1. ASSUME NEW c \in Clients, Call(c) PROVE GraphInv'
  <2>0. TypeOK
    BY DEF Inv
  <2>1. \E users, edges, sync : Opened(users, edges) /\ sync \in BOOLEAN /\ Checked(c, users, edges, sync)
    BY <1>1, <2>0, Calls
  <2>2. PICK users, edges, sync : Opened(users, edges) /\ sync \in BOOLEAN /\ Checked(c, users, edges, sync)
    BY <2>1
  <2>3. tx'[c].pc = "checked" /\ (\A d \in Clients : d # c => tx'[d] = tx[d]) /\ edge' = edge
    BY <1>0, <2>2, CheckedMoves DEF Checked
  <2>4. \A d \in Clients : tx'[d].pc = "written" => tx'[d] = tx[d] /\ tx[d].pc = "written" /\ EdgeSeen(d)' = EdgeSeen(d)
    BY <2>3, SeenAgain
  <2> QED BY <2>3, <2>4 DEF GraphInv, OneGraphWriter
<1>2. ASSUME NEW c \in Clients, Write(c) PROVE GraphInv'
  <2>1. tx'[c].pc = "written" /\ tx'[c].edges = tx[c].edges /\ (\A d \in Clients : d # c => tx'[d] = tx[d]) /\ edge' = edge
    BY <1>0, <1>2, Writes DEF Write
  <2>2. Ranked(EdgeSeen(c))
    BY <1>2, WrittenRanked DEF GraphInv, Write
  <2>3. \A d \in Clients : tx'[d].edges = tx[d].edges
    BY <2>1
  <2>4. \A d \in Clients : EdgeSeen(d)' = EdgeSeen(d)
    BY <2>1, <2>3, SeenAgain
  <2>5. OneGraphWriter'
    <3>1. tx[c].edges = {} \/ \A d \in Clients \ {c} : ~(tx[d].pc = "written" /\ tx[d].edges # {})
      BY <1>2 DEF Write, DagLocked
    <3>2. OneGraphWriter
      BY DEF GraphInv
    <3> QED BY <2>1, <3>1, <3>2 DEF OneGraphWriter
  <2> QED BY <2>1, <2>2, <2>4, <2>5 DEF GraphInv
<1>3. ASSUME NEW c \in Clients, Commit(c) PROVE GraphInv'
  <2>1. tx'[c] = Idle /\ (\A d \in Clients : d # c => tx'[d] = tx[d]) /\ edge' = EdgeSeen(c) /\ tx[c].pc = "written"
    BY <1>0, <1>3 DEF Commit
  <2>2. Ranked(edge')
    BY <2>1 DEF GraphInv
  <2>3. OneGraphWriter'
    BY <2>1, IdleType DEF GraphInv, OneGraphWriter
  <2>4. ASSUME NEW d \in Clients, tx'[d].pc = "written" PROVE Ranked(EdgeSeen(d)')
    <3>1. d # c /\ tx'[d] = tx[d] /\ tx[d].pc = "written"
      BY <2>1, <2>4, IdleType
    <3>2. CASE tx[d].edges = {}
      <4>1. \A p \in Teams, m \in Teams : EdgeSeen(d)'[p][m] = edge'[p][m]
        BY <3>1, <3>2 DEF EdgeSeen
      <4> QED BY <2>2, <4>1, FewerEdgesRanked
    <3>3. CASE tx[d].edges # {}
      <4>1. tx[c].edges = {}
        BY <2>1, <3>1, <3>3 DEF GraphInv, OneGraphWriter
      <4>2. \A p \in Teams, m \in Teams : EdgeSeen(c)[p][m] = edge[p][m]
        BY <4>1, Seen
      <4>3. EdgeSeen(c) = edge
        BY <4>2, Seen DEF Inv, TypeOK
      <4>4. EdgeSeen(d)' = EdgeSeen(d)
        BY <2>1, <3>1, <4>3, SeenAgain
      <4> QED BY <3>1, <4>4 DEF GraphInv
    <3> QED BY <3>2, <3>3
  <2> QED BY <2>2, <2>3, <2>4 DEF GraphInv
<1>4. ASSUME NEW c \in Clients, Rollback(c) PROVE GraphInv'
  <2>1. tx'[c] = Idle /\ (\A d \in Clients : d # c => tx'[d] = tx[d]) /\ edge' = edge
    BY <1>0, <1>4 DEF Rollback
  <2>2. \A d \in Clients : tx'[d].pc = "written" => tx'[d] = tx[d] /\ tx[d].pc = "written" /\ EdgeSeen(d)' = EdgeSeen(d)
    BY <2>1, IdleType, SeenAgain
  <2> QED BY <2>1, <2>2, IdleType DEF GraphInv, OneGraphWriter
<1>5. CASE WebDeleteTeam \/ RefreshRead \/ RefreshCompute \/ RefreshCommit \/ UNCHANGED vars
  <2>1. tx' = tx /\ edge' = edge
    BY <1>5 DEF WebDeleteTeam, RefreshRead, RefreshCompute, RefreshCommit, vars
  <2>2. \A d \in Clients : EdgeSeen(d)' = EdgeSeen(d)
    BY <2>1, SeenAgain
  <2> QED BY <2>1, <2>2 DEF GraphInv, OneGraphWriter
<1> QED BY <1>1, <1>2, <1>3, <1>4, <1>5 DEF Next

\* No chain of teams is longer than MAX_DAG_DEPTH and there is no cycle, for any
\* number of concurrent calls: an edge is checked by can_add_team_as_member and
\* committed under the advisory lock of acquire_dag_lock.
THEOREM ChainsAreBounded == Spec => []DepthBounded
<1>1. Init => Inv /\ GraphInv
  <2> SUFFICES ASSUME Init PROVE Inv /\ GraphInv
    OBVIOUS
  <2>1. \A c \in Clients : tx[c].pc = "idle"
    BY IdleType DEF Init
  <2>2. PICK h : h = [t \in Teams |-> 0]
    OBVIOUS
  <2>3. \A p \in Teams, m \in Teams : edge[p][m] = "none"
    BY DEF Init
  <2>4. RanksEdges(edge, h)
    BY <2>2, <2>3, Constants DEF RanksEdges, MaxK
  <2> QED BY <2>1, <2>4, InvInit DEF GraphInv, OneGraphWriter, Ranked
<1>2. Inv /\ GraphInv /\ [Next]_vars => Inv' /\ GraphInv'
  BY InvNext, GraphNext
<1>3. GraphInv => DepthBounded
  BY RankBoundsChains DEF GraphInv, DepthBounded
<1> QED BY <1>1, <1>2, <1>3, PTL DEF Spec

----------------------------------------------------------------------------
(* The cache.  A change of one assignment can only alter the access of the   *)
(* pairs that the call recomputes.                                           *)

\* The roles of a user in a team: the user's own, and those of the teams that
\* the user is in, over at most MAX_DAG_DEPTH - 1 edges.
LEMMA EffectiveRoles ==
    ASSUME NEW U, NEW E, NEW u, NEW t
    PROVE  \A r : r \in recompute_effective_access(U, E, u, t) <=>
              /\ r # "none"
              /\ \/ r = U[t][u]
                 \/ \E s \in Teams, k \in 0 .. MAX_DAG_DEPTH - 2 :
                       U[s][u] # "none" /\ \E m \in Teams : m \in Above(E, s)[k] /\ r = E[t][m]
<1>0. MAX_DAG_DEPTH \in Nat
  BY Constants
<1> DEFINE M == UNION {Membership(U, E, u)[k] : k \in 1 .. MAX_DAG_DEPTH - 1}
<1>1. \A k \in 1 .. MAX_DAG_DEPTH - 1 : Membership(U, E, u)[k] =
         {m \in Teams : \E s \in Teams : U[s][u] # "none" /\ m \in Above(E, s)[k - 1]}
  BY <1>0, MembershipDef
<1>2. \A m : m \in M <=> \E k \in 1 .. MAX_DAG_DEPTH - 1 : m \in Membership(U, E, u)[k]
  OBVIOUS
<1>3. ASSUME NEW m, m \in M
      PROVE  m \in Teams /\ \E s \in Teams, k \in 0 .. MAX_DAG_DEPTH - 2 : U[s][u] # "none" /\ m \in Above(E, s)[k]
  <2>1. PICK k \in 1 .. MAX_DAG_DEPTH - 1 : m \in Membership(U, E, u)[k]
    BY <1>2, <1>3
  <2>2. k - 1 \in 0 .. MAX_DAG_DEPTH - 2
    BY <1>0
  <2> QED BY <1>1, <2>1, <2>2
<1>4. ASSUME NEW m \in Teams, NEW s \in Teams, NEW k \in 0 .. MAX_DAG_DEPTH - 2,
             U[s][u] # "none", m \in Above(E, s)[k]
      PROVE  m \in M
  <2>1. k + 1 \in 1 .. MAX_DAG_DEPTH - 1 /\ (k + 1) - 1 = k
    BY <1>0
  <2>2. m \in Membership(U, E, u)[k + 1]
    BY <1>1, <1>4, <2>1
  <2> QED BY <1>2, <2>1, <2>2
<1>5. \A r : r \in recompute_effective_access(U, E, u, t) <=>
         r # "none" /\ (r = U[t][u] \/ \E m \in M : r = E[t][m])
  BY DEF recompute_effective_access
<1> HIDE DEF M
<1> QED BY <1>3, <1>4, <1>5

LEMMA AncestorStep ==
    ASSUME NEW E, NEW p \in Teams, NEW j \in 0 .. MAX_DAG_DEPTH - 2, NEW m \in Above(E, p)[j],
           NEW t \in Teams, E[t][m] # "none"
    PROVE  t \in walk_ancestors(E, p)
<1>0. MAX_DAG_DEPTH \in Nat
  BY Constants
<1>1. j \in 0 .. MAX_DAG_DEPTH - 1 /\ j + 1 \in 1 .. MAX_DAG_DEPTH
  BY <1>0
<1>2. Above(E, p)[j + 1] = {x \in Teams : \E y \in Above(E, p)[j] : E[x][y] # "none"}
  BY <1>1, AboveStep
<1>3. t \in Above(E, p)[j + 1]
  BY <1>2
<1> QED BY <1>1, <1>3 DEF walk_ancestors

LEMMA UserChangeHalf ==
    ASSUME NEW U, NEW V, NEW E, NEW t0 \in Teams, NEW u0 \in Users,
           \A s \in Teams, v \in Users : ~(s = t0 /\ v = u0) => U[s][v] = V[s][v],
           NEW u \in Users, NEW t \in Teams,
           <<u, t>> \notin sync_refresh_on_user_assignment(E, t0, u0)
    PROVE  recompute_effective_access(U, E, u, t) \subseteq recompute_effective_access(V, E, u, t)
<1> SUFFICES ASSUME NEW r, r \in recompute_effective_access(U, E, u, t)
             PROVE  r \in recompute_effective_access(V, E, u, t)
  OBVIOUS
<1>1. ~(u = u0 /\ (t = t0 \/ t \in walk_ancestors(E, t0)))
  BY DEF sync_refresh_on_user_assignment
<1>2. r # "none"
  BY EffectiveRoles
<1>3. CASE r = U[t][u]
  <2>1. r = V[t][u]
    BY <1>1, <1>3
  <2> QED BY <1>2, <2>1, EffectiveRoles
<1>4. ASSUME NEW s \in Teams, NEW k \in 0 .. MAX_DAG_DEPTH - 2, NEW m \in Teams,
             U[s][u] # "none", m \in Above(E, s)[k], r = E[t][m]
      PROVE  r \in recompute_effective_access(V, E, u, t)
  <2>1. CASE s = t0 /\ u = u0
    BY <1>1, <1>2, <1>4, <2>1, AncestorStep
  <2>2. CASE ~(s = t0 /\ u = u0)
    <3>1. V[s][u] # "none"
      BY <1>4, <2>2
    <3> QED BY <1>2, <1>4, <3>1, EffectiveRoles
  <2> QED BY <2>1, <2>2
<1>5. r = U[t][u] \/ \E s \in Teams, k \in 0 .. MAX_DAG_DEPTH - 2 :
         U[s][u] # "none" /\ \E m \in Teams : m \in Above(E, s)[k] /\ r = E[t][m]
  BY EffectiveRoles
<1> QED BY <1>3, <1>4, <1>5

\* A chain of graph A either is a chain of B, which differs in the edge from p0
\* to m0 only, or passes that edge; F is one of the two.
Splits(B, F, p0, m0, s, k, x) ==
    \/ x \in Above(B, s)[k]
    \/ /\ \E i \in 0 .. k : m0 \in Above(F, s)[i]
       /\ \E j \in 0 .. k : x \in Above(F, p0)[j]

LEMMA ChainSplit ==
    ASSUME NEW A, NEW B, NEW F, F = A \/ F = B, NEW p0 \in Teams, NEW m0 \in Teams,
           \A q \in Teams, r \in Teams : ~(q = p0 /\ r = m0) => A[q][r] = B[q][r],
           NEW s \in Teams
    PROVE  \A k \in MaxK : \A x \in Above(A, s)[k] : Splits(B, F, p0, m0, s, k, x)
<1>0. MAX_DAG_DEPTH \in Nat
  BY Constants
<1> DEFINE Parts(k, x) == \/ x \in Above(B, s)[k]
                           \/ /\ \E i \in 0 .. k : m0 \in Above(F, s)[i]
                              /\ \E j \in 0 .. k : x \in Above(F, p0)[j]
           S == {k \in Nat : \A x \in Above(A, s)[k] : Parts(k, x)}
<1>1. 0 \in S
  <2>1. Above(A, s)[0] = {s} /\ Above(B, s)[0] = {s}
    BY AboveDef
  <2> QED BY <2>1
<1>2. ASSUME NEW k \in 0 .. MAX_DAG_DEPTH - 1, k \in S PROVE k + 1 \in S
  <2>0. k \in Nat /\ k + 1 \in Nat /\ 0 .. k \subseteq 0 .. k + 1
    BY <1>0
  <2>1. ASSUME NEW x \in Above(A, s)[k + 1] PROVE Parts(k + 1, x)
    <3>1. x \in Teams /\ \E y \in Above(A, s)[k] : A[x][y] # "none"
      BY <2>1, AboveStep
    <3>2. PICK y \in Above(A, s)[k] : A[x][y] # "none"
      BY <3>1
    <3>3. y \in Teams /\ Parts(k, y)
      BY <1>2, <3>2, AboveStep
    <3>4. CASE x = p0 /\ y = m0
      <4>1. Above(F, p0)[0] = {p0} /\ 0 \in 0 .. k + 1
        BY <2>0, AboveDef
      <4>2. CASE y \in Above(B, s)[k]
        <5>1. m0 \in Above(F, s)[k] /\ k \in 0 .. k + 1
          BY <2>0, <3>2, <3>4, <4>2
        <5> QED BY <3>4, <4>1, <5>1
      <4>3. CASE \E i \in 0 .. k : m0 \in Above(F, s)[i]
        BY <2>0, <3>4, <4>1, <4>3
      <4> QED BY <3>3, <4>2, <4>3
    <3>5. CASE ~(x = p0 /\ y = m0)
      <4>1. A[x][y] = B[x][y] /\ F[x][y] # "none" /\ B[x][y] # "none"
        BY <3>1, <3>2, <3>3, <3>5
      <4>2. CASE y \in Above(B, s)[k]
        <5>1. x \in Above(B, s)[k + 1]
          BY <3>1, <4>1, <4>2, AboveStep
        <5> QED BY <5>1
      <4>3. ASSUME NEW j \in 0 .. k, y \in Above(F, p0)[j], \E i \in 0 .. k : m0 \in Above(F, s)[i]
            PROVE  Parts(k + 1, x)
        <5>1. j \in 0 .. MAX_DAG_DEPTH - 1 /\ j + 1 \in 0 .. k + 1
          BY <1>0
        <5>2. x \in Above(F, p0)[j + 1]
          BY <3>1, <4>1, <4>3, <5>1, AboveStep
        <5> QED BY <2>0, <4>3, <5>1, <5>2
      <4> QED BY <3>3, <4>2, <4>3
    <3> QED BY <3>4, <3>5
  <2> QED BY <2>0, <2>1
<1>3. \A k \in 0 .. MAX_DAG_DEPTH : k \in S
  <2> HIDE DEF S
  <2> QED BY <1>0, <1>1, <1>2, UpTo
<1> QED BY <1>3 DEF MaxK, Splits

LEMMA EdgeChangeHalf ==
    ASSUME NEW U, NEW A, NEW B, NEW F, F = A \/ F = B, NEW p0 \in Teams, NEW m0 \in Teams,
           \A q \in Teams, r \in Teams : ~(q = p0 /\ r = m0) => A[q][r] = B[q][r],
           NEW u \in Users, NEW t \in Teams,
           <<u, t>> \notin cascade_on_team_member_change(U, F, p0, m0)
    PROVE  recompute_effective_access(U, A, u, t) \subseteq recompute_effective_access(U, B, u, t)
<1> SUFFICES ASSUME NEW r, r \in recompute_effective_access(U, A, u, t)
             PROVE  r \in recompute_effective_access(U, B, u, t)
  OBVIOUS
<1>0. MAX_DAG_DEPTH \in Nat
  BY Constants
<1>1. ~(/\ \E d \in {m0} \cup walk_descendants(F, m0) : U[d][u] # "none"
        /\ t = p0 \/ t \in walk_ancestors(F, p0))
  BY DEF cascade_on_team_member_change
<1>2. r # "none"
  BY EffectiveRoles
<1>3. ASSUME NEW s \in Teams, NEW i \in 0 .. MAX_DAG_DEPTH - 2, m0 \in Above(F, s)[i]
      PROVE  s \in {m0} \cup walk_descendants(F, m0)
  <2>1. i \in MaxK
    BY <1>0 DEF MaxK
  <2>2. s \in Below(F, m0)[i]
    BY <1>3, <2>1, AboveIsBelow
  <2>3. CASE i = 0
    BY <2>2, <2>3, BelowDef
  <2>4. CASE i # 0
    <3>1. i \in 1 .. MAX_DAG_DEPTH
      BY <1>0, <2>4
    <3> QED BY <2>2, <3>1 DEF walk_descendants
  <2> QED BY <2>3, <2>4
<1>4. CASE r = U[t][u]
  BY <1>2, <1>4, EffectiveRoles
<1>5. ASSUME NEW s \in Teams, NEW k \in 0 .. MAX_DAG_DEPTH - 2, NEW m \in Teams,
             U[s][u] # "none", m \in Above(A, s)[k], r = A[t][m]
      PROVE  r \in recompute_effective_access(U, B, u, t)
  <2>0. k \in MaxK
    BY <1>0 DEF MaxK
  <2>1. \/ m \in Above(B, s)[k]
        \/ /\ \E i \in 0 .. k : m0 \in Above(F, s)[i]
           /\ \E j \in 0 .. k : m \in Above(F, p0)[j]
    <3>1. \A l \in MaxK : \A x \in Above(A, s)[l] : Splits(B, F, p0, m0, s, l, x)
      BY ChainSplit
    <3> QED BY <1>5, <2>0, <3>1 DEF Splits
  <2>2. CASE m \in Above(B, s)[k] /\ ~(t = p0 /\ m = m0)
    <3>1. r = B[t][m]
      BY <1>5, <2>2
    <3> QED BY <1>2, <1>5, <2>2, <3>1, EffectiveRoles
  <2>3. CASE m \in Above(B, s)[k] /\ t = p0 /\ m = m0
    <3>1. m0 \in Above(F, s)[k]
      BY <1>5, <2>3
    <3>2. s \in {m0} \cup walk_descendants(F, m0)
      BY <1>3, <3>1
    <3> QED BY <1>1, <1>5, <2>3, <3>2
  <2>4. ASSUME NEW i \in 0 .. k, NEW j \in 0 .. k, m0 \in Above(F, s)[i], m \in Above(F, p0)[j]
        PROVE  FALSE
    <3>1. i \in 0 .. MAX_DAG_DEPTH - 2 /\ j \in 0 .. MAX_DAG_DEPTH - 2
      BY <1>0
    <3>2. s \in {m0} \cup walk_descendants(F, m0)
      BY <1>3, <2>4, <3>1
    <3>3. t # p0 /\ t \notin walk_ancestors(F, p0)
      BY <1>1, <1>5, <3>2
    <3>4. F[t][m] # "none"
      BY <1>2, <1>5, <3>3
    <3> QED BY <2>4, <3>1, <3>3, <3>4, AncestorStep
  <2> QED BY <2>1, <2>2, <2>3, <2>4
<1>6. r = U[t][u] \/ \E s \in Teams, k \in 0 .. MAX_DAG_DEPTH - 2 :
         U[s][u] # "none" /\ \E m \in Teams : m \in Above(A, s)[k] /\ r = A[t][m]
  BY EffectiveRoles
<1> QED BY <1>4, <1>5, <1>6

\* A commit that SyncedAccess speaks of: its change is one that is refreshed at once
\* and what it has computed is what the tables still imply.
Synced(c) ==
    /\ Commit(c)
    /\ \/ tx[c].edges = {} /\ ~tx[c].sync
       \/ tx[c].users = {} /\ tx[c].sync
    /\ tx[c].new = Refreshed(c)
    /\ CacheAgrees

LEMMA CommitSyncs ==
    ASSUME Inv, NEW c \in Clients, Synced(c), NEW u \in Users, NEW t \in Teams
    PROVE  access'[u][t] = recompute_effective_access(user', edge', u, t)
<1>0. /\ tx[c].users \subseteq Teams \X Users \X RoleOrNone
      /\ tx[c].edges \subseteq Teams \X Teams \X RoleOrNone
      /\ \A x \in tx[c].users, y \in tx[c].users : x = y
      /\ \A x \in tx[c].edges, y \in tx[c].edges : x = y
      /\ user \in [Teams -> [Users -> RoleOrNone]] /\ edge \in [Teams -> [Teams -> RoleOrNone]]
      /\ tx[c].pc = "written"
  BY DEF Inv, TypeOK, TxOK, UserRow, EdgeRow, Synced, Commit
<1>1. user' = UserSeen(c) /\ edge' = EdgeSeen(c)
  BY DEF Synced, Commit
<1>2. access'[u][t] = IF <<u, t>> \in DOMAIN Refreshed(c) THEN Refreshed(c)[<<u, t>>] ELSE access[u][t]
  BY <1>0 DEF Synced, Commit, upsert_effective_access
<1>3. access[u][t] = recompute_effective_access(user, edge, u, t)
  BY DEF Synced, CacheAgrees, Effective
<1>4. PICK pairs : pairs = UNION {sync_refresh_on_user_assignment(edge, x[1], x[2]) : x \in tx[c].users}
  OBVIOUS
<1>5. PICK cascade : cascade = UNION {cascade_on_team_member_change(user, EdgeSeen(c), e[1], e[2]) : e \in tx[c].edges}
  OBVIOUS
<1>6. Refreshed(c) = IF tx[c].sync THEN Recomputed(user, EdgeSeen(c), cascade)
                                   ELSE Recomputed(UserSeen(c), edge, pairs)
  BY <1>4, <1>5 DEF Refreshed
<1>7. CASE tx[c].edges = {} /\ ~tx[c].sync
  <2>1. \A p \in Teams, m \in Teams : EdgeSeen(c)[p][m] = edge[p][m]
    BY <1>7, UnwrittenEdge
  <2>2. EdgeSeen(c) = edge
    BY <1>0, <2>1, Seen
  <2>3. Refreshed(c) = Recomputed(UserSeen(c), edge, pairs)
    BY <1>6, <1>7
  <2>4. CASE <<u, t>> \in pairs
    BY <1>1, <1>2, <2>2, <2>3, <2>4 DEF Recomputed
  <2>5. CASE <<u, t>> \notin pairs
    <3>1. access'[u][t] = recompute_effective_access(user, edge, u, t)
      BY <1>2, <1>3, <2>3, <2>5 DEF Recomputed
    <3>2. CASE tx[c].users = {}
      <4>1. \A s \in Teams, v \in Users : UserSeen(c)[s][v] = user[s][v]
        BY <3>2, UnwrittenUser
      <4>2. UserSeen(c) = user
        BY <1>0, <4>1, Seen
      <4> QED BY <1>1, <2>2, <3>1, <4>2
    <3>3. CASE tx[c].users # {}
      <4>1. PICK x \in tx[c].users : TRUE
        BY <3>3
      <4>2. PICK t0 \in Teams, u0 \in Users, r \in RoleOrNone : x = <<t0, u0, r>>
        BY <1>0, <4>1
      <4>3. ASSUME NEW s \in Teams, NEW v \in Users, ~(s = t0 /\ v = u0) PROVE UserSeen(c)[s][v] = user[s][v]
        <5>1. \A q \in RoleOrNone : <<s, v, q>> \notin tx[c].users
          BY <1>0, <4>1, <4>2, <4>3
        <5> QED BY <5>1, Seen
      <4>4. <<u, t>> \notin sync_refresh_on_user_assignment(edge, t0, u0)
        <5>1. x[1] = t0 /\ x[2] = u0
          BY <4>2
        <5> QED BY <1>4, <2>5, <4>1, <5>1
      <4>5. PICK U : U = user
        OBVIOUS
      <4>6. PICK V : V = UserSeen(c)
        OBVIOUS
      <4>7. PICK E : E = edge
        OBVIOUS
      <4>8. /\ \A s \in Teams, v \in Users : ~(s = t0 /\ v = u0) => U[s][v] = V[s][v]
            /\ \A s \in Teams, v \in Users : ~(s = t0 /\ v = u0) => V[s][v] = U[s][v]
            /\ <<u, t>> \notin sync_refresh_on_user_assignment(E, t0, u0)
        BY <4>3, <4>4, <4>5, <4>6, <4>7
      <4>9. recompute_effective_access(U, E, u, t) \subseteq recompute_effective_access(V, E, u, t)
        BY <4>8, UserChangeHalf
      <4>10. recompute_effective_access(V, E, u, t) \subseteq recompute_effective_access(U, E, u, t)
        BY <4>8, UserChangeHalf
      <4>11. recompute_effective_access(U, E, u, t) = recompute_effective_access(V, E, u, t)
        BY <4>9, <4>10
      <4>12. user' = V /\ edge' = E /\ access'[u][t] = recompute_effective_access(U, E, u, t)
        BY <1>1, <2>2, <3>1, <4>5, <4>6, <4>7
      <4> QED BY <4>11, <4>12
    <3> QED BY <3>2, <3>3
  <2> QED BY <2>4, <2>5
<1>8. CASE tx[c].users = {} /\ tx[c].sync
  <2>1. \A s \in Teams, v \in Users : UserSeen(c)[s][v] = user[s][v]
    BY <1>8, Seen
  <2>2. UserSeen(c) = user
    BY <1>0, <2>1, Seen
  <2>3. Refreshed(c) = Recomputed(user, EdgeSeen(c), cascade)
    BY <1>6, <1>8
  <2>4. CASE <<u, t>> \in cascade
    BY <1>1, <1>2, <2>2, <2>3, <2>4 DEF Recomputed
  <2>5. CASE <<u, t>> \notin cascade
    <3>1. access'[u][t] = recompute_effective_access(user, edge, u, t)
      BY <1>2, <1>3, <2>3, <2>5 DEF Recomputed
    <3>2. CASE tx[c].edges = {}
      <4>1. \A p \in Teams, m \in Teams : EdgeSeen(c)[p][m] = edge[p][m]
        BY <3>2, UnwrittenEdge
      <4>2. EdgeSeen(c) = edge
        BY <1>0, <4>1, Seen
      <4> QED BY <1>1, <2>2, <3>1, <4>2
    <3>3. CASE tx[c].edges # {}
      <4>1. PICK e \in tx[c].edges : TRUE
        BY <3>3
      <4>2. PICK p0 \in Teams, m0 \in Teams, r \in RoleOrNone : e = <<p0, m0, r>>
        BY <1>0, <4>1
      <4>3. ASSUME NEW q \in Teams, NEW s \in Teams, ~(q = p0 /\ s = m0) PROVE EdgeSeen(c)[q][s] = edge[q][s]
        <5>1. \A i \in RoleOrNone : <<q, s, i>> \notin tx[c].edges
          BY <1>0, <4>1, <4>2, <4>3
        <5> QED BY <5>1, Seen
      <4>4. <<u, t>> \notin cascade_on_team_member_change(user, EdgeSeen(c), p0, m0)
        <5>1. e[1] = p0 /\ e[2] = m0
          BY <4>2
        <5> QED BY <1>5, <2>5, <4>1, <5>1
      <4>5. PICK U : U = user
        OBVIOUS
      <4>6. PICK F : F = EdgeSeen(c)
        OBVIOUS
      <4>7. PICK E : E = edge
        OBVIOUS
      <4>8. /\ \A q \in Teams, s \in Teams : ~(q = p0 /\ s = m0) => E[q][s] = F[q][s]
            /\ \A q \in Teams, s \in Teams : ~(q = p0 /\ s = m0) => F[q][s] = E[q][s]
            /\ <<u, t>> \notin cascade_on_team_member_change(U, F, p0, m0)
            /\ F = E \/ F = F
        BY <4>3, <4>4, <4>5, <4>6, <4>7
      <4>9. recompute_effective_access(U, E, u, t) \subseteq recompute_effective_access(U, F, u, t)
        BY <4>8, EdgeChangeHalf, Zenon
      <4>10. recompute_effective_access(U, F, u, t) \subseteq recompute_effective_access(U, E, u, t)
        BY <4>8, EdgeChangeHalf, Zenon
      <4>11. recompute_effective_access(U, E, u, t) = recompute_effective_access(U, F, u, t)
        BY <4>9, <4>10
      <4>12. user' = U /\ edge' = F /\ access'[u][t] = recompute_effective_access(U, E, u, t)
        BY <1>1, <2>2, <3>1, <4>5, <4>6, <4>7
      <4> QED BY <4>11, <4>12
    <3> QED BY <3>2, <3>3
  <2> QED BY <2>4, <2>5
<1> QED BY <1>7, <1>8 DEF Synced

\* A commit of a direct change, or of a change between teams with force_sync, leaves
\* the cache agreeing with the memberships if it did before, for every user and every
\* team of a graph of any size and with any number of callers and reconcilers, as long
\* as no other commit has made what it computed stale: the rows that
\* sync_refresh_on_user_assignment and cascade_on_team_member_change recompute are all
\* that a change can alter.
THEOREM AccessIsSynced == Spec => SyncedAccess
<1>1. ASSUME Inv, NEW c \in Clients, Synced(c) PROVE CacheAgrees'
  <2>1. \A u \in Users, t \in Teams : access'[u][t] = recompute_effective_access(user', edge', u, t)
    BY <1>1, CommitSyncs
  <2> QED BY <2>1 DEF CacheAgrees, Effective
<1>2. Inv /\ [Next]_vars => [\A c \in Clients : Synced(c) => CacheAgrees']_vars
  BY <1>1
<1>3. Init => Inv
  BY InvInit
<1>4. Inv /\ [Next]_vars => Inv'
  BY InvNext
<1> QED BY <1>2, <1>3, <1>4, PTL DEF Spec, SyncedAccess, Synced
=============================================================================
