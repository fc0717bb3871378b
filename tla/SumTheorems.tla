---------------------------- MODULE SumTheorems ----------------------------
(***************************************************************************)
(* What MapThenSumSet computes.  The library folds over a set in an order   *)
(* that CHOOSE leaves open; here it is shown that the order does not matter  *)
(* for the sum of a function over a finite set.  An induction over a finite  *)
(* set is the choice of a smallest counterexample (Smallest).                *)
(***************************************************************************)
EXTENDS FiniteSetsExt, FiniteSetTheorems, TLAPS

Pick(s) == CHOOSE x \in s : TRUE

\* g sums F over every subset of S, taking the elements in the order of Pick.
Sums(F, S, g) ==
  g = [s \in SUBSET S |-> IF s = {} THEN 0 ELSE F[Pick(s)] + g[s \ {Pick(s)}]]

SumOver(F, S) == MapThenSumSet(LAMBDA x : F[x], S)

Integral(F, S) == \A x \in S : F[x] \in Int

LEMMA PickIn == ASSUME NEW s, s # {} PROVE Pick(s) \in s
BY Zenon DEF Pick

\* Of the finite sets of a kind, one has no smaller one of that kind.
LEMMA Smallest ==
  ASSUME NEW S, IsFiniteSet(S), NEW B, B \subseteq SUBSET S, B # {}
  PROVE  \E T \in B : \A U \in B : U \subseteq T => U = T
<1>1. IsWellFoundedOn(StrictSubsetOrdering(S), FiniteSubsetsOf(S))
  BY FS_StrictSubsetOrderingWellFounded, Zenon
<1>2. B \subseteq FiniteSubsetsOf(S)
  <2>1. ASSUME NEW T \in B PROVE T \in SUBSET S /\ IsFiniteSet(T)
    <3>1. T \in SUBSET S BY <2>1
    <3> QED BY <3>1, FS_Subset
  <2> QED BY <2>1 DEF FiniteSubsetsOf
<1>3. PICK T \in B : \A U \in B : ~(<<U, T>> \in StrictSubsetOrdering(S))
  BY <1>1, <1>2, WFMin, Zenon
<1>4. ASSUME NEW U \in B, U \subseteq T, U # T PROVE FALSE
  <2>1. U \in SUBSET S /\ T \in SUBSET S OBVIOUS
  <2>2. <<U, T>> \in StrictSubsetOrdering(S) BY <1>4, <2>1 DEF StrictSubsetOrdering
  <2> QED BY <1>3, <2>2
<1> QED BY <1>4

LEMMA FiniteImage ==
  ASSUME NEW S, IsFiniteSet(S), NEW f PROVE IsFiniteSet({f[x] : x \in S})
<1> DEFINE T == {f[x] : x \in S}
           g == [x \in S |-> f[x]]
<1>1. g \in Surjection(S, T) BY DEF Surjection
<1> HIDE DEF g, T
<1>2. IsFiniteSet(T) BY <1>1, FS_Surjection
<1> QED BY <1>2 DEF T

-----------------------------------------------------------------------------
(* The fold is well defined.                                                 *)

LEMMA SumsAt ==
  ASSUME NEW F, NEW S, NEW g, Sums(F, S, g), NEW s \in SUBSET S
  PROVE  /\ s = {} => g[s] = 0
         /\ s # {} => /\ Pick(s) \in s /\ s \ {Pick(s)} \in SUBSET S
                      /\ g[s] = F[Pick(s)] + g[s \ {Pick(s)}]
<1>1. g[s] = IF s = {} THEN 0 ELSE F[Pick(s)] + g[s \ {Pick(s)}]
  <2> DEFINE body(t) == IF t = {} THEN 0 ELSE F[Pick(t)] + g[t \ {Pick(t)}]
  <2>1. g = [t \in SUBSET S |-> body(t)] BY DEF Sums
  <2> HIDE DEF body
  <2>2. g[s] = body(s) BY <2>1
  <2> QED BY <2>2 DEF body
<1> QED BY <1>1, PickIn

LEMMA SumsZero == ASSUME NEW F, NEW S, NEW g, Sums(F, S, g) PROVE g[{}] = 0
<1>1. {} \in SUBSET S OBVIOUS
<1> QED BY <1>1, SumsAt

\* Two folds of one function agree where both are defined.
LEMMA SumsAgree ==
  ASSUME NEW F, NEW A, NEW B, NEW g, NEW h, Sums(F, A, g), Sums(F, B, h),
         NEW s \in SUBSET A, s \in SUBSET B, IsFiniteSet(s)
  PROVE  g[s] = h[s]
<1> DEFINE bad == {t \in SUBSET s : g[t] # h[t]}
<1>1. SUFFICES ASSUME bad # {} PROVE FALSE OBVIOUS
<1>2. PICK t \in bad : \A u \in bad : u \subseteq t => u = t
  <2>1. bad \subseteq SUBSET s OBVIOUS
  <2> HIDE DEF bad
  <2> QED BY <1>1, <2>1, Smallest
<1>3. t \in SUBSET A /\ t \in SUBSET B /\ t \in SUBSET s /\ g[t] # h[t] OBVIOUS
<1>4. t # {} BY <1>3, SumsZero
<1> DEFINE u == t \ {Pick(t)}
<1>5. /\ Pick(t) \in t
      /\ g[t] = F[Pick(t)] + g[u] /\ h[t] = F[Pick(t)] + h[u]
  BY <1>3, <1>4, SumsAt
<1>6. u \in SUBSET s /\ u \subseteq t /\ u # t BY <1>3, <1>5
<1>7. g[u] = h[u] BY <1>2, <1>6
<1> QED BY <1>3, <1>5, <1>7

LEMMA SumsExist ==
  ASSUME NEW F, NEW S, IsFiniteSet(S)
  PROVE  \E g : Sums(F, S, g)
<1> DEFINE bad == {T \in SUBSET S : ~ \E g : Sums(F, T, g)}
<1>1. SUFFICES ASSUME bad # {} PROVE FALSE BY S \in SUBSET S
<1>2. PICK T \in bad : \A U \in bad : U \subseteq T => U = T
  <2>1. bad \subseteq SUBSET S OBVIOUS
  <2> HIDE DEF bad
  <2> QED BY <1>1, <2>1, Smallest
<1>3. T \in SUBSET S /\ ~ \E g : Sums(F, T, g) OBVIOUS
<1> DEFINE Fold(U) == CHOOSE g : Sums(F, U, g)
<1>4. ASSUME NEW U \in SUBSET T, U # T PROVE Sums(F, U, Fold(U))
  <2>1. U \in SUBSET S /\ U \subseteq T BY <1>3
  <2>2. U \notin bad BY <1>2, <1>4, <2>1
  <2>3. \E g : Sums(F, U, g) BY <2>1, <2>2
  <2> HIDE DEF bad
  <2> QED BY <2>3, Zenon
<1> HIDE DEF Fold, bad
<1> DEFINE Rest(s) == s \ {Pick(s)}
           value(s) == IF s = {} THEN 0 ELSE F[Pick(s)] + Fold(Rest(s))[Rest(s)]
           g == [s \in SUBSET T |-> value(s)]
<1>5. ASSUME NEW s \in SUBSET T, s # {} PROVE g[Rest(s)] = Fold(Rest(s))[Rest(s)]
  <2> DEFINE r == Rest(s)
  <2>1. r \in SUBSET T /\ r # T
    <3>1. Pick(s) \in s BY <1>5, PickIn
    <3> QED BY <3>1
  <2>2. Sums(F, r, Fold(r)) BY <1>4, <2>1
  <2>3. g[r] = value(r) BY <2>1
  <2> HIDE DEF r, g
  <2>4. r \in SUBSET r OBVIOUS
  <2>5. CASE r = {}
    <3>1. value(r) = 0 BY <2>5
    <3>2. Fold(r)[{}] = 0 BY <2>2, SumsZero
    <3> QED BY <2>3, <2>5, <3>1, <3>2 DEF r
  <2>6. CASE r # {}
    <3> DEFINE q == Rest(r)
    <3>1. Pick(r) \in r BY <2>6, PickIn
    <3>2. q \in SUBSET T /\ q \in SUBSET r /\ q # T BY <2>1, <3>1
    <3>3. Sums(F, q, Fold(q)) BY <1>4, <3>2
    <3>4. Fold(r)[r] = F[Pick(r)] + Fold(r)[q] BY <2>2, <2>4, <2>6, SumsAt
    <3>5. IsFiniteSet(q)
      <4>1. q \in SUBSET S BY <1>3, <3>2
      <4> QED BY <4>1, FS_Subset
    <3>6. Fold(r)[q] = Fold(q)[q] 
      <4> HIDE DEF q
      <4>1. q \in SUBSET q OBVIOUS
      <4> QED BY <2>2, <3>2, <3>3, <3>5, <4>1, SumsAgree
    <3>7. value(r) = F[Pick(r)] + Fold(q)[q] BY <2>6
    <3> QED BY <2>3, <3>4, <3>6, <3>7 DEF r
  <2> QED BY <2>5, <2>6 DEF r
<1>6. g = [s \in SUBSET T |-> IF s = {} THEN 0 ELSE F[Pick(s)] + g[s \ {Pick(s)}]]
  <2>1. ASSUME NEW s \in SUBSET T
        PROVE  value(s) = IF s = {} THEN 0 ELSE F[Pick(s)] + g[s \ {Pick(s)}]
    <3> HIDE DEF g
    <3> QED BY <1>5
  <2> QED BY <2>1
<1>7. Sums(F, T, g)
  <2> HIDE DEF g
  <2> QED BY <1>6 DEF Sums
<1> QED BY <1>3, <1>7

\* What the library computes is the value of any such fold.
LEMMA SumIsFold ==
  ASSUME NEW F, NEW S, IsFiniteSet(S), NEW g, NEW T, Sums(F, T, g), S \subseteq T
  PROVE  SumOver(F, S) = g[S]
<1> DEFINE h == CHOOSE k : Sums(F, S, k)
<1>1. Sums(F, S, h)
  <2>1. \E k : Sums(F, S, k) BY SumsExist
  <2> QED BY <2>1, Zenon
<1>2. SumOver(F, S) = h[S]
  BY DEF SumOver, MapThenSumSet, MapThenFoldSet, Sums, Pick
<1> HIDE DEF h
<1>3. S \in SUBSET S /\ S \in SUBSET T OBVIOUS
<1> QED BY <1>1, <1>2, <1>3, SumsAgree

LEMMA SumFold ==
  ASSUME NEW F, NEW S, IsFiniteSet(S)
  PROVE  \E g : Sums(F, S, g) /\ \A T \in SUBSET S : SumOver(F, T) = g[T]
<1>1. PICK g : Sums(F, S, g) BY SumsExist
<1>2. ASSUME NEW T \in SUBSET S PROVE SumOver(F, T) = g[T]
  <2>1. IsFiniteSet(T) BY FS_Subset
  <2> QED BY <1>1, <2>1, SumIsFold
<1> QED BY <1>1, <1>2

-----------------------------------------------------------------------------
(* What a sum is.                                                            *)

LEMMA SumEmpty == ASSUME NEW F PROVE SumOver(F, {}) = 0
<1>1. IsFiniteSet({}) BY FS_EmptySet
<1>2. PICK g : Sums(F, {}, g) /\ \A T \in SUBSET {} : SumOver(F, T) = g[T] BY <1>1, SumFold
<1>3. {} \in SUBSET {} OBVIOUS
<1>4. g[{}] = 0 BY <1>2, SumsZero
<1> QED BY <1>2, <1>3, <1>4

LEMMA SumType ==
  ASSUME NEW F, NEW S, IsFiniteSet(S), Integral(F, S)
  PROVE  SumOver(F, S) \in Int
<1>1. PICK g : Sums(F, S, g) /\ \A T \in SUBSET S : SumOver(F, T) = g[T] BY SumFold
<1> DEFINE bad == {T \in SUBSET S : g[T] \notin Int}
<1>2. SUFFICES ASSUME bad # {} PROVE FALSE BY <1>1, S \in SUBSET S
<1>3. PICK T \in bad : \A U \in bad : U \subseteq T => U = T
  <2>1. bad \subseteq SUBSET S OBVIOUS
  <2> HIDE DEF bad
  <2> QED BY <1>2, <2>1, Smallest
<1>4. T \in SUBSET S /\ g[T] \notin Int OBVIOUS
<1>5. T # {}
  <2>1. g[{}] = 0 BY <1>1, SumsZero
  <2> QED BY <1>4, <2>1
<1> DEFINE U == T \ {Pick(T)}
<1>6. Pick(T) \in T /\ g[T] = F[Pick(T)] + g[U] BY <1>1, <1>4, <1>5, SumsAt
<1>7. U \in SUBSET S /\ U \subseteq T /\ U # T BY <1>4, <1>6
<1>8. g[U] \in Int BY <1>3, <1>7
<1>9. F[Pick(T)] \in Int BY <1>4, <1>6 DEF Integral
<1> QED BY <1>4, <1>6, <1>8, <1>9

\* One more element adds its value, whichever the fold takes first.
LEMMA SumAdd ==
  ASSUME NEW F, NEW S, IsFiniteSet(S), Integral(F, S), NEW x \in S
  PROVE  SumOver(F, S) = SumOver(F, S \ {x}) + F[x]
<1>1. PICK g : Sums(F, S, g) /\ \A T \in SUBSET S : SumOver(F, T) = g[T] BY SumFold
<1> DEFINE bad == {T \in SUBSET S : \E y \in T : g[T] # g[T \ {y}] + F[y]}
<1>2. SUFFICES ASSUME bad # {} PROVE FALSE
  <2>1. S \in SUBSET S /\ S \ {x} \in SUBSET S OBVIOUS
  <2> QED BY <1>1, <2>1
<1>3. PICK T \in bad : \A U \in bad : U \subseteq T => U = T
  <2>1. bad \subseteq SUBSET S OBVIOUS
  <2> HIDE DEF bad
  <2> QED BY <1>2, <2>1, Smallest
<1>4. PICK y \in T : g[T] # g[T \ {y}] + F[y] OBVIOUS
<1> DEFINE p == Pick(T)
           U == T \ {p}
           V == T \ {y}
           W == U \ {y}
<1>5. T \in SUBSET S /\ T # {} BY <1>3
<1>6. p \in T /\ g[T] = F[p] + g[U] BY <1>1, <1>5, SumsAt
<1>7. \A Z \in SUBSET S : g[Z] \in Int
  <2>1. ASSUME NEW Z \in SUBSET S PROVE g[Z] \in Int
    <3>1. IsFiniteSet(Z) /\ Integral(F, Z) BY FS_Subset DEF Integral
    <3> QED BY <1>1, <3>1, SumType
  <2> QED BY <2>1
<1>8. F[p] \in Int /\ F[y] \in Int BY <1>4, <1>5, <1>6 DEF Integral
<1>9. /\ U \in SUBSET S /\ V \in SUBSET S /\ W \in SUBSET S
      /\ U \subseteq T /\ U # T /\ V \subseteq T /\ V # T
  BY <1>4, <1>5, <1>6
<1>10. p # y
  <2>1. SUFFICES ASSUME p = y PROVE FALSE OBVIOUS
  <2>2. U = V BY <2>1
  <2> HIDE DEF U, V, p
  <2>3. g[U] \in Int BY <1>7, <1>9
  <2> QED BY <1>4, <1>6, <1>8, <2>1, <2>2, <2>3 DEF V
<1>11. /\ g[U] = g[W] + F[y] /\ g[V] = g[W] + F[p]
  <2>1. y \in U /\ p \in V /\ W = V \ {p} BY <1>4, <1>6, <1>10
  <2>2. U \notin bad /\ V \notin bad BY <1>3, <1>9
  <2> QED BY <1>9, <2>1, <2>2
<1>12. g[W] \in Int BY <1>7, <1>9
<1> HIDE DEF U, V, W, p
<1>13. g[T] = F[p] + (g[W] + F[y]) /\ g[V] + F[y] = (g[W] + F[p]) + F[y] BY <1>6, <1>11
<1>14. g[T] = g[V] + F[y] BY <1>8, <1>12, <1>13
<1> QED BY <1>4, <1>14 DEF V

\* Functions that agree on a set have one sum over it.
LEMMA SumSame ==
  ASSUME NEW F, NEW G, NEW S, IsFiniteSet(S), \A x \in S : F[x] = G[x]
  PROVE  SumOver(F, S) = SumOver(G, S)
<1>1. PICK g : Sums(F, S, g) /\ \A T \in SUBSET S : SumOver(F, T) = g[T] BY SumFold
<1>2. Sums(G, S, g)
  <2>1. ASSUME NEW s \in SUBSET S, s # {} PROVE F[Pick(s)] = G[Pick(s)]
    <3>1. Pick(s) \in S BY <2>1, PickIn
    <3> QED BY <3>1
  <2> QED BY <1>1, <2>1 DEF Sums
<1>3. S \in SUBSET S OBVIOUS
<1>4. SumOver(G, S) = g[S] BY <1>2, SumIsFold
<1> QED BY <1>1, <1>3, <1>4

LEMMA SumUnion ==
  ASSUME NEW F, NEW A, NEW B, IsFiniteSet(A), IsFiniteSet(B), A \cap B = {},
         Integral(F, A \cup B)
  PROVE  SumOver(F, A \cup B) = SumOver(F, A) + SumOver(F, B)
<1> DEFINE bad == {T \in SUBSET B : SumOver(F, A \cup T) # SumOver(F, A) + SumOver(F, T)}
<1>1. SUFFICES ASSUME bad # {} PROVE FALSE BY B \in SUBSET B
<1>2. PICK T \in bad : \A U \in bad : U \subseteq T => U = T
  <2>1. bad \subseteq SUBSET B OBVIOUS
  <2> HIDE DEF bad
  <2> QED BY <1>1, <2>1, Smallest
<1>3. T \in SUBSET B /\ SumOver(F, A \cup T) # SumOver(F, A) + SumOver(F, T) OBVIOUS
<1>4. \A U \in SUBSET B : /\ IsFiniteSet(U) /\ IsFiniteSet(A \cup U)
                          /\ Integral(F, U) /\ Integral(F, A \cup U)
  <2>1. ASSUME NEW U \in SUBSET B PROVE IsFiniteSet(U) /\ IsFiniteSet(A \cup U)
    <3>1. IsFiniteSet(U) BY FS_Subset
    <3> QED BY <3>1, FS_Union
  <2> QED BY <2>1 DEF Integral
<1>5. Integral(F, A) BY DEF Integral
<1>6. SumOver(F, A) \in Int BY <1>5, SumType
<1>7. T # {}
  <2>1. SUFFICES ASSUME T = {} PROVE FALSE OBVIOUS
  <2>2. A \cup T = A /\ SumOver(F, T) = 0 BY <2>1, SumEmpty
  <2> QED BY <1>3, <1>6, <2>2
<1>8. PICK x \in T : TRUE BY <1>7
<1> DEFINE U == T \ {x}
<1>9. U \in SUBSET B /\ U \subseteq T /\ U # T /\ x \in B BY <1>3, <1>8
<1>10. SumOver(F, A \cup U) = SumOver(F, A) + SumOver(F, U) BY <1>2, <1>9
<1>11. SumOver(F, T) = SumOver(F, U) + F[x] BY <1>3, <1>4, <1>8, SumAdd
<1>12. (A \cup T) \ {x} = A \cup U BY <1>8, <1>9
<1>13. SumOver(F, A \cup T) = SumOver(F, A \cup U) + F[x]
  BY <1>3, <1>4, <1>8, <1>12, SumAdd
<1>14. SumOver(F, U) \in Int /\ F[x] \in Int BY <1>4, <1>9, SumType DEF Integral
<1> HIDE DEF U, bad
<1>15. SumOver(F, A \cup T) = SumOver(F, A) + SumOver(F, T)
  BY <1>6, <1>10, <1>11, <1>13, <1>14
<1> QED BY <1>3, <1>15

\* The sum of the images is the sum over the images of a one-to-one renaming.
LEMMA SumImage ==
  ASSUME NEW F, NEW G, NEW h, NEW S, IsFiniteSet(S), Integral(F, S),
         \A x, y \in S : h[x] = h[y] => x = y,
         \A x \in S : G[h[x]] = F[x],
         NEW I, I = {h[x] : x \in S}
  PROVE  IsFiniteSet(I) /\ SumOver(G, I) = SumOver(F, S)
<1> DEFINE image(T) == {h[x] : x \in T}
           good(T) == IsFiniteSet(image(T)) /\ SumOver(G, image(T)) = SumOver(F, T)
           bad == {T \in SUBSET S : ~good(T)}
<1>1. SUFFICES ASSUME bad # {} PROVE FALSE
  <2>1. S \in SUBSET S /\ I = image(S) OBVIOUS
  <2> QED BY <2>1
<1>2. PICK T \in bad : \A U \in bad : U \subseteq T => U = T
  <2>1. bad \subseteq SUBSET S OBVIOUS
  <2> HIDE DEF bad
  <2> QED BY <1>1, <2>1, Smallest
<1>3. T \in SUBSET S /\ ~good(T) OBVIOUS
<1>4. T # {}
  <2>1. image({}) = {} OBVIOUS
  <2>2. good({}) BY <2>1, SumEmpty, FS_EmptySet
  <2> HIDE DEF good
  <2> QED BY <1>3, <2>2
<1>5. PICK x \in T : TRUE BY <1>4
<1> DEFINE U == T \ {x}
<1>6. U \in SUBSET S /\ U \subseteq T /\ U # T /\ x \in S BY <1>3, <1>5
<1>7. good(U)
  <2> HIDE DEF good
  <2> QED BY <1>2, <1>6
<1>8. image(T) = image(U) \cup {h[x]} /\ h[x] \notin image(U) BY <1>3, <1>5, <1>6
<1>9. IsFiniteSet(T) /\ IsFiniteSet(U) /\ Integral(F, T) BY <1>3, <1>6, FS_Subset DEF Integral
<1>10. IsFiniteSet(image(T))
  <2>1. IsFiniteSet(image(U)) BY <1>7
  <2> HIDE DEF image, U, good
  <2>2. IsFiniteSet(image(U) \cup {h[x]}) BY <2>1, FS_AddElement
  <2> QED BY <1>8, <2>2
<1>11. Integral(G, image(T)) BY <1>3 DEF Integral
<1>12. SumOver(F, T) = SumOver(F, U) + F[x] BY <1>5, <1>9, SumAdd
<1>13. SumOver(G, image(T)) = SumOver(G, image(U)) + G[h[x]]
  <2> DEFINE J == image(T)
  <2> HIDE DEF image, U
  <2>1. h[x] \in J /\ J \ {h[x]} = image(U) BY <1>8
  <2>2. IsFiniteSet(J) /\ Integral(G, J) BY <1>10, <1>11
  <2> HIDE DEF J
  <2>3. SumOver(G, J) = SumOver(G, J \ {h[x]}) + G[h[x]] BY <2>1, <2>2, SumAdd
  <2> QED BY <2>1, <2>3 DEF J
<1>14. good(T)
  <2> HIDE DEF image, U
  <2> QED BY <1>6, <1>7, <1>10, <1>12, <1>13
<1> HIDE DEF good
<1> QED BY <1>3, <1>14
\* Turning every sign turns the sign of the sum.
LEMMA SumNegate ==
  ASSUME NEW F, NEW G, NEW S, IsFiniteSet(S), Integral(F, S), \A x \in S : G[x] = -F[x]
  PROVE  SumOver(G, S) = -SumOver(F, S)
<1> DEFINE bad == {T \in SUBSET S : SumOver(G, T) # -SumOver(F, T)}
<1>1. SUFFICES ASSUME bad # {} PROVE FALSE BY S \in SUBSET S
<1>2. PICK T \in bad : \A U \in bad : U \subseteq T => U = T
  <2>1. bad \subseteq SUBSET S OBVIOUS
  <2> HIDE DEF bad
  <2> QED BY <1>1, <2>1, Smallest
<1>3. T \in SUBSET S /\ SumOver(G, T) # -SumOver(F, T) OBVIOUS
<1>4. T # {}
  <2>1. SumOver(G, {}) = -SumOver(F, {}) BY SumEmpty
  <2> HIDE DEF bad
  <2> QED BY <1>3, <2>1
<1>5. PICK x \in T : TRUE BY <1>4
<1> DEFINE U == T \ {x}
<1>6. U \in SUBSET S /\ U \subseteq T /\ U # T /\ x \in S BY <1>3, <1>5
<1>7. SumOver(G, U) = -SumOver(F, U) BY <1>2, <1>6
<1>8. IsFiniteSet(T) /\ IsFiniteSet(U) BY <1>3, <1>6, FS_Subset
<1>9. Integral(F, T) /\ Integral(F, U) /\ Integral(G, T) BY <1>3, <1>6 DEF Integral
<1>10. SumOver(F, T) = SumOver(F, U) + F[x] BY <1>5, <1>8, <1>9, SumAdd
<1>11. SumOver(G, T) = SumOver(G, U) + G[x] BY <1>5, <1>8, <1>9, SumAdd
<1>12. SumOver(F, U) \in Int /\ F[x] \in Int /\ G[x] = -F[x]
  BY <1>6, <1>8, <1>9, SumType DEF Integral
<1> HIDE DEF U, bad
<1>13. SumOver(G, T) = -SumOver(F, T) BY <1>7, <1>10, <1>11, <1>12
<1> QED BY <1>3, <1>13

-----------------------------------------------------------------------------
(* Least and greatest elements.                                              *)

Less == {ss \in Nat \X Nat : ss[1] < ss[2]}

LEMMA LessWellFounded == IsWellFoundedOn(Less, Nat)
<1>1. Less = OpToRel(<, Nat) BY Zenon DEF Less, OpToRel
<1> QED BY <1>1, NatLessThanWellFounded, Zenon

LEMMA LeastOfNat ==
  ASSUME NEW S \in SUBSET Nat, S # {} PROVE \E m \in S : \A n \in S : m <= n
<1>1. PICK m \in S : \A n \in S : ~(<<n, m>> \in Less)
  BY LessWellFounded, WFMin, Zenon
<1>2. ASSUME NEW n \in S PROVE m <= n
  <2>1. <<n, m>> \notin Less BY <1>1
  <2>2. n \in Nat /\ m \in Nat OBVIOUS
  <2> QED BY <2>1, <2>2 DEF Less
<1> QED BY <1>2

LEMMA GreatestUpTo ==
  ASSUME NEW N \in Nat, NEW S \in SUBSET (0 .. N), S # {}
  PROVE  \E m \in S : \A n \in S : n <= m
<1> DEFINE T == {k \in 0 .. N : N - k \in S}
<1>1. PICK s \in S : TRUE OBVIOUS
<1>2. N - s \in T BY <1>1
<1>3. T \in SUBSET Nat /\ T # {} BY <1>2
<1>4. PICK k \in T : \A j \in T : k <= j BY <1>3, LeastOfNat
<1>5. N - k \in S BY <1>4
<1>6. ASSUME NEW n \in S PROVE n <= N - k
  <2>1. N - n \in T OBVIOUS
  <2>2. k <= N - n BY <1>4, <2>1
  <2> QED BY <2>2
<1> QED BY <1>5, <1>6

LEMMA GreatestOfFinite ==
  ASSUME NEW S, IsFiniteSet(S), S # {}, \A x \in S : x \in Nat
  PROVE  \E m \in S : \A n \in S : n <= m
<1> DEFINE bad == {T \in SUBSET S : T # {} /\ ~ \E m \in T : \A n \in T : n <= m}
<1>1. SUFFICES ASSUME bad # {} PROVE FALSE BY S \in SUBSET S
<1>2. PICK T \in bad : \A U \in bad : U \subseteq T => U = T
  <2>1. bad \subseteq SUBSET S OBVIOUS
  <2> HIDE DEF bad
  <2> QED BY <1>1, <2>1, Smallest
<1>3. PICK x \in T : TRUE OBVIOUS
<1> DEFINE U == T \ {x}
<1>4. CASE U = {}
  <2>1. T = {x} /\ x \in Nat BY <1>3, <1>4
  <2>2. \A n \in T : n <= x BY <2>1
  <2> QED BY <1>3, <2>2
<1>5. CASE U # {}
  <2>1. U \in SUBSET S /\ U \subseteq T /\ U # T BY <1>3
  <2>2. PICK m \in U : \A n \in U : n <= m BY <1>2, <1>5, <2>1
  <2>3. m \in Nat /\ x \in Nat /\ m \in T BY <1>3, <2>2
  <2>4. CASE x <= m BY <2>2, <2>3, <2>4
  <2>5. CASE m <= x
    <3>1. \A n \in U : n \in Nat /\ n <= x BY <2>2, <2>3, <2>5
    <3>2. \A n \in T : n <= x BY <2>3, <3>1
    <3> QED BY <1>3, <3>2
  <2> QED BY <2>3, <2>4, <2>5
<1> QED BY <1>4, <1>5

LEMMA MaxUpTo ==
  ASSUME NEW N \in Nat, NEW S \in SUBSET (0 .. N), S # {}
  PROVE  Max(S) \in S /\ \A n \in S : n <= Max(S)
BY GreatestUpTo DEF Max

LEMMA MinOfTwo == ASSUME NEW a \in Int, NEW b \in Int
                  PROVE Min({a, b}) \in {a, b} /\ Min({a, b}) <= a /\ Min({a, b}) <= b
<1>1. \E x \in {a, b} : \A y \in {a, b} : x <= y
  <2>1. CASE a <= b BY <2>1
  <2>2. CASE ~(a <= b) BY <2>2
  <2> QED BY <2>1, <2>2
<1> QED BY <1>1 DEF Min


-----------------------------------------------------------------------------
(* Counting.                                                                 *)

\* A function that tells the members of a set apart reaches all of a set as large.
LEMMA ReachesAll ==
  ASSUME NEW S, IsFiniteSet(S), NEW T, IsFiniteSet(T), Cardinality(S) = Cardinality(T),
         NEW f \in [S -> T], \A x, y \in S : f[x] = f[y] => x = y
  PROVE  \A t \in T : \E x \in S : f[x] = t
<1> SUFFICES ASSUME NEW t \in T, \A x \in S : f[x] # t PROVE FALSE OBVIOUS
<1>1. IsFiniteSet(T \ {t}) /\ Cardinality(T \ {t}) = Cardinality(T) - 1
  BY FS_RemoveElement
<1>2. Cardinality(T) \in Nat BY FS_CardinalityType
<1>3. Cardinality(T \ {t}) < Cardinality(S) BY <1>1, <1>2
<1>4. f \in [S -> T \ {t}] OBVIOUS
<1>5. \E x, y \in S : x # y /\ f[x] = f[y] BY <1>1, <1>3, <1>4, FS_PigeonHole
<1> QED BY <1>5
=============================================================================
