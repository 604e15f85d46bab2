------------------------------ MODULE SumProofs ------------------------------
(***************************************************************************)
(* What the other proofs need to know of a sum over a finite set.          *)
(*                                                                         *)
(* SumFunctionOnSet is defined by recursion over the set.  An induction is *)
(* written here as a smallest counterexample: among the subsets for which  *)
(* a claim fails there would be one that is minimal (SmallestSubset, from  *)
(* the well-foundedness of inclusion), and its rest would satisfy it.  So  *)
(* no rule of induction with a formula for a parameter is needed.          *)
(***************************************************************************)
EXTENDS Integers, FiniteSetsExt, FiniteSetTheorems, WellFoundedInduction, TLAPS

------------------------------------------------------------------------------
\* Induction, and what the recursion means.

\* A nonempty family of subsets of a finite set has a minimal member.
LEMMA SmallestSubset ==
  ASSUME NEW S, IsFiniteSet(S), NEW B \in SUBSET SUBSET S, B # {}
  PROVE  \E U \in B : \A V \in B : V \subseteq U => V = U
<1>1. IsWellFoundedOn(StrictSubsetOrdering(S), SUBSET S)
  BY FS_StrictSubsetOrderingWellFounded, FS_FiniteSubsetsOfFinite
<1>2. PICK U \in B : \A V \in B : ~(<<V, U>> \in StrictSubsetOrdering(S))
  <2> HIDE DEF StrictSubsetOrdering
  <2> QED BY <1>1, WFMin
<1> QED BY <1>2 DEF StrictSubsetOrdering

\* The element that the recursion takes out first.
Chosen(s) == CHOOSE x \in s : TRUE

\* g maps every subset of S to the sum of f over it.
IsFold(g, f, S) ==
  g = [s \in SUBSET S |->
         IF s = {} THEN 0 ELSE f[Chosen(s)] + g[s \ {Chosen(s)}]]

\* It is an element.
LEMMA ChosenIsIn ==
  ASSUME NEW s, s # {}
  PROVE Chosen(s) \in s
BY DEF Chosen

\* The equation of the recursion at one subset.
LEMMA FoldAt ==
  ASSUME NEW S, NEW f, NEW g, IsFold(g, f, S), NEW s \in SUBSET S
  PROVE g[s] = IF s = {} THEN 0 ELSE f[Chosen(s)] + g[s \ {Chosen(s)}]
<1> DEFINE G == [t \in SUBSET S |-> IF t = {} THEN 0 ELSE f[Chosen(t)] + g[t \ {Chosen(t)}]]
<1>1. g = G BY DEF IsFold
<1>2. G[s] = IF s = {} THEN 0 ELSE f[Chosen(s)] + g[s \ {Chosen(s)}] OBVIOUS
<1> HIDE DEF G
<1> QED BY <1>1, <1>2

\* There is at most one such map: where two of them are defined they agree.
LEMMA OneFold ==
  ASSUME NEW S, IsFiniteSet(S), NEW T, NEW f, NEW g, NEW h,
         IsFold(g, f, S), IsFold(h, f, T), S \subseteq T, NEW U \in SUBSET S
  PROVE g[U] = h[U]
<1> DEFINE B == {V \in SUBSET S : g[V] # h[V]}
<1>1. SUFFICES ASSUME B # {} PROVE FALSE OBVIOUS
<1>2. PICK V \in B : \A W \in B : W \subseteq V => W = V
  <2>1. B \in SUBSET SUBSET S OBVIOUS
  <2> HIDE DEF B
  <2> QED BY <1>1, <2>1, SmallestSubset
<1>3. V # {} BY FoldAt
<1>4. Chosen(V) \in V BY <1>3, ChosenIsIn
<1>5. g[V \ {Chosen(V)}] = h[V \ {Chosen(V)}] BY <1>2, <1>4
<1>6. g[V] = f[Chosen(V)] + g[V \ {Chosen(V)}] BY <1>3, FoldAt
<1>7. h[V] = f[Chosen(V)] + h[V \ {Chosen(V)}] BY <1>3, FoldAt
<1> QED BY <1>5, <1>6, <1>7

\* There is such a map, put together from those of the smaller sets.
LEMMA FoldExists ==
  ASSUME NEW S, IsFiniteSet(S), NEW f
  PROVE  \E g : IsFold(g, f, S)
<1> DEFINE Good(U) == \E g : IsFold(g, f, U)
           B == {U \in SUBSET S : ~Good(U)}
<1> HIDE DEF Good
<1>1. SUFFICES ASSUME B # {} PROVE FALSE BY DEF Good
<1>2. PICK V \in B : \A W \in B : W \subseteq V => W = V
  <2>1. B \in SUBSET SUBSET S OBVIOUS
  <2> HIDE DEF B
  <2> QED BY <1>1, <2>1, SmallestSubset
<1>3. \A W \in SUBSET V : W # V => Good(W) BY <1>2
<1> DEFINE F(W) == CHOOSE g : IsFold(g, f, W)
           Rest(W) == W \ {Chosen(W)}
           G == [s \in SUBSET V |->
                   IF s = {} THEN 0 ELSE f[Chosen(s)] + F(Rest(s))[Rest(s)]]
<1>4. \A W \in SUBSET V : W # V => IsFold(F(W), f, W) BY <1>3 DEF Good
<1>5. \A W \in SUBSET V : W # {} => Rest(W) \in SUBSET V /\ Rest(W) # V
                                     /\ Rest(W) \subseteq W
  BY ChosenIsIn
<1>6. \A W \in SUBSET V : IsFiniteSet(W) BY <1>2, FS_Subset
<1> HIDE DEF F, Rest
<1>7. ASSUME NEW W \in SUBSET V, W # V PROVE F(W)[W] = G[W]
  <2>1. IsFold(F(W), f, W) BY <1>4, <1>7
  <2>2. W \in SUBSET W OBVIOUS
  <2>3. F(W)[W] = IF W = {} THEN 0 ELSE f[Chosen(W)] + F(W)[Rest(W)]
    BY <2>1, <2>2, FoldAt DEF Rest
  <2>4. CASE W = {} BY <2>3, <2>4
  <2>5. CASE W # {}
    <3>1. IsFold(F(Rest(W)), f, Rest(W)) BY <1>4, <1>5, <2>5
    <3>2. Rest(W) \subseteq W /\ IsFiniteSet(Rest(W)) BY <1>5, <1>6, <2>5
    <3>3. F(Rest(W))[Rest(W)] = F(W)[Rest(W)] BY <2>1, <3>1, <3>2, OneFold
    <3> QED BY <2>3, <2>5, <3>3
  <2> QED BY <2>4, <2>5
<1>8. ASSUME NEW W \in SUBSET V, W # {} PROVE F(Rest(W))[Rest(W)] = G[W \ {Chosen(W)}]
  BY <1>5, <1>7, <1>8 DEF Rest
<1>9. G = [s \in SUBSET V |-> IF s = {} THEN 0 ELSE f[Chosen(s)] + G[s \ {Chosen(s)}]]
  <2>1. \A s \in SUBSET V : G[s] = IF s = {} THEN 0 ELSE f[Chosen(s)] + G[s \ {Chosen(s)}]
    BY <1>8
  <2> QED BY <2>1
<1>10. IsFold(G, f, V) BY <1>9 DEF IsFold
<1> QED BY <1>2, <1>10 DEF Good

\* So the recursive definition defines it.
LEMMA SumIsFold ==
  ASSUME NEW S, IsFiniteSet(S), NEW f
  PROVE  \E g : IsFold(g, f, S) /\ SumFunctionOnSet(f, S) = g[S]
<1> DEFINE iter == CHOOSE g : g = [s \in SUBSET S |->
              IF s = {} THEN 0 ELSE LET x == CHOOSE x \in s : TRUE IN f[x] + g[s \ {x}]]
<1>1. SumFunctionOnSet(f, S) = iter[S] BY DEF SumFunctionOnSet, FoldFunctionOnSet, MapThenFoldSet
<1>2. \A g : IsFold(g, f, S) <=>
              g = [s \in SUBSET S |->
                     IF s = {} THEN 0 ELSE LET x == CHOOSE x \in s : TRUE IN f[x] + g[s \ {x}]]
  BY DEF IsFold, Chosen
<1>3. \E g : g = [s \in SUBSET S |->
                     IF s = {} THEN 0 ELSE LET x == CHOOSE x \in s : TRUE IN f[x] + g[s \ {x}]]
  <2>1. PICK g : IsFold(g, f, S) BY FoldExists
  <2>2. g = [s \in SUBSET S |->
               IF s = {} THEN 0 ELSE LET x == CHOOSE x \in s : TRUE IN f[x] + g[s \ {x}]]
    BY <1>2, <2>1
  <2> QED BY <2>2, Zenon
<1>4. iter = [s \in SUBSET S |->
                     IF s = {} THEN 0 ELSE LET x == CHOOSE x \in s : TRUE IN f[x] + iter[s \ {x}]]
  BY <1>3, Zenon
<1>5. IsFold(iter, f, S) BY <1>2, <1>4
<1> QED BY <1>1, <1>5

------------------------------------------------------------------------------
\* Facts about sums.

\* Nothing sums up to zero.
LEMMA SumEmpty ==
  ASSUME NEW f
  PROVE  SumFunctionOnSet(f, {}) = 0
<1>1. IsFiniteSet({}) BY FS_EmptySet
<1>2. PICK g : IsFold(g, f, {}) /\ SumFunctionOnSet(f, {}) = g[{}] BY <1>1, SumIsFold
<1> QED BY <1>2, FoldAt

\* The sum without the element taken out first.
LEMMA SumChosen ==
  ASSUME NEW S, IsFiniteSet(S), S # {}, NEW f
  PROVE  SumFunctionOnSet(f, S) = f[Chosen(S)] + SumFunctionOnSet(f, S \ {Chosen(S)})
<1> DEFINE R == S \ {Chosen(S)}
<1>1. PICK g : IsFold(g, f, S) /\ SumFunctionOnSet(f, S) = g[S] BY SumIsFold
<1>2. IsFiniteSet(R) BY FS_RemoveElement
<1>3. PICK h : IsFold(h, f, R) /\ SumFunctionOnSet(f, R) = h[R]
  <2> HIDE DEF R
  <2> QED BY <1>2, SumIsFold
<1>4. g[S] = f[Chosen(S)] + g[R] BY <1>1, FoldAt
<1>5. h[R] = g[R] BY <1>1, <1>2, <1>3, OneFold
<1> QED BY <1>1, <1>3, <1>4, <1>5

\* A sum of integers is one.
LEMMA SumInt ==
  ASSUME NEW S, IsFiniteSet(S), NEW f, \A x \in S : f[x] \in Int
  PROVE  SumFunctionOnSet(f, S) \in Int
<1> DEFINE B == {U \in SUBSET S : SumFunctionOnSet(f, U) \notin Int}
<1>1. SUFFICES ASSUME B # {} PROVE FALSE OBVIOUS
<1>2. PICK V \in B : \A W \in B : W \subseteq V => W = V
  <2>1. B \in SUBSET SUBSET S OBVIOUS
  <2> HIDE DEF B
  <2> QED BY <1>1, <2>1, SmallestSubset
<1>3. V # {} BY SumEmpty
<1>4. Chosen(V) \in V /\ IsFiniteSet(V) BY <1>3, ChosenIsIn, FS_Subset
<1>5. SumFunctionOnSet(f, V \ {Chosen(V)}) \in Int BY <1>2, <1>4
<1>6. SumFunctionOnSet(f, V) = f[Chosen(V)] + SumFunctionOnSet(f, V \ {Chosen(V)})
  BY <1>3, <1>4, SumChosen
<1> QED BY <1>4, <1>5, <1>6

\* Any element may be taken out first.
LEMMA SumRemove ==
  ASSUME NEW S, IsFiniteSet(S), NEW f, \A x \in S : f[x] \in Int, NEW e \in S
  PROVE  SumFunctionOnSet(f, S) = f[e] + SumFunctionOnSet(f, S \ {e})
<1> DEFINE Wrong(U) == \E y \in U :
             SumFunctionOnSet(f, U) # f[y] + SumFunctionOnSet(f, U \ {y})
           B == {U \in SUBSET S : Wrong(U)}
<1>1. SUFFICES ASSUME B # {} PROVE FALSE OBVIOUS
<1>2. PICK V \in B : \A W \in B : W \subseteq V => W = V
  <2>1. B \in SUBSET SUBSET S OBVIOUS
  <2> HIDE DEF B
  <2> QED BY <1>1, <2>1, SmallestSubset
<1>3. PICK y \in V : SumFunctionOnSet(f, V) # f[y] + SumFunctionOnSet(f, V \ {y})
  BY <1>2
<1> DEFINE c == Chosen(V)
<1>4. c \in V /\ V # {} BY <1>3, ChosenIsIn
<1> HIDE DEF c
<1>5. IsFiniteSet(V) /\ V \in SUBSET S BY FS_Subset
<1>6. SumFunctionOnSet(f, V) = f[c] + SumFunctionOnSet(f, V \ {c})
  BY <1>4, <1>5, SumChosen DEF c
<1>7. y # c BY <1>3, <1>6
<1>8. SumFunctionOnSet(f, V \ {c}) = f[y] + SumFunctionOnSet(f, (V \ {c}) \ {y})
  BY <1>2, <1>4, <1>7, V \ {c} \in SUBSET S, V \ {c} # V, y \in V \ {c}
<1>9. SumFunctionOnSet(f, V \ {y}) = f[c] + SumFunctionOnSet(f, (V \ {y}) \ {c})
  BY <1>2, <1>4, <1>7, V \ {y} \in SUBSET S, V \ {y} # V, c \in V \ {y}
<1>10. (V \ {c}) \ {y} = (V \ {y}) \ {c} OBVIOUS
<1> DEFINE rest == SumFunctionOnSet(f, (V \ {y}) \ {c})
<1>11. rest \in Int
  <2>1. IsFiniteSet((V \ {y}) \ {c}) BY <1>5, FS_Subset
  <2> QED BY <2>1, SumInt
<1>12. f[c] \in Int /\ f[y] \in Int BY <1>4
<1> HIDE DEF rest
<1>13. SumFunctionOnSet(f, V) = f[c] + (f[y] + rest) BY <1>6, <1>8, <1>10 DEF rest
<1>14. SumFunctionOnSet(f, V \ {y}) = f[c] + rest BY <1>9 DEF rest
<1>15. f[c] + (f[y] + rest) = f[y] + (f[c] + rest) BY <1>11, <1>12
<1> QED BY <1>3, <1>13, <1>14, <1>15

\* One more element adds its value.
LEMMA SumAdd ==
  ASSUME NEW S, IsFiniteSet(S), NEW f, \A x \in S : f[x] \in Int,
         NEW e, e \notin S, f[e] \in Int
  PROVE  SumFunctionOnSet(f, S \cup {e}) = SumFunctionOnSet(f, S) + f[e]
<1>1. IsFiniteSet(S \cup {e}) BY FS_AddElement
<1>2. (S \cup {e}) \ {e} = S OBVIOUS
<1>3. SumFunctionOnSet(f, S) \in Int BY SumInt
<1>4. SumFunctionOnSet(f, S \cup {e}) = f[e] + SumFunctionOnSet(f, (S \cup {e}) \ {e})
  BY <1>1, SumRemove
<1>5. SumFunctionOnSet(f, S \cup {e}) = f[e] + SumFunctionOnSet(f, S) BY <1>2, <1>4
<1> QED BY <1>3, <1>5

\* A sum of values that are nowhere greater is not greater.
LEMMA SumAtMost ==
  ASSUME NEW S, IsFiniteSet(S), NEW f, NEW h,
         \A x \in S : f[x] \in Int /\ h[x] \in Int /\ f[x] <= h[x]
  PROVE  SumFunctionOnSet(f, S) <= SumFunctionOnSet(h, S)
<1> DEFINE B == {U \in SUBSET S : ~(SumFunctionOnSet(f, U) <= SumFunctionOnSet(h, U))}
<1>1. SUFFICES ASSUME B # {} PROVE FALSE OBVIOUS
<1>2. PICK V \in B : \A W \in B : W \subseteq V => W = V
  <2>1. B \in SUBSET SUBSET S OBVIOUS
  <2> HIDE DEF B
  <2> QED BY <1>1, <2>1, SmallestSubset
<1>3. V # {} BY SumEmpty
<1> DEFINE R == V \ {Chosen(V)}
<1>4. Chosen(V) \in V /\ IsFiniteSet(V) BY <1>3, ChosenIsIn, FS_Subset
<1>5. SumFunctionOnSet(f, R) <= SumFunctionOnSet(h, R) BY <1>2, <1>4
<1>6. SumFunctionOnSet(f, R) \in Int /\ SumFunctionOnSet(h, R) \in Int
  BY <1>4, FS_Subset, SumInt
<1>7. /\ SumFunctionOnSet(f, V) = f[Chosen(V)] + SumFunctionOnSet(f, R)
      /\ SumFunctionOnSet(h, V) = h[Chosen(V)] + SumFunctionOnSet(h, R)
  BY <1>3, <1>4, SumChosen
<1>8. f[Chosen(V)] \in Int /\ h[Chosen(V)] \in Int /\ f[Chosen(V)] <= h[Chosen(V)]
  BY <1>4
<1> QED BY <1>2, <1>5, <1>6, <1>7, <1>8

\* The sum depends on the values over the set alone.
LEMMA SumSame ==
  ASSUME NEW S, IsFiniteSet(S), NEW f, NEW h, \A x \in S : f[x] = h[x]
  PROVE  SumFunctionOnSet(f, S) = SumFunctionOnSet(h, S)
<1> DEFINE B == {U \in SUBSET S : SumFunctionOnSet(f, U) # SumFunctionOnSet(h, U)}
<1>1. SUFFICES ASSUME B # {} PROVE FALSE OBVIOUS
<1>2. PICK V \in B : \A W \in B : W \subseteq V => W = V
  <2>1. B \in SUBSET SUBSET S OBVIOUS
  <2> HIDE DEF B
  <2> QED BY <1>1, <2>1, SmallestSubset
<1>3. V # {} BY SumEmpty
<1>4. Chosen(V) \in V /\ IsFiniteSet(V) BY <1>3, ChosenIsIn, FS_Subset
<1>5. SumFunctionOnSet(f, V \ {Chosen(V)}) = SumFunctionOnSet(h, V \ {Chosen(V)})
  BY <1>2, <1>4
<1>6. f[Chosen(V)] = h[Chosen(V)] BY <1>4
<1>7. /\ SumFunctionOnSet(f, V) = f[Chosen(V)] + SumFunctionOnSet(f, V \ {Chosen(V)})
      /\ SumFunctionOnSet(h, V) = h[Chosen(V)] + SumFunctionOnSet(h, V \ {Chosen(V)})
  BY <1>3, <1>4, SumChosen
<1> QED BY <1>2, <1>5, <1>6, <1>7

\* A sum of natural numbers is one.
LEMMA SumNat ==
  ASSUME NEW S, IsFiniteSet(S), NEW f, \A x \in S : f[x] \in Nat
  PROVE  SumFunctionOnSet(f, S) \in Nat
<1> DEFINE B == {U \in SUBSET S : SumFunctionOnSet(f, U) \notin Nat}
<1>1. SUFFICES ASSUME B # {} PROVE FALSE OBVIOUS
<1>2. PICK V \in B : \A W \in B : W \subseteq V => W = V
  <2>1. B \in SUBSET SUBSET S OBVIOUS
  <2> HIDE DEF B
  <2> QED BY <1>1, <2>1, SmallestSubset
<1>3. V # {} BY SumEmpty
<1>4. Chosen(V) \in V /\ IsFiniteSet(V) BY <1>3, ChosenIsIn, FS_Subset
<1>5. SumFunctionOnSet(f, V \ {Chosen(V)}) \in Nat BY <1>2, <1>4
<1>6. SumFunctionOnSet(f, V) = f[Chosen(V)] + SumFunctionOnSet(f, V \ {Chosen(V)})
  BY <1>3, <1>4, SumChosen
<1> QED BY <1>4, <1>5, <1>6

\* A subset does not sum up to more.
LEMMA SumOfMore ==
  ASSUME NEW S, IsFiniteSet(S), NEW f, \A x \in S : f[x] \in Nat, NEW T \in SUBSET S
  PROVE  SumFunctionOnSet(f, T) <= SumFunctionOnSet(f, S)
<1> DEFINE B == {U \in SUBSET S :
                   T \subseteq U /\ ~(SumFunctionOnSet(f, T) <= SumFunctionOnSet(f, U))}
<1>1. SUFFICES ASSUME B # {} PROVE FALSE OBVIOUS
<1>2. PICK V \in B : \A W \in B : W \subseteq V => W = V
  <2>1. B \in SUBSET SUBSET S OBVIOUS
  <2> HIDE DEF B
  <2> QED BY <1>1, <2>1, SmallestSubset
<1>3. IsFiniteSet(V) /\ IsFiniteSet(T) BY FS_Subset
<1>4. SumFunctionOnSet(f, T) \in Nat BY <1>3, SumNat
<1>5. V # T BY <1>2, <1>4
<1>6. PICK y \in V : y \notin T BY <1>2, <1>5
<1>7. IsFiniteSet(V \ {y}) BY <1>3, FS_RemoveElement
<1>8. SumFunctionOnSet(f, V \ {y}) \in Nat BY <1>7, SumNat
<1>9. SumFunctionOnSet(f, T) <= SumFunctionOnSet(f, V \ {y}) BY <1>2, <1>6
<1>10. SumFunctionOnSet(f, V) = f[y] + SumFunctionOnSet(f, V \ {y}) BY <1>3, SumRemove
<1> QED BY <1>2, <1>4, <1>8, <1>9, <1>10
=============================================================================
