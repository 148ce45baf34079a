------------------------------ MODULE SumProofs ------------------------------
(* Lemmas about sums over finite sets, which the conservation of money, the   *)
(* logs and the wealth of accounts are stated with.  SumFunction adds up by   *)
(* recursion over subsets; induction over finite sets is done here with a     *)
(* smallest counterexample, which the strict subset order always has.         *)
EXTENDS FiniteSetsExt, FiniteSetTheorems, TLAPS

(* A set of subsets of a finite set has a smallest element.                   *)
LEMMA SmallestSubset ==
  ASSUME NEW S, IsFiniteSet(S), NEW W \in SUBSET (SUBSET S), W # {}
  PROVE  \E m \in W : \A t \in W : t \subseteq m => t = m
<1>1. IsWellFoundedOn(StrictSubsetOrdering(S), SUBSET S)
  BY FS_FiniteSubsetsOfFinite, FS_StrictSubsetOrderingWellFounded
<1>2. PICK m \in W : \A t \in W : ~(<<t, m>> \in StrictSubsetOrdering(S))
  BY <1>1, WFMin
<1> QED
  BY <1>2 DEF StrictSubsetOrdering

-----------------------------------------------------------------------------
(* The function SumFunctionOnSet is defined by, for the terms of f.           *)
First(s) == CHOOSE x \in s : TRUE
Rest(s) == s \ {First(s)}

Adds(f, S, g) ==
  g = [s \in SUBSET S |-> IF s = {} THEN 0 ELSE f[First(s)] + g[Rest(s)]]

(* First takes an element, the rest is smaller.                               *)
LEMMA FirstRest ==
  ASSUME NEW s, s # {}
  PROVE  First(s) \in s /\ Rest(s) \subseteq s /\ Rest(s) # s
BY DEF First, Rest

(* The equation of Adds, at one set.                                          *)
LEMMA AddsAt ==
  ASSUME NEW f, NEW S, NEW g, Adds(f, S, g), NEW s \in SUBSET S
  PROVE  g[s] = IF s = {} THEN 0 ELSE f[First(s)] + g[Rest(s)]
BY DEF Adds

(* Two such functions agree on every set they both know: the sum of a set is  *)
(* the same whatever set it is taken as a part of.                            *)
LEMMA AddsUnique ==
  ASSUME NEW e, NEW f, NEW S, NEW T, NEW g, NEW h, IsFiniteSet(S),
         Adds(e, S, g), Adds(f, T, h), NEW s \in SUBSET S, s \subseteq T,
         \A x \in s : e[x] = f[x]
  PROVE  g[s] = h[s]
<1> DEFINE W == {r \in SUBSET s : g[r] # h[r]}
<1> SUFFICES ASSUME W # {}
             PROVE  FALSE
  OBVIOUS
<1>1. IsFiniteSet(s)
  BY FS_Subset
<1>2. W \in SUBSET (SUBSET s)
  OBVIOUS
<1> HIDE DEF W
<1>3. PICK m \in W : \A t \in W : t \subseteq m => t = m
  BY <1>1, <1>2, SmallestSubset
<1> USE DEF W
<1>4. m \subseteq s /\ m \in SUBSET S /\ m \in SUBSET T
  OBVIOUS
<1>5. /\ g[m] = IF m = {} THEN 0 ELSE e[First(m)] + g[Rest(m)]
      /\ h[m] = IF m = {} THEN 0 ELSE f[First(m)] + h[Rest(m)]
  BY <1>4, AddsAt
<1>6. m # {}
  BY <1>5
<1>7. First(m) \in m /\ Rest(m) \subseteq m /\ Rest(m) # m
  BY <1>6, FirstRest
<1>8. g[Rest(m)] = h[Rest(m)]
  BY <1>3, <1>4, <1>7
<1> QED
  BY <1>4, <1>5, <1>6, <1>7, <1>8

(* Such a function exists for finite sets of integer terms.                   *)
LEMMA AddsExists ==
  ASSUME NEW S, IsFiniteSet(S), NEW f, \A x \in S : f[x] \in Int
  PROVE  \E g \in [SUBSET S -> Int] : Adds(f, S, g)
<1> DEFINE W == {T \in SUBSET S : ~\E g \in [SUBSET T -> Int] : Adds(f, T, g)}
<1> SUFFICES ASSUME W # {}
             PROVE  FALSE
  OBVIOUS
<1>0. W \in SUBSET (SUBSET S)
  OBVIOUS
<1> HIDE DEF W
<1>1. PICK m \in W : \A t \in W : t \subseteq m => t = m
  BY <1>0, SmallestSubset
<1> USE DEF W
<1> DEFINE fn == [T \in SUBSET m |-> CHOOSE g \in [SUBSET T -> Int] : Adds(f, T, g)]
           sum == [T \in SUBSET m |-> fn[T][T]]
           h == [s \in SUBSET m |-> IF s = {} THEN 0 ELSE f[First(s)] + sum[Rest(s)]]
<1>2. ASSUME NEW T \in SUBSET m, T # m
      PROVE  fn[T] \in [SUBSET T -> Int] /\ Adds(f, T, fn[T])
  <2>1. \E g \in [SUBSET T -> Int] : Adds(f, T, g)
    BY <1>1, <1>2
  <2> QED
    BY <2>1
<1> HIDE DEF fn
<1>3. ASSUME NEW T \in SUBSET m, T # m
      PROVE  sum[T] \in Int /\ sum[T] = IF T = {} THEN 0 ELSE f[First(T)] + sum[Rest(T)]
  <2>1. fn[T][T] \in Int
    BY <1>2, <1>3
  <2>2. sum[T] = fn[T][T]
    OBVIOUS
  <2>3. fn[T][T] = IF T = {} THEN 0 ELSE f[First(T)] + fn[T][Rest(T)]
    <3>1. \A g : Adds(f, T, g) => g[T] = IF T = {} THEN 0 ELSE f[First(T)] + g[Rest(T)]
      BY AddsAt
    <3> QED
      BY <1>2, <1>3, <3>1
  <2>4. CASE T # {}
    <3>1. Rest(T) \subseteq T /\ Rest(T) \in SUBSET m /\ Rest(T) # m
      BY <1>3, <2>4, FirstRest
    <3>2. IsFiniteSet(T)
      BY <1>3, FS_Subset
    <3>3. Adds(f, T, fn[T]) /\ Adds(f, Rest(T), fn[Rest(T)])
      BY <1>2, <1>3, <3>1
    <3>4. fn[T][Rest(T)] = fn[Rest(T)][Rest(T)]
      BY <3>1, <3>2, <3>3, AddsUnique
    <3> QED
      BY <2>1, <2>2, <2>3, <2>4, <3>1, <3>4
  <2> QED
    BY <2>1, <2>2, <2>3, <2>4
<1> HIDE DEF sum
<1>4. ASSUME NEW s \in SUBSET m, s # {}
      PROVE  First(s) \in m /\ Rest(s) \in SUBSET m /\ Rest(s) # m
  BY <1>4, FirstRest
<1>5. h \in [SUBSET m -> Int]
  <2>1. ASSUME NEW s \in SUBSET m, s # {}
        PROVE  f[First(s)] + sum[Rest(s)] \in Int
    BY <1>3, <1>4, <2>1
  <2> QED
    BY <2>1
<1>6. ASSUME NEW s \in SUBSET m
      PROVE  h[s] = IF s = {} THEN 0 ELSE f[First(s)] + h[Rest(s)]
  <2>1. CASE s # {}
    <3>1. h[Rest(s)] = sum[Rest(s)]
      BY <1>3, <1>4, <2>1
    <3> QED
      BY <2>1, <3>1
  <2> QED
    BY <2>1
<1>7. Adds(f, m, h)
  BY <1>6 DEF Adds
<1> QED
  BY <1>5, <1>7

-----------------------------------------------------------------------------
(* What the sum is, for finite sets of integer terms.                         *)

(* The sum is the value at S of a function that Adds describes.               *)
LEMMA SumIsAdds ==
  ASSUME NEW S, IsFiniteSet(S), NEW f, \A x \in S : f[x] \in Int, NEW g, Adds(f, S, g),
         NEW T \in SUBSET S
  PROVE  SumFunctionOnSet(f, T) = g[T]
<1> DEFINE h == CHOOSE e : Adds(f, T, e)
<1>1. IsFiniteSet(T)
  BY FS_Subset
<1>2. \E e \in [SUBSET T -> Int] : Adds(f, T, e)
  BY <1>1, AddsExists
<1>3. Adds(f, T, h)
  BY <1>2
<1>4. SumFunctionOnSet(f, T) = h[T]
  BY DEF SumFunctionOnSet, FoldFunctionOnSet, MapThenFoldSet, Adds, First, Rest
<1> HIDE DEF h
<1>5. h[T] = g[T]
  BY <1>1, <1>3, AddsUnique
<1> QED
  BY <1>4, <1>5

(* The sum over no element.                                                   *)
LEMMA SumEmpty ==
  ASSUME NEW f
  PROVE  SumFunctionOnSet(f, {}) = 0
<1>1. PICK g \in [SUBSET {} -> Int] : Adds(f, {}, g)
  BY FS_EmptySet, AddsExists
<1>2. SumFunctionOnSet(f, {}) = g[{}]
  BY <1>1, FS_EmptySet, SumIsAdds
<1>3. g[{}] = 0
  BY <1>1, AddsAt
<1> QED
  BY <1>2, <1>3

(* The sum of integers is one.                                                *)
LEMMA SumInt ==
  ASSUME NEW S, IsFiniteSet(S), NEW f, \A x \in S : f[x] \in Int
  PROVE  SumFunctionOnSet(f, S) \in Int
<1>1. PICK g \in [SUBSET S -> Int] : Adds(f, S, g)
  BY AddsExists
<1>2. SumFunctionOnSet(f, S) = g[S]
  BY <1>1, SumIsAdds
<1> QED
  BY <1>2

(* Two functions that agree on a set have the same sum.                       *)
LEMMA SumAgree ==
  ASSUME NEW S, IsFiniteSet(S), NEW e, NEW f, \A x \in S : e[x] = f[x] /\ f[x] \in Int
  PROVE  SumFunctionOnSet(e, S) = SumFunctionOnSet(f, S)
<1>1. PICK g \in [SUBSET S -> Int] : Adds(e, S, g)
  BY AddsExists
<1>2. PICK h \in [SUBSET S -> Int] : Adds(f, S, h)
  BY AddsExists
<1>3. SumFunctionOnSet(e, S) = g[S] /\ SumFunctionOnSet(f, S) = h[S]
  BY <1>1, <1>2, SumIsAdds
<1>4. g[S] = h[S]
  BY <1>1, <1>2, AddsUnique
<1> QED
  BY <1>3, <1>4

(* The order of the recursion does not matter: any element may be taken first.*)
LEMMA SumTake ==
  ASSUME NEW S, IsFiniteSet(S), NEW f, \A x \in S : f[x] \in Int, NEW x \in S
  PROVE  SumFunctionOnSet(f, S) = f[x] + SumFunctionOnSet(f, S \ {x})
<1>1. PICK g \in [SUBSET S -> Int] : Adds(f, S, g)
  BY AddsExists
<1> DEFINE W == {T \in SUBSET S : \E y \in T : g[T] # f[y] + g[T \ {y}]}
<1>2. W = {}
  <2> SUFFICES ASSUME W # {}
               PROVE  FALSE
    OBVIOUS
  <2>1. W \in SUBSET (SUBSET S)
    OBVIOUS
  <2> HIDE DEF W
  <2>2. PICK m \in W : \A t \in W : t \subseteq m => t = m
    BY <2>1, SmallestSubset
  <2> USE DEF W
  <2>3. PICK y \in m : g[m] # f[y] + g[m \ {y}]
    OBVIOUS
  <2>4. \A T \in SUBSET m : T # m => \A v \in T : g[T] = f[v] + g[T \ {v}]
    BY <2>2
  <2>5. m \in SUBSET S /\ m # {}
    OBVIOUS
  <2> HIDE DEF W
  <2> DEFINE z == First(m)
  <2>6. z \in m /\ Rest(m) = m \ {z}
    BY <2>5, FirstRest DEF Rest
  <2>7. g[m] = f[z] + g[m \ {z}]
    <3>1. \A h : Adds(f, S, h) => h[m] = IF m = {} THEN 0 ELSE f[First(m)] + h[Rest(m)]
      BY <2>5, AddsAt
    <3> QED
      BY <1>1, <2>5, <2>6, <3>1
  <2> HIDE DEF z
  <2>8. y # z
    BY <2>3, <2>7
  <2> DEFINE most == (m \ {z}) \ {y}
  <2>9. g[m \ {z}] = f[y] + g[most]
    BY <2>4, <2>6, <2>8
  <2>10. g[m \ {y}] = f[z] + g[most]
    <3>1. most = (m \ {y}) \ {z}
      OBVIOUS
    <3> HIDE DEF most
    <3> QED
      BY <2>4, <2>6, <2>8, <3>1
  <2>11. f[y] \in Int /\ f[z] \in Int /\ g[most] \in Int
    BY <2>5, <2>6
  <2> HIDE DEF most
  <2> QED
    BY <2>3, <2>7, <2>9, <2>10, <2>11
<1>3. SumFunctionOnSet(f, S) = g[S] /\ SumFunctionOnSet(f, S \ {x}) = g[S \ {x}]
  <2>1. S \in SUBSET S /\ S \ {x} \in SUBSET S
    OBVIOUS
  <2> QED
    BY <1>1, <2>1, SumIsAdds
<1> QED
  BY <1>2, <1>3

(* Adding an element adds its term.                                           *)
LEMMA SumAdd ==
  ASSUME NEW S, IsFiniteSet(S), NEW x, x \notin S,
         NEW f, \A y \in S \cup {x} : f[y] \in Int
  PROVE  SumFunctionOnSet(f, S \cup {x}) = f[x] + SumFunctionOnSet(f, S)
<1>1. IsFiniteSet(S \cup {x}) /\ (S \cup {x}) \ {x} = S
  BY FS_AddElement
<1> QED
  BY <1>1, SumTake

(* Changing one value changes the sum by the difference.                      *)
LEMMA SumChange ==
  ASSUME NEW S, IsFiniteSet(S), NEW f, NEW e, \A x \in S : f[x] \in Int /\ e[x] \in Int,
         NEW a \in S, \A x \in S \ {a} : e[x] = f[x]
  PROVE  SumFunctionOnSet(e, S) = SumFunctionOnSet(f, S) - f[a] + e[a]
<1>1. IsFiniteSet(S \ {a})
  BY FS_RemoveElement
<1>2. SumFunctionOnSet(e, S \ {a}) = SumFunctionOnSet(f, S \ {a})
  BY <1>1, SumAgree
<1>3. SumFunctionOnSet(f, S \ {a}) \in Int
  BY <1>1, SumInt
<1>4. SumFunctionOnSet(e, S) = e[a] + SumFunctionOnSet(e, S \ {a})
  BY SumTake
<1>5. SumFunctionOnSet(f, S) = f[a] + SumFunctionOnSet(f, S \ {a})
  BY SumTake
<1> QED
  BY <1>2, <1>3, <1>4, <1>5

(* A sum is the sum of a part and the sum of what is left.                    *)
LEMMA SumSplit ==
  ASSUME NEW S, IsFiniteSet(S), NEW f, \A x \in S : f[x] \in Int, NEW P \in SUBSET S
  PROVE  SumFunctionOnSet(f, S) = SumFunctionOnSet(f, P) + SumFunctionOnSet(f, S \ P)
<1> DEFINE W == {T \in SUBSET P : SumFunctionOnSet(f, S) # SumFunctionOnSet(f, T) + SumFunctionOnSet(f, S \ T)}
<1> SUFFICES ASSUME W # {}
             PROVE  FALSE
  OBVIOUS
<1>1. W \in SUBSET (SUBSET P) /\ IsFiniteSet(P)
  BY FS_Subset
<1> HIDE DEF W
<1>2. PICK m \in W : \A t \in W : t \subseteq m => t = m
  BY <1>1, SmallestSubset
<1> USE DEF W
<1>3. m \subseteq S /\ SumFunctionOnSet(f, S) # SumFunctionOnSet(f, m) + SumFunctionOnSet(f, S \ m)
  OBVIOUS
<1>4. SumFunctionOnSet(f, S) \in Int
  BY SumInt
<1>5. m # {}
  <2>1. SUFFICES ASSUME m = {}
                 PROVE  FALSE
    OBVIOUS
  <2>2. S \ m = S
    BY <2>1
  <2> QED
    BY <1>3, <1>4, <2>1, <2>2, SumEmpty
<1>6. PICK x : x \in m
  BY <1>5
<1> DEFINE less == m \ {x}
           left == S \ m
<1>7. less \in SUBSET P /\ less \subseteq m /\ less # m
  BY <1>6
<1>8. SumFunctionOnSet(f, S) = SumFunctionOnSet(f, less) + SumFunctionOnSet(f, S \ less)
  BY <1>2, <1>7
<1>9. S \ less = left \cup {x} /\ x \notin left
  BY <1>3, <1>6
<1>10. IsFiniteSet(m) /\ IsFiniteSet(less) /\ IsFiniteSet(left)
  BY <1>3, <1>7, FS_Subset, FS_Difference
<1>11. SumFunctionOnSet(f, m) = f[x] + SumFunctionOnSet(f, less)
  BY <1>3, <1>6, <1>10, SumTake
<1>12. SumFunctionOnSet(f, left \cup {x}) = f[x] + SumFunctionOnSet(f, left)
  BY <1>3, <1>6, <1>9, <1>10, SumAdd
<1>13. SumFunctionOnSet(f, less) \in Int /\ SumFunctionOnSet(f, left) \in Int /\ f[x] \in Int
  BY <1>3, <1>6, <1>10, SumInt
<1>14. SumFunctionOnSet(f, S \ less) = f[x] + SumFunctionOnSet(f, left)
  BY <1>9, <1>12
<1>15. SumFunctionOnSet(f, S) # SumFunctionOnSet(f, m) + SumFunctionOnSet(f, left)
  BY <1>3
<1> HIDE DEF W, less, left
<1> QED
  BY <1>8, <1>11, <1>13, <1>14, <1>15

(* The sum of natural numbers is one.                                         *)
LEMMA SumNat ==
  ASSUME NEW S, IsFiniteSet(S), NEW f, \A x \in S : f[x] \in Nat
  PROVE  SumFunctionOnSet(f, S) \in Nat
<1> DEFINE W == {T \in SUBSET S : SumFunctionOnSet(f, T) \notin Nat}
<1> SUFFICES ASSUME W # {}
             PROVE  FALSE
  OBVIOUS
<1>1. W \in SUBSET (SUBSET S)
  OBVIOUS
<1> HIDE DEF W
<1>2. PICK m \in W : \A t \in W : t \subseteq m => t = m
  BY <1>1, SmallestSubset
<1> USE DEF W
<1>3. m # {}
  BY SumEmpty
<1>4. PICK x : x \in m
  BY <1>3
<1>5. IsFiniteSet(m) /\ m \subseteq S
  BY FS_Subset
<1>6. SumFunctionOnSet(f, m \ {x}) \in Nat
  BY <1>2, <1>4, <1>5
<1>7. SumFunctionOnSet(f, m) = f[x] + SumFunctionOnSet(f, m \ {x})
  BY <1>4, <1>5, SumTake
<1> QED
  BY <1>4, <1>5, <1>6, <1>7

(* Nothing but zeros adds up to zero.                                         *)
LEMMA SumZero ==
  ASSUME NEW S, IsFiniteSet(S), NEW f, \A x \in S : f[x] = 0
  PROVE  SumFunctionOnSet(f, S) = 0
<1> DEFINE W == {T \in SUBSET S : SumFunctionOnSet(f, T) # 0}
<1> SUFFICES ASSUME W # {}
             PROVE  FALSE
  OBVIOUS
<1>1. W \in SUBSET (SUBSET S)
  OBVIOUS
<1> HIDE DEF W
<1>2. PICK m \in W : \A t \in W : t \subseteq m => t = m
  BY <1>1, SmallestSubset
<1> USE DEF W
<1>3. PICK x : x \in m
  BY SumEmpty
<1>4. IsFiniteSet(m) /\ m \subseteq S /\ \A y \in m : f[y] \in Int
  BY FS_Subset
<1>5. SumFunctionOnSet(f, m \ {x}) = 0
  BY <1>2, <1>3, <1>4
<1>6. SumFunctionOnSet(f, m) = f[x] + SumFunctionOnSet(f, m \ {x})
  BY <1>3, <1>4, SumTake
<1> QED
  BY <1>3, <1>4, <1>5, <1>6

Image(h, A) == {h[x] : x \in A}

(* An image of a finite set is finite.                                        *)
LEMMA ImageFinite ==
  ASSUME NEW S, IsFiniteSet(S), NEW h
  PROVE  IsFiniteSet(Image(h, S))
<1> DEFINE k == [x \in S |-> h[x]]
<1>1. k \in Surjection(S, Image(h, S))
  BY DEF Surjection, Image
<1> HIDE DEF k
<1> QED
  BY <1>1, FS_Surjection

(* Terms under other names: h renames the elements of S, one to one.          *)
LEMMA SumImage ==
  ASSUME NEW S, IsFiniteSet(S), NEW f, NEW g, NEW h,
         \A x \in S : f[x] \in Int /\ g[h[x]] = f[x],
         \A x, y \in S : h[x] = h[y] => x = y
  PROVE  SumFunctionOnSet(g, Image(h, S)) = SumFunctionOnSet(f, S)
<1> DEFINE W == {T \in SUBSET S : SumFunctionOnSet(g, Image(h, T)) # SumFunctionOnSet(f, T)}
<1> SUFFICES ASSUME W # {}
             PROVE  FALSE
  OBVIOUS
<1>1. W \in SUBSET (SUBSET S)
  OBVIOUS
<1> HIDE DEF W
<1>2. PICK m \in W : \A t \in W : t \subseteq m => t = m
  BY <1>1, SmallestSubset
<1> USE DEF W
<1>3. IsFiniteSet(m) /\ m \subseteq S
  BY FS_Subset
<1>4. Image(h, {}) = {}
  BY DEF Image
<1>5. PICK x : x \in m
  BY <1>2, <1>4, SumEmpty
<1>6. SumFunctionOnSet(g, Image(h, m \ {x})) = SumFunctionOnSet(f, m \ {x})
  BY <1>2, <1>3, <1>5
<1>7. SumFunctionOnSet(f, m) = f[x] + SumFunctionOnSet(f, m \ {x})
  BY <1>3, <1>5, SumTake
<1>8. Image(h, m \ {x}) = Image(h, m) \ {h[x]} /\ h[x] \in Image(h, m)
  BY <1>3, <1>5 DEF Image
<1>9. IsFiniteSet(Image(h, m)) /\ \A y \in Image(h, m) : g[y] \in Int
  BY <1>3, ImageFinite DEF Image
<1>10. SumFunctionOnSet(g, Image(h, m)) = g[h[x]] + SumFunctionOnSet(g, Image(h, m) \ {h[x]})
  BY <1>8, <1>9, SumTake
<1>11. g[h[x]] = f[x]
  BY <1>3, <1>5
<1> QED
  BY <1>2, <1>6, <1>7, <1>8, <1>10, <1>11

-----------------------------------------------------------------------------
(* The same for a function as a whole.                                        *)

(* The sum of a function is an integer, and zero if it has no terms.          *)
LEMMA SumFunctionInt ==
  ASSUME NEW S, IsFiniteSet(S), NEW f \in [S -> Int]
  PROVE  SumFunction(f) \in Int /\ (S = {} => SumFunction(f) = 0)
BY SumInt, SumEmpty DEF SumFunction

(* The sum of natural numbers is one.                                         *)
LEMMA SumFunctionNat ==
  ASSUME NEW S, IsFiniteSet(S), NEW f \in [S -> Nat]
  PROVE  SumFunction(f) \in Nat
BY SumNat DEF SumFunction

(* The sum of zeros is zero.                                                  *)
LEMMA SumFunctionZero ==
  ASSUME NEW S, IsFiniteSet(S), NEW f \in [S -> {0}]
  PROVE  SumFunction(f) = 0
BY SumZero DEF SumFunction

(* A function with one term less.                                             *)
LEMMA SumFunctionTake ==
  ASSUME NEW S, IsFiniteSet(S), NEW f \in [S -> Int], NEW x \in S,
         NEW e \in [S \ {x} -> Int], \A y \in S \ {x} : e[y] = f[y]
  PROVE  SumFunction(f) = f[x] + SumFunction(e)
<1>1. IsFiniteSet(S \ {x})
  BY FS_RemoveElement
<1>2. SumFunctionOnSet(e, S \ {x}) = SumFunctionOnSet(f, S \ {x})
  BY <1>1, SumAgree
<1>3. SumFunctionOnSet(f, S) = f[x] + SumFunctionOnSet(f, S \ {x})
  BY SumTake
<1> QED
  BY <1>2, <1>3 DEF SumFunction

(* No term of a sum of natural numbers exceeds it.                            *)
LEMMA SumFunctionBounds ==
  ASSUME NEW S, IsFiniteSet(S), NEW f \in [S -> Nat], NEW x \in S
  PROVE  f[x] <= SumFunction(f)
<1> DEFINE e == [y \in S \ {x} |-> f[y]]
<1>1. e \in [S \ {x} -> Nat] /\ e \in [S \ {x} -> Int] /\ \A y \in S \ {x} : e[y] = f[y]
  OBVIOUS
<1>2. f \in [S -> Int] /\ f[x] \in Nat /\ IsFiniteSet(S \ {x})
  BY FS_RemoveElement
<1> HIDE DEF e
<1>3. SumFunction(f) = f[x] + SumFunction(e)
  BY <1>1, <1>2, SumFunctionTake
<1>4. SumFunction(e) \in Nat
  BY <1>1, <1>2, SumFunctionNat
<1> QED
  BY <1>2, <1>3, <1>4

(* A function taken apart.                                                    *)
LEMMA SumFunctionSplit ==
  ASSUME NEW S, IsFiniteSet(S), NEW f \in [S -> Int], NEW P \in SUBSET S,
         NEW d \in [P -> Int], \A y \in P : d[y] = f[y],
         NEW e \in [S \ P -> Int], \A y \in S \ P : e[y] = f[y]
  PROVE  SumFunction(f) = SumFunction(d) + SumFunction(e)
<1>1. IsFiniteSet(P) /\ IsFiniteSet(S \ P)
  BY FS_Subset, FS_Difference
<1>2. SumFunctionOnSet(d, P) = SumFunctionOnSet(f, P)
  BY <1>1, SumAgree
<1>3. SumFunctionOnSet(e, S \ P) = SumFunctionOnSet(f, S \ P)
  BY <1>1, SumAgree
<1>4. SumFunctionOnSet(f, S) = SumFunctionOnSet(f, P) + SumFunctionOnSet(f, S \ P)
  BY SumSplit
<1> QED
  BY <1>2, <1>3, <1>4 DEF SumFunction

(* Of numbers that are not negative, a part adds up to no more than the whole. *)
LEMMA SumFunctionPart ==
  ASSUME NEW S, IsFiniteSet(S), NEW f \in [S -> Nat], NEW P \in SUBSET S,
         NEW d \in [P -> Nat], \A y \in P : d[y] = f[y]
  PROVE  /\ SumFunction(d) \in Nat /\ SumFunction(f) \in Nat
         /\ SumFunction(d) <= SumFunction(f)
<1> DEFINE e == [y \in S \ P |-> f[y]]
<1>1. e \in [S \ P -> Nat] /\ \A y \in S \ P : e[y] = f[y]
  OBVIOUS
<1>2. IsFiniteSet(P) /\ IsFiniteSet(S \ P)
  BY FS_Subset
<1>3. f \in [S -> Int] /\ d \in [P -> Int] /\ e \in [S \ P -> Int]
  OBVIOUS
<1> HIDE DEF e
<1>4. SumFunction(f) = SumFunction(d) + SumFunction(e)
  BY <1>1, <1>3, SumFunctionSplit
<1>5. SumFunction(d) \in Nat /\ SumFunction(e) \in Nat
  BY <1>1, <1>2, SumFunctionNat
<1> QED
  BY <1>4, <1>5

(* A function with one value changed.                                         *)
LEMMA SumFunctionChange ==
  ASSUME NEW S, IsFiniteSet(S), NEW f \in [S -> Int], NEW e \in [S -> Int],
         NEW a \in S, \A x \in S \ {a} : e[x] = f[x]
  PROVE  SumFunction(e) = SumFunction(f) - f[a] + e[a]
<1>1. DOMAIN f = S /\ DOMAIN e = S
  OBVIOUS
<1>2. SumFunctionOnSet(e, S) = SumFunctionOnSet(f, S) - f[a] + e[a]
  BY SumChange
<1> QED
  BY <1>1, <1>2 DEF SumFunction

(* A function with two values changed.                                        *)
LEMMA SumFunctionMove ==
  ASSUME NEW S, IsFiniteSet(S), NEW f \in [S -> Int], NEW e \in [S -> Int],
         NEW a \in S, NEW b \in S, a # b, \A x \in S \ {a, b} : e[x] = f[x]
  PROVE  SumFunction(e) = SumFunction(f) - f[a] - f[b] + e[a] + e[b]
<1> DEFINE d == [f EXCEPT ![a] = e[a]]
<1>1. /\ d \in [S -> Int] /\ d[a] = e[a] /\ d[b] = f[b]
      /\ \A x \in S \ {a} : d[x] = f[x]
      /\ \A x \in S \ {b} : e[x] = d[x]
  OBVIOUS
<1> HIDE DEF d
<1>2. SumFunction(d) = SumFunction(f) - f[a] + d[a]
  BY <1>1, SumFunctionChange
<1>3. SumFunction(e) = SumFunction(d) - d[b] + e[b]
  BY <1>1, SumFunctionChange
<1>4. SumFunction(f) \in Int
  BY SumFunctionInt
<1> QED
  BY <1>1, <1>2, <1>3, <1>4

(* Two functions whose terms correspond one to one.                           *)
LEMMA SumFunctionImage ==
  ASSUME NEW S, IsFiniteSet(S), NEW f \in [S -> Int], NEW h,
         \A x, y \in S : h[x] = h[y] => x = y,
         NEW g \in [Image(h, S) -> Int], \A x \in S : g[h[x]] = f[x]
  PROVE  SumFunction(g) = SumFunction(f)
BY SumImage DEF SumFunction

(* Finitely many integers have a largest one.                                 *)
LEMMA LargestExists ==
  ASSUME NEW S, IsFiniteSet(S), S # {}, S \subseteq Int
  PROVE  \E x \in S : \A y \in S : x >= y
<1> DEFINE Top(T, x) == x \in T /\ \A y \in T : x >= y
           W == {T \in SUBSET S : T # {} /\ ~\E x \in T : Top(T, x)}
<1> SUFFICES ASSUME W # {}
             PROVE  FALSE
  OBVIOUS
<1>1. W \in SUBSET (SUBSET S)
  OBVIOUS
<1> HIDE DEF W
<1>2. PICK m \in W : \A t \in W : t \subseteq m => t = m
  <2>1. IsFiniteSet(S) /\ W # {}
    OBVIOUS
  <2> QED
    BY ONLY <1>1, <2>1, SmallestSubset
<1> USE DEF W
<1>3. PICK x \in m : TRUE
  OBVIOUS
<1> DEFINE rest == m \ {x}
<1>4. x \in Int /\ rest \in SUBSET S /\ rest \subseteq Int /\ rest \subseteq m /\ rest # m
  OBVIOUS
<1>5. CASE rest = {}
  <2>1. \A y \in m : y = x
    BY <1>5
  <2> QED
    BY <1>4, <2>1
<1>6. CASE rest # {}
  <2>1. PICK z \in rest : Top(rest, z)
    BY <1>2, <1>4, <1>6
  <2>2. \A y \in m : y = x \/ y \in rest
    OBVIOUS
  <2>3. z \in Int /\ z \in m /\ \A y \in rest : y \in Int /\ z >= y
    BY <1>4, <2>1
  <2>4. CASE x >= z
    <3>1. \A y \in m : x >= y
      BY <1>4, <2>2, <2>3, <2>4
    <3> QED
      BY <3>1
  <2>5. CASE z >= x
    <3>1. \A y \in m : z >= y
      BY <1>4, <2>2, <2>3, <2>5
    <3> QED
      BY <2>3, <3>1
  <2> QED
    BY <1>4, <2>3, <2>4, <2>5
<1> QED
  BY <1>5, <1>6

(* The latest time of a set of documents is that of one of them.              *)
LEMMA LatestTime ==
  ASSUME NEW docs, IsFiniteSet(docs), docs # {}, \A d \in docs : d.ts \in Int
  PROVE  /\ Max({d.ts : d \in docs}) \in Int
         /\ \A d \in docs : d.ts <= Max({e.ts : e \in docs})
         /\ \E d \in docs : d.ts = Max({e.ts : e \in docs})
<1> DEFINE time == [d \in docs |-> d.ts]
<1>1. PICK times : times = Image(time, docs)
  OBVIOUS
<1>2. \A d \in docs : time[d] = d.ts
  OBVIOUS
<1> HIDE DEF time
<1>3. times = {d.ts : d \in docs}
  BY <1>1, <1>2 DEF Image
<1>4. IsFiniteSet(times)
  BY <1>1, ImageFinite
<1>5. times # {} /\ times \subseteq Int
  BY <1>3
<1>6. \E x \in times : \A y \in times : x >= y
  BY <1>4, <1>5, LargestExists
<1>7. Max(times) \in times /\ \A y \in times : Max(times) >= y
  BY <1>6 DEF Max
<1>8. PICK end : end = Max(times)
  OBVIOUS
<1>9. end \in times /\ end \in Int /\ \A d \in docs : d.ts <= end
  BY <1>3, <1>5, <1>7, <1>8
<1> QED
  BY <1>3, <1>8, <1>9
=============================================================================
