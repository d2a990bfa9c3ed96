---------------------------- MODULE Postings_proofs ----------------------------
(***************************************************************************)
(* What the proofs of the write paths and of the period close cite: facts  *)
(* about sums over finite sets, and about the posting math; and that the   *)
(* loops of plan_append compute it, for every list of postings.            *)
(*                                                                         *)
(* A sum is a recursive function chosen by its equations, over the subsets *)
(* of the set summed.  Everything below comes from those equations by      *)
(* induction on the size of the set, with a set for the induction          *)
(* hypothesis: what holds of each set once it holds of its proper subsets. *)
(* A fold over a list is such a function too, over the sets of positions   *)
(* that are left to take.                                                  *)
(***************************************************************************)
EXTENDS PostingsLoop, TLAPS, FiniteSetTheorems, SequenceTheorems

-----------------------------------------------------------------------------
(* Sums over finite sets *)

(* What is true of a set once it is true of the smaller ones is true of    *)
(* every finite set.                                                       *)
LEMMA SubsetInduction ==
  ASSUME NEW S, IsFiniteSet(S), NEW G,
         \A T \in SUBSET S : (\A U \in SUBSET T : U # T => U \in G) => T \in G
  PROVE  S \in G
<1> DEFINE bad == {T \in SUBSET S : T \notin G}
<1>1. SUFFICES ASSUME bad # {} PROVE FALSE
  OBVIOUS
<1>2. bad \subseteq FiniteSubsetsOf(S)
  BY FS_Subset DEF FiniteSubsetsOf
<1>3. IsWellFoundedOn(StrictSubsetOrdering(S), FiniteSubsetsOf(S))
  BY FS_StrictSubsetOrderingWellFounded
<1> HIDE DEF bad
<1>4. PICK T \in bad : \A U \in bad : <<U, T>> \notin StrictSubsetOrdering(S)
  BY <1>1, <1>2, <1>3, WFMin
<1>5. \A U \in SUBSET T : U # T => U \in G
  BY <1>4 DEF StrictSubsetOrdering, bad
<1> QED
  BY <1>4, <1>5 DEF bad

(* The member the sum of a set takes first.                                *)
Some(s) == CHOOSE x \in s : TRUE

(* The equations of a sum over the subsets of a set.                       *)
Sums(f, T, g) ==
  g = [s \in SUBSET T |-> IF s = {} THEN 0 ELSE f[Some(s)] + g[s \ {Some(s)}]]

(* The equation of the sum over no members.                                *)
LEMMA SumsStart ==
  ASSUME NEW f, NEW T, NEW g, Sums(f, T, g)
  PROVE  g[{}] = 0
BY DEF Sums

(* The equation of the sum over some.                                      *)
LEMMA SumsStep ==
  ASSUME NEW f, NEW T, NEW g, Sums(f, T, g), NEW s \in SUBSET T, s # {}
  PROVE  g[s] = f[Some(s)] + g[s \ {Some(s)}]
BY DEF Sums

(* A set that has members has that one.                                    *)
LEMMA SomeIsMember == ASSUME NEW s, s # {} PROVE Some(s) \in s
BY DEF Some

(* The equations have one solution, whatever larger set they are read over.*)
LEMMA SumsAgree ==
  ASSUME NEW f, NEW S, IsFiniteSet(S), NEW T1, NEW T2, S \subseteq T1, S \subseteq T2,
         NEW g, NEW h, Sums(f, T1, g), Sums(f, T2, h)
  PROVE  g[S] = h[S]
<1> DEFINE G == {s \in SUBSET S : g[s] = h[s]}
<1>1. ASSUME NEW T \in SUBSET S, \A U \in SUBSET T : U # T => U \in G
      PROVE  T \in G
  <2>0. T \in SUBSET T1 /\ T \in SUBSET T2
    OBVIOUS
  <2>1. CASE T = {}
    <3>1. g[T] = 0 /\ h[T] = 0
      BY <2>0, <2>1, SumsStart, SumsStep
    <3> QED
      BY <3>1
  <2>2. CASE T # {}
    <3>1. g[T] = f[Some(T)] + g[T \ {Some(T)}]
      BY <2>0, <2>2, SumsStart, SumsStep
    <3>9. h[T] = f[Some(T)] + h[T \ {Some(T)}]
      BY <2>0, <2>2, SumsStart, SumsStep
    <3>2. T \ {Some(T)} \in G
      BY <1>1, <2>2, SomeIsMember
    <3> QED
      BY <3>1, <3>9, <3>2
  <2> QED
    BY <2>1, <2>2
<1> HIDE DEF G
<1>2. S \in G
  BY <1>1, SubsetInduction
<1> QED
  BY <1>2 DEF G

(* The sums over the subsets of a set, by themselves.                      *)
SumsOf(f, T) == CHOOSE g : Sums(f, T, g)

(* The equations have a solution over a finite set.                        *)
LEMMA SumsExist ==
  ASSUME NEW f, NEW S, IsFiniteSet(S)
  PROVE  Sums(f, S, SumsOf(f, S))
<1> DEFINE Total(T) == SumsOf(f, T)[T]
           G == {T \in SUBSET S : Sums(f, T, SumsOf(f, T))}
<1>1. ASSUME NEW T \in SUBSET S, \A U \in SUBSET T : U # T => U \in G
      PROVE  T \in G
  <2> DEFINE Rest(s) == s \ {Some(s)}
             h == [s \in SUBSET T |-> IF s = {} THEN 0 ELSE f[Some(s)] + Total(Rest(s))]
  <2>1. ASSUME NEW U \in SUBSET T, U # T, U # {}
        PROVE  Total(U) = f[Some(U)] + Total(Rest(U))
    <3>1. /\ Rest(U) \in SUBSET U /\ Rest(U) # T /\ Rest(U) \in SUBSET T
          /\ IsFiniteSet(Rest(U))
      BY <2>1, SomeIsMember, FS_Subset
    <3>2. Sums(f, U, SumsOf(f, U)) /\ Sums(f, Rest(U), SumsOf(f, Rest(U)))
      BY <1>1, <2>1, <3>1
    <3> HIDE DEF Rest
    <3>3. Total(Rest(U)) = SumsOf(f, U)[Rest(U)]
      BY <3>1, <3>2, SumsAgree
    <3>4. Total(U) = f[Some(U)] + SumsOf(f, U)[Rest(U)]
      BY <2>1, <3>2, SumsStart, SumsStep DEF Rest
    <3> QED
      BY <3>3, <3>4
  <2>2. ASSUME {} # T PROVE Total({}) = 0
    BY <1>1, <2>2, SumsStart, SumsStep
  <2> HIDE DEF G, Total
  <2>3. ASSUME NEW s \in SUBSET T, s # {}
        PROVE  h[Rest(s)] = Total(Rest(s))
    <3>1. Rest(s) \in SUBSET T /\ Rest(s) # T
      BY <2>3, SomeIsMember
    <3> HIDE DEF Rest
    <3>2. CASE Rest(s) = {}
      BY <2>2, <3>1, <3>2
    <3>3. CASE Rest(s) # {}
      BY <2>1, <3>1, <3>3
    <3> QED
      BY <3>2, <3>3
  <2>4. h = [s \in SUBSET T |-> IF s = {} THEN 0 ELSE f[Some(s)] + h[Rest(s)]]
    BY <2>3
  <2>5. Sums(f, T, h)
    BY <2>4 DEF Sums
  <2> QED
    BY <2>5 DEF G, SumsOf
<1> HIDE DEF G
<1>2. S \in G
  BY <1>1, SubsetInduction
<1> QED
  BY <1>2 DEF G

(* SumFunctionOnSet is that solution.                                      *)
LEMMA SumIsSums ==
  ASSUME NEW f, NEW S, IsFiniteSet(S)
  PROVE  \E g : Sums(f, S, g) /\ SumFunctionOnSet(f, S) = g[S]
<1>1. SumFunctionOnSet(f, S) = SumsOf(f, S)[S]
  BY DEF SumFunctionOnSet, FoldFunctionOnSet, MapThenFoldSet, Sums, Some, SumsOf
<1> QED
  BY <1>1, SumsExist

(* The sum over no members is 0; another is that of some member and of the *)
(* rest.                                                                   *)
LEMMA SumUnfolds ==
  ASSUME NEW f, NEW S, IsFiniteSet(S)
  PROVE  SumFunctionOnSet(f, S) =
           IF S = {} THEN 0 ELSE f[Some(S)] + SumFunctionOnSet(f, S \ {Some(S)})
<1>1. PICK g : Sums(f, S, g) /\ SumFunctionOnSet(f, S) = g[S]
  BY SumIsSums
<1>2. S \in SUBSET S
  OBVIOUS
<1>3. S = {} => g[S] = 0
  BY <1>1, SumsStart
<1>9. S # {} => g[S] = f[Some(S)] + g[S \ {Some(S)}]
  BY <1>1, <1>2, SumsStep
<1>4. CASE S = {}
  BY <1>1, <1>3, <1>4
<1>5. CASE S # {}
  <2> DEFINE rest == S \ {Some(S)}
  <2>1. rest \subseteq S /\ IsFiniteSet(rest)
    BY FS_Subset
  <2> HIDE DEF rest
  <2>2. PICK h : Sums(f, rest, h) /\ SumFunctionOnSet(f, rest) = h[rest]
    BY <2>1, SumIsSums
  <2>3. g[rest] = h[rest]
    BY <1>1, <2>1, <2>2, SumsAgree
  <2> QED
    BY <1>1, <1>9, <1>5, <2>2, <2>3 DEF rest
<1> QED
  BY <1>4, <1>5

(* No members add up to 0.                                                 *)
LEMMA SumEmpty == ASSUME NEW f PROVE SumFunctionOnSet(f, {}) = 0
BY SumUnfolds, FS_EmptySet

(* The sum of a function is over its domain.                               *)
LEMMA SumOverDomain ==
  ASSUME NEW f PROVE SumFunction(f) = SumFunctionOnSet(f, DOMAIN f)
BY DEF SumFunction

(* A sum of integers is that of any one member and of the rest.            *)
LEMMA SumRemove ==
  ASSUME NEW f, NEW S, IsFiniteSet(S), \A x \in S : f[x] \in Int
  PROVE  /\ SumFunctionOnSet(f, S) \in Int
         /\ \A x \in S : SumFunctionOnSet(f, S) = f[x] + SumFunctionOnSet(f, S \ {x})
<1> DEFINE Sum(T) == SumFunctionOnSet(f, T)
           Whole(T) == Sum(T) \in Int /\ \A x \in T : Sum(T) = f[x] + Sum(T \ {x})
           G == {T \in SUBSET S : Whole(T)}
<1>1. ASSUME NEW T \in SUBSET S, \A U \in SUBSET T : U # T => U \in G
      PROVE  T \in G
  <2>1. CASE T = {}
    BY <2>1, SumEmpty
  <2>2. CASE T # {}
    <3> DEFINE y == Some(T)
               Rest == T \ {y}
    <3>1. y \in T /\ IsFiniteSet(T)
      BY <2>2, SomeIsMember, FS_Subset
    <3>2. Sum(T) = f[y] + Sum(Rest)
      BY <2>2, <3>1, SumUnfolds
    <3> HIDE DEF y
    <3>3. Whole(Rest)
      BY <1>1, <3>1
    <3> HIDE DEF Sum
    <3>4. Sum(T) \in Int
      BY <3>1, <3>2, <3>3
    <3>5. ASSUME NEW x \in T, x # y PROVE Sum(T) = f[x] + Sum(T \ {x})
      <4>1. Sum(Rest) = f[x] + Sum(Rest \ {x})
        BY <3>3, <3>5
      <4>2. Whole(T \ {x}) /\ Whole(Rest \ {x})
        BY <1>1, <3>1, <3>5
      <4>3. Sum(T \ {x}) = f[y] + Sum((T \ {x}) \ {y})
        BY <3>1, <3>5, <4>2
      <4>4. (T \ {x}) \ {y} = Rest \ {x}
        OBVIOUS
      <4>5. f[x] \in Int /\ f[y] \in Int /\ Sum(Rest \ {x}) \in Int
        BY <3>1, <4>2
      <4>6. Sum(T \ {x}) = f[y] + Sum(Rest \ {x})
        BY <4>3, <4>4
      <4> QED
        BY <3>2, <4>1, <4>5, <4>6
    <3> QED
      BY <3>1, <3>2, <3>4, <3>5
  <2> QED
    BY <2>1, <2>2
<1> HIDE DEF G
<1>2. S \in G
  BY <1>1, SubsetInduction
<1> QED
  BY <1>2 DEF G

(* One more member adds its term.                                          *)
LEMMA SumAdd ==
  ASSUME NEW f, NEW S, IsFiniteSet(S), NEW x, x \notin S, \A y \in S \cup {x} : f[y] \in Int
  PROVE  SumFunctionOnSet(f, S \cup {x}) = f[x] + SumFunctionOnSet(f, S)
<1>1. IsFiniteSet(S \cup {x}) /\ (S \cup {x}) \ {x} = S
  BY FS_AddElement
<1> QED
  BY <1>1, SumRemove

(* The numbers summed decide the sum.                                      *)
LEMMA SumSame ==
  ASSUME NEW f, NEW g, NEW S, IsFiniteSet(S), \A x \in S : f[x] = g[x]
  PROVE  SumFunctionOnSet(f, S) = SumFunctionOnSet(g, S)
<1> DEFINE G == {T \in SUBSET S : SumFunctionOnSet(f, T) = SumFunctionOnSet(g, T)}
<1>1. ASSUME NEW T \in SUBSET S, \A U \in SUBSET T : U # T => U \in G
      PROVE  T \in G
  <2>1. CASE T = {}
    BY <2>1, SumEmpty
  <2>2. CASE T # {}
    <3>1. Some(T) \in T /\ IsFiniteSet(T)
      BY <2>2, SomeIsMember, FS_Subset
    <3>2. SumFunctionOnSet(f, T) = f[Some(T)] + SumFunctionOnSet(f, T \ {Some(T)})
      BY <2>2, <3>1, SumUnfolds
    <3>3. SumFunctionOnSet(g, T) = g[Some(T)] + SumFunctionOnSet(g, T \ {Some(T)})
      BY <2>2, <3>1, SumUnfolds
    <3>4. T \ {Some(T)} \in G
      BY <1>1, <3>1
    <3> QED
      BY <3>1, <3>2, <3>3, <3>4
  <2> QED
    BY <2>1, <2>2
<1> HIDE DEF G
<1>2. S \in G
  BY <1>1, SubsetInduction
<1> QED
  BY <1>2 DEF G

(* What is true of no members, and stays true with one more, is true of a  *)
(* finite set.                                                             *)
LEMMA MemberInduction ==
  ASSUME NEW S, IsFiniteSet(S), NEW G, {} \in G,
         \A T \in SUBSET S : \A x \in S \ T : T \in G => T \cup {x} \in G
  PROVE  S \in G
<1>1. ASSUME NEW T \in SUBSET S, \A U \in SUBSET T : U # T => U \in G
      PROVE  T \in G
  <2>1. CASE T # {}
    <3>1. PICK x \in T : TRUE
      BY <2>1
    <3>2. T \ {x} \in G /\ (T \ {x}) \cup {x} = T /\ x \in S \ (T \ {x})
      BY <1>1, <3>1
    <3> QED
      BY <3>2
  <2> QED
    BY <2>1
<1> QED
  BY <1>1, SubsetInduction

(* A sum of natural numbers is one.                                        *)
LEMMA SumNat ==
  ASSUME NEW f, NEW S, IsFiniteSet(S), \A x \in S : f[x] \in Nat
  PROVE  /\ SumFunctionOnSet(f, S) \in Nat
         /\ \A x \in S : f[x] <= SumFunctionOnSet(f, S)
<1> DEFINE Sum(T) == SumFunctionOnSet(f, T)
           G == {T \in SUBSET S : Sum(T) \in Nat}
<1>1. {} \in G
  BY SumEmpty
<1>2. ASSUME NEW T \in SUBSET S, NEW x \in S \ T, T \in G PROVE T \cup {x} \in G
  <2>1. Sum(T \cup {x}) = f[x] + Sum(T)
    <3>1. IsFiniteSet(T) /\ \A y \in T \cup {x} : f[y] \in Int
      BY <1>2, FS_Subset
    <3> QED
      BY <3>1, SumAdd
  <2> QED
    BY <1>2, <2>1
<1> HIDE DEF G
<1>3. \A T \in SUBSET S : T \in G
  <2> SUFFICES ASSUME NEW T \in SUBSET S PROVE T \in G
    OBVIOUS
  <2>1. IsFiniteSet(T)
    BY FS_Subset
  <2> QED
    BY <1>1, <1>2, <2>1, MemberInduction
<1>4. \A T \in SUBSET S : Sum(T) \in Nat
  BY <1>3 DEF G
<1> HIDE DEF Sum
<1>5. ASSUME NEW x \in S PROVE f[x] <= Sum(S)
  <2>1. Sum(S) = f[x] + Sum(S \ {x})
    BY SumRemove DEF Sum
  <2>2. Sum(S \ {x}) \in Nat
    BY <1>4
  <2> QED
    BY <2>1, <2>2
<1> QED
  BY <1>4, <1>5 DEF Sum

(* The sum over two sets with nothing in common is the sum of the sums.    *)
LEMMA SumUnion ==
  ASSUME NEW f, NEW S, NEW R, IsFiniteSet(S), IsFiniteSet(R), S \cap R = {},
         \A x \in S \cup R : f[x] \in Int
  PROVE  SumFunctionOnSet(f, S \cup R) = SumFunctionOnSet(f, S) + SumFunctionOnSet(f, R)
<1> DEFINE Sum(T) == SumFunctionOnSet(f, T)
           G == {T \in SUBSET S : Sum(T \cup R) = Sum(T) + Sum(R)}
<1>1. {} \in G
  <2>1. Sum({}) = 0 /\ Sum(R) \in Int /\ {} \cup R = R
    BY SumEmpty, SumRemove
  <2> QED
    BY <2>1
<1>2. ASSUME NEW T \in SUBSET S, NEW x \in S \ T, T \in G PROVE T \cup {x} \in G
  <2>1. IsFiniteSet(T) /\ IsFiniteSet(T \cup R)
    BY FS_Subset, FS_Union
  <2>2. Sum(T \cup {x}) = f[x] + Sum(T)
    <3>1. \A y \in T \cup {x} : f[y] \in Int
      OBVIOUS
    <3> QED
      BY <2>1, <3>1, SumAdd
  <2>3. Sum((T \cup R) \cup {x}) = f[x] + Sum(T \cup R)
    <3>1. x \notin T \cup R /\ \A y \in (T \cup R) \cup {x} : f[y] \in Int
      OBVIOUS
    <3> QED
      BY <2>1, <3>1, SumAdd
  <2>4. (T \cup R) \cup {x} = (T \cup {x}) \cup R
    OBVIOUS
  <2>5. Sum(T) \in Int /\ Sum(R) \in Int /\ f[x] \in Int
    BY <2>1, SumRemove
  <2> HIDE DEF Sum
  <2>6. Sum((T \cup {x}) \cup R) = f[x] + Sum(T \cup R)
    BY <2>3, <2>4
  <2> QED
    BY <1>2, <2>2, <2>5, <2>6
<1> HIDE DEF G
<1>3. S \in G
  BY <1>1, <1>2, MemberInduction
<1> QED
  BY <1>3 DEF G

(* Sums add and subtract term by term.                                     *)
LEMMA SumPlus ==
  ASSUME NEW f, NEW g, NEW h, NEW S, IsFiniteSet(S),
         \A x \in S : f[x] \in Int /\ g[x] \in Int /\ h[x] = f[x] + g[x]
  PROVE  SumFunctionOnSet(h, S) = SumFunctionOnSet(f, S) + SumFunctionOnSet(g, S)
<1> DEFINE F(T) == SumFunctionOnSet(f, T)
           E(T) == SumFunctionOnSet(g, T)
           H(T) == SumFunctionOnSet(h, T)
           G == {T \in SUBSET S : H(T) = F(T) + E(T)}
<1>1. {} \in G
  <2>1. F({}) = 0 /\ E({}) = 0 /\ H({}) = 0
    BY SumEmpty
  <2> QED
    BY <2>1
<1>2. ASSUME NEW T \in SUBSET S, NEW x \in S \ T, T \in G PROVE T \cup {x} \in G
  <2>1. IsFiniteSet(T) /\ \A y \in T \cup {x} : f[y] \in Int /\ g[y] \in Int /\ h[y] \in Int
    BY FS_Subset
  <2>2. F(T \cup {x}) = f[x] + F(T)
    BY <2>1, SumAdd
  <2>3. E(T \cup {x}) = g[x] + E(T)
    BY <2>1, SumAdd
  <2>4. H(T \cup {x}) = h[x] + H(T)
    BY <2>1, SumAdd
  <2>5. F(T) \in Int /\ E(T) \in Int
    BY <2>1, SumRemove
  <2> HIDE DEF F, E, H
  <2>6. h[x] = f[x] + g[x] /\ f[x] \in Int /\ g[x] \in Int /\ H(T) = F(T) + E(T)
    BY <1>2
  <2> QED
    BY <2>2, <2>3, <2>4, <2>5, <2>6
<1> HIDE DEF G
<1>3. S \in G
  BY <1>1, <1>2, MemberInduction
<1> QED
  BY <1>3 DEF G

(* Terms that are all 0 add up to 0.                                       *)
LEMMA SumZero ==
  ASSUME NEW f, NEW S, IsFiniteSet(S), \A x \in S : f[x] = 0
  PROVE  SumFunctionOnSet(f, S) = 0
<1> DEFINE G == {T \in SUBSET S : SumFunctionOnSet(f, T) = 0}
<1>1. {} \in G
  BY SumEmpty
<1>2. ASSUME NEW T \in SUBSET S, NEW x \in S \ T, T \in G PROVE T \cup {x} \in G
  <2>1. IsFiniteSet(T) /\ \A y \in T \cup {x} : f[y] \in Int
    BY FS_Subset
  <2>2. SumFunctionOnSet(f, T \cup {x}) = f[x] + SumFunctionOnSet(f, T)
    BY <2>1, SumAdd
  <2> QED
    BY <1>2, <2>2
<1> HIDE DEF G
<1>3. S \in G
  BY <1>1, <1>2, MemberInduction
<1> QED
  BY <1>3 DEF G

(* T has the members of S under other names, no two under one.             *)
Renames(b, S, T) ==
  /\ {b[x] : x \in S} = T
  /\ \A x, y \in S : b[x] = b[y] => x = y

(* Terms may be named otherwise, if no two of them get one name.           *)
LEMMA SumRenamed ==
  ASSUME NEW f, NEW g, NEW S, NEW R, NEW b, IsFiniteSet(S), Renames(b, S, R),
         \A x \in S : f[x] \in Int /\ g[b[x]] = f[x]
  PROVE  IsFiniteSet(R) /\ SumFunctionOnSet(g, R) = SumFunctionOnSet(f, S)
<1> USE DEF Renames
<1> DEFINE Image(T) == {b[x] : x \in T}
           Sum(T) == SumFunctionOnSet(g, Image(T))
           G == {T \in SUBSET S : IsFiniteSet(Image(T)) /\ Sum(T) = SumFunctionOnSet(f, T)}
<1>1. {} \in G
  <2>1. Image({}) = {} /\ IsFiniteSet({})
    BY FS_EmptySet
  <2> HIDE DEF Image
  <2> QED
    BY <2>1, SumEmpty
<1>2. ASSUME NEW T \in SUBSET S, NEW x \in S \ T, T \in G PROVE T \cup {x} \in G
  <2>1. IsFiniteSet(T) /\ \A y \in T \cup {x} : f[y] \in Int
    BY FS_Subset
  <2>2. b[x] \notin Image(T) /\ Image(T \cup {x}) = Image(T) \cup {b[x]}
    OBVIOUS
  <2>3. \A z \in Image(T) \cup {b[x]} : g[z] \in Int
    OBVIOUS
  <2>4. SumFunctionOnSet(f, T \cup {x}) = f[x] + SumFunctionOnSet(f, T)
    BY <2>1, SumAdd
  <2>5. g[b[x]] = f[x]
    OBVIOUS
  <2>6. IsFiniteSet(Image(T)) /\ Sum(T) = SumFunctionOnSet(f, T)
    BY <1>2
  <2> HIDE DEF Image
  <2>7. SumFunctionOnSet(g, Image(T) \cup {b[x]}) = g[b[x]] + Sum(T)
    BY <2>2, <2>3, <2>6, SumAdd
  <2>8. IsFiniteSet(Image(T \cup {x}))
    <3>1. IsFiniteSet(Image(T) \cup {b[x]})
      BY <2>6, FS_AddElement
    <3> QED
      BY <2>2, <3>1
  <2> QED
    BY <1>2, <2>2, <2>4, <2>5, <2>6, <2>7, <2>8
<1> HIDE DEF G
<1>3. S \in G
  BY <1>1, <1>2, MemberInduction
<1> QED
  BY <1>3 DEF G

(* A sum grows by what is added to the set.                                *)
LEMMA SumGrows ==
  ASSUME NEW f, NEW g, NEW S, NEW R, IsFiniteSet(S), IsFiniteSet(R), S \cap R = {},
         \A x \in S : f[x] \in Int /\ g[x] = f[x],
         \A x \in R : g[x] \in Int
  PROVE  SumFunctionOnSet(g, S \cup R) = SumFunctionOnSet(f, S) + SumFunctionOnSet(g, R)
<1>1. SumFunctionOnSet(g, S \cup R) = SumFunctionOnSet(g, S) + SumFunctionOnSet(g, R)
  <2>1. \A x \in S \cup R : g[x] \in Int
    OBVIOUS
  <2> QED
    BY <2>1, SumUnion
<1>2. SumFunctionOnSet(f, S) = SumFunctionOnSet(g, S)
  <2>1. \A x \in S : f[x] = g[x]
    OBVIOUS
  <2> QED
    BY <2>1, SumSame
<1> QED
  BY <1>1, <1>2

(* A sum by parts: each term belongs to one part.                          *)
LEMMA SumByParts ==
  ASSUME NEW f, NEW S, IsFiniteSet(S), \A x \in S : f[x] \in Int,
         NEW part, NEW P, IsFiniteSet(P), \A x \in S : part[x] \in P,
         NEW cell, \A p \in P : cell[p] = {x \in S : part[x] = p},
         NEW g, \A p \in P : g[p] = SumFunctionOnSet(f, cell[p])
  PROVE  SumFunctionOnSet(g, P) = SumFunctionOnSet(f, S)
<1> DEFINE In(Q) == {x \in S : part[x] \in Q}
           G == {Q \in SUBSET P : SumFunctionOnSet(g, Q) = SumFunctionOnSet(f, In(Q))}
<1>1. {} \in G
  <2>1. In({}) = {}
    OBVIOUS
  <2> HIDE DEF In
  <2> QED
    BY <2>1, SumEmpty
<1>2. ASSUME NEW Q \in SUBSET P, NEW p \in P \ Q, Q \in G PROVE Q \cup {p} \in G
  <2> DEFINE One == {x \in S : part[x] = p}
  <2>1. /\ In(Q) \subseteq S /\ One \subseteq S
        /\ In(Q) \cap One = {} /\ In(Q \cup {p}) = In(Q) \cup One
    OBVIOUS
  <2>2. IsFiniteSet(In(Q)) /\ IsFiniteSet(One) /\ IsFiniteSet(Q)
    BY <2>1, FS_Subset
  <2>3. \A q \in P : g[q] \in Int
    <3> SUFFICES ASSUME NEW q \in P PROVE g[q] \in Int
      OBVIOUS
    <3> DEFINE T == {x \in S : part[x] = q}
    <3>1. IsFiniteSet(T) /\ \A x \in T : f[x] \in Int
      BY FS_Subset
    <3> HIDE DEF T
    <3>2. SumFunctionOnSet(f, T) \in Int
      BY <3>1, SumRemove
    <3> QED
      BY <3>2 DEF T
  <2>4. g[p] = SumFunctionOnSet(f, One)
    OBVIOUS
  <2> HIDE DEF In, One
  <2>5. SumFunctionOnSet(f, In(Q \cup {p})) = SumFunctionOnSet(f, In(Q)) + SumFunctionOnSet(f, One)
    <3>1. \A x \in In(Q) \cup One : f[x] \in Int
      BY <2>1
    <3>2. SumFunctionOnSet(f, In(Q) \cup One) = SumFunctionOnSet(f, In(Q)) + SumFunctionOnSet(f, One)
      BY <2>1, <2>2, <3>1, SumUnion
    <3> QED
      BY <2>1, <3>2
  <2>6. SumFunctionOnSet(g, Q \cup {p}) = g[p] + SumFunctionOnSet(g, Q)
    BY <2>2, <2>3, SumAdd
  <2>7. SumFunctionOnSet(f, In(Q)) \in Int /\ SumFunctionOnSet(f, One) \in Int
    BY <2>1, <2>2, SumRemove
  <2>8. SumFunctionOnSet(g, Q) = SumFunctionOnSet(f, In(Q))
    BY <1>2
  <2> QED
    BY <1>2, <2>4, <2>5, <2>6, <2>7, <2>8
<1>3. In(P) = S
  OBVIOUS
<1> HIDE DEF G
<1>4. P \in G
  BY <1>1, <1>2, MemberInduction
<1> HIDE DEF In
<1> QED
  BY <1>3, <1>4 DEF G

-----------------------------------------------------------------------------
(* Sets of numbers *)

(* The least member of a set of numbers is a member of it, and no greater  *)
(* than any other.                                                         *)
LEMMA MinIsMember ==
  ASSUME NEW S \in SUBSET Nat, S # {}
  PROVE  Min(S) \in S /\ \A y \in S : Min(S) <= y
<1> DEFINE Below(x) == {y \in S : y < x}
           Belows == {Below(x) : x \in S}
<1>1. \A T \in Belows : T \in FiniteSubsetsOf(S)
  <2> SUFFICES ASSUME NEW x \in S PROVE Below(x) \in FiniteSubsetsOf(S)
    OBVIOUS
  <2>1. IsFiniteSet(Below(x))
    BY FS_BoundedSetOfNaturals
  <2> QED
    BY <2>1 DEF FiniteSubsetsOf
<1>2. PICK T \in Belows : \A U \in Belows : <<U, T>> \notin StrictSubsetOrdering(S)
  <2>1. Belows \subseteq FiniteSubsetsOf(S) /\ Belows # {}
    BY <1>1
  <2>2. IsWellFoundedOn(StrictSubsetOrdering(S), FiniteSubsetsOf(S))
    BY FS_StrictSubsetOrderingWellFounded
  <2> QED
    BY <2>1, <2>2, WFMin
<1>3. PICK x \in S : T = Below(x)
  OBVIOUS
<1>4. ASSUME NEW y \in S, y < x PROVE FALSE
  <2>a. x \in Nat /\ y \in Nat /\ ~(y < y)
    OBVIOUS
  <2>b. \A z \in S : z < y => z < x
    BY <1>4, <2>a
  <2>1. Below(y) \subseteq Below(x) /\ y \in Below(x) /\ y \notin Below(y)
    BY <1>4, <2>a, <2>b
  <2>2. <<Below(y), Below(x)>> \in StrictSubsetOrdering(S)
    BY <2>1 DEF StrictSubsetOrdering
  <2> QED
    BY <2>2, <1>2, <1>3
<1>5. \A y \in S : x <= y
  BY <1>4
<1> QED
  BY <1>5 DEF Min

(* A finite set of numbers has a greatest member.                          *)
LEMMA FiniteHasGreatest ==
  ASSUME NEW S \in SUBSET Nat, S # {}, IsFiniteSet(S)
  PROVE  \E x \in S : \A y \in S : y <= x
<1> DEFINE Above(x) == {y \in S : x < y}
           Aboves == {Above(x) : x \in S}
<1>1. \A T \in Aboves : T \in FiniteSubsetsOf(S)
  <2> SUFFICES ASSUME NEW x \in S PROVE Above(x) \in FiniteSubsetsOf(S)
    OBVIOUS
  <2>1. IsFiniteSet(Above(x))
    BY FS_Subset
  <2> QED
    BY <2>1 DEF FiniteSubsetsOf
<1>2. PICK T \in Aboves : \A U \in Aboves : <<U, T>> \notin StrictSubsetOrdering(S)
  <2>1. Aboves \subseteq FiniteSubsetsOf(S) /\ Aboves # {}
    BY <1>1
  <2>2. IsWellFoundedOn(StrictSubsetOrdering(S), FiniteSubsetsOf(S))
    BY FS_StrictSubsetOrderingWellFounded
  <2> QED
    BY <2>1, <2>2, WFMin
<1>3. PICK x \in S : T = Above(x)
  OBVIOUS
<1>4. ASSUME NEW y \in S, x < y PROVE FALSE
  <2>a. x \in Nat /\ y \in Nat /\ ~(y < y)
    OBVIOUS
  <2>b. \A z \in S : y < z => x < z
    BY <1>4, <2>a
  <2>1. Above(y) \subseteq Above(x) /\ y \in Above(x) /\ y \notin Above(y)
    BY <1>4, <2>a, <2>b
  <2>2. <<Above(y), Above(x)>> \in StrictSubsetOrdering(S)
    BY <2>1 DEF StrictSubsetOrdering
  <2> QED
    BY <2>2, <1>2, <1>3
<1> QED
  BY <1>4

(* Each posting becomes two legs, and names the accounts of both. *)
LEMMA ExpandedLegs ==
  ASSUME NEW postings \in PostingLists
  PROVE  /\ ExpandPostings(postings) \in Seq(Leg)
         /\ AccountsOf(ExpandPostings(postings)) =
              {postings[i].source : i \in DOMAIN postings}
              \cup {postings[i].destination : i \in DOMAIN postings}
<1> DEFINE n == Len(postings)
           legs == ExpandPostings(postings)
<1>1. /\ n \in Nat /\ DOMAIN postings = 1..n
      /\ \A i \in 1..n : postings[i] \in [source : Nat, destination : Nat, amount : Nat]
  BY LenProperties, ElementOfSeq DEF PostingLists
<1> HIDE DEF n
<1>2. \A i \in 1..(2 * n) : (i + 1) \div 2 \in 1..n
  BY <1>1
<1>3. \A i \in 1..(2 * n) : legs[i] \in Leg
  BY <1>1, <1>2 DEF ExpandPostings, Leg, n
<1>4. legs \in Seq(Leg) /\ DOMAIN legs = 1..(2 * n)
  BY <1>1, <1>3 DEF ExpandPostings, n
<1>5. ASSUME NEW i \in 1..n
      PROVE  /\ 2 * i - 1 \in 1..(2 * n) /\ legs[2 * i - 1].account = postings[i].source
             /\ 2 * i \in 1..(2 * n) /\ legs[2 * i].account = postings[i].destination
  <2>1. \A k \in 1..(2 * n) :
          legs[k].account = IF k % 2 = 1 THEN postings[(k + 1) \div 2].source
                                         ELSE postings[(k + 1) \div 2].destination
    BY <1>1 DEF ExpandPostings, n
  <2> HIDE DEF legs
  <2>2. /\ 2 * i - 1 \in 1..(2 * n) /\ ((2 * i - 1) + 1) \div 2 = i /\ (2 * i - 1) % 2 = 1
    BY <1>1
  <2>3. /\ 2 * i \in 1..(2 * n) /\ (2 * i + 1) \div 2 = i /\ (2 * i) % 2 = 0
    BY <1>1
  <2>4. legs[2 * i - 1].account = postings[i].source
    BY <2>1, <2>2
  <2>5. legs[2 * i].account = postings[i].destination
    <3>1. legs[2 * i].account = postings[(2 * i + 1) \div 2].destination
      BY <2>1, <2>3
    <3> QED
      BY <3>1, <2>3
  <2> QED
    BY <2>2, <2>3, <2>4, <2>5
<1>6. \A i \in 1..(2 * n) :
        legs[i].account \in {postings[(i + 1) \div 2].source, postings[(i + 1) \div 2].destination}
  BY <1>1 DEF ExpandPostings, n
<1> HIDE DEF legs
<1>7. ASSUME NEW i \in 1..(2 * n)
      PROVE  legs[i].account \in {postings[j].source : j \in 1..n}
                                 \cup {postings[j].destination : j \in 1..n}
  BY <1>2, <1>6
<1>8. {legs[i].account : i \in 1..(2 * n)} =
        {postings[j].source : j \in 1..n} \cup {postings[j].destination : j \in 1..n}
  BY <1>5, <1>7
<1> QED
  BY <1>1, <1>4, <1>8 DEF AccountsOf, legs

(* The legs of one account are finitely many. *)
LEMMA LegsOnIsFinite ==
  ASSUME NEW legs \in Seq(Leg), NEW a
  PROVE  /\ LegsOn(legs, a) \in SUBSET (1..Len(legs))
         /\ IsFiniteSet(LegsOn(legs, a))
         /\ Cardinality(LegsOn(legs, a)) \in Nat
<1>1. LegsOn(legs, a) \in SUBSET (1..Len(legs))
  BY LenProperties DEF LegsOn
<1>2. Len(legs) \in Nat
  BY LenProperties
<1>3. IsFiniteSet(1..Len(legs))
  BY <1>2, FS_Interval
<1>4. IsFiniteSet(LegsOn(legs, a))
  BY <1>1, <1>3, FS_Subset
<1> QED
  BY <1>1, <1>4, FS_CardinalityType

(* Pending or posted, the plan has one delta per account, which counts     *)
(* the account's legs.                                                     *)
LEMMA PlannedLegCounts ==
  ASSUME NEW legs \in Seq(Leg), NEW status
  PROVE  /\ DOMAIN PlannedDeltas(legs, status) = AccountsOf(legs)
         /\ \A a \in AccountsOf(legs) :
              PlannedDeltas(legs, status)[a].legs = Cardinality(LegsOn(legs, a))
  BY DEF PlannedDeltas, Withheld, Coalesce

(* The legs after a leg on its account are fewer than the account's legs,  *)
(* and a later leg has fewer: no two offsets of one account are equal.     *)
LEMMA OffsetsFall ==
  ASSUME NEW legs \in Seq(Leg), NEW i \in DOMAIN legs
  PROVE  /\ OffsetBack(legs, i) \in Nat
         /\ OffsetBack(legs, i) < Cardinality(LegsOn(legs, legs[i].account))
         /\ \A j \in LegsOn(legs, legs[i].account) :
              j > i => OffsetBack(legs, j) < OffsetBack(legs, i)
<1> DEFINE on == LegsOn(legs, legs[i].account)
           After(j) == {l \in on : l > j}
<1>1. on \subseteq Nat /\ i \in on /\ IsFiniteSet(on)
  <2>1. on \in SUBSET (1..Len(legs)) /\ IsFiniteSet(on)
    BY LegsOnIsFinite
  <2>2. i \in on
    BY DEF LegsOn
  <2> QED
    BY <2>1, <2>2
<1>2. ASSUME NEW j \in on
      PROVE  /\ IsFiniteSet(After(j)) /\ Cardinality(After(j)) \in Nat
             /\ OffsetBack(legs, j) = Cardinality(After(j))
  BY <1>1, FS_Subset, FS_CardinalityType DEF OffsetBack, LegsOn
<1>3. Cardinality(After(i)) < Cardinality(on)
  <2>1. After(i) \in SUBSET on /\ After(i) # on
    BY <1>1
  <2> QED
    BY <2>1, <1>1, <1>2, FS_Subset, FS_CardinalityType
<1>4. ASSUME NEW j \in on, j > i
      PROVE  Cardinality(After(j)) < Cardinality(After(i))
  <2>1. After(j) \in SUBSET After(i)
    BY <1>1, <1>4
  <2>2. j \in After(i) /\ j \notin After(j)
    BY <1>1, <1>4
  <2>3. IsFiniteSet(After(i)) /\ Cardinality(After(i)) \in Nat /\ Cardinality(After(j)) \in Nat
    BY <1>1, <1>2
  <2>4. /\ Cardinality(After(j)) <= Cardinality(After(i))
        /\ Cardinality(After(j)) = Cardinality(After(i)) => After(i) = After(j)
    BY <2>1, <2>3, FS_Subset
  <2> QED
    BY <2>2, <2>3, <2>4
<1> QED
  BY <1>1, <1>2, <1>3, <1>4

(* Members that bear the numbers 1, 2, ... last, each once.                *)
Numbered(E, seq, last) ==
  /\ IsFiniteSet(E) /\ Cardinality(E) = last
  /\ \A e \in E : seq[e] \in 1..last
  /\ \A k \in 1..last : \E e \in E : seq[e] = k

(* The n members that a step appends to them: numbers past the last and    *)
(* none past the count of all, no two the same.                            *)
Appends(N, seq, last, n) ==
  /\ IsFiniteSet(N) /\ Cardinality(N) = n
  /\ \A x \in N : seq[x] \in (last + 1)..(last + n)
  /\ \A x, y \in N : seq[x] = seq[y] => x = y

(* Appending leaves no gap.                                                *)
LEMMA NumberingGrows ==
  ASSUME NEW E, NEW N, NEW seq, NEW last \in Nat, NEW n,
         Numbered(E, seq, last), Appends(N, seq, last, n), E \cap N = {}
  PROVE  Numbered(E \cup N, seq, last + n)
<1> USE DEF Numbered, Appends
<1> DEFINE new == (last + 1)..(last + n)
           f == [x \in N |-> seq[x]]
<1>1. n \in Nat
  BY FS_CardinalityType
<1>2. IsFiniteSet(E \cup N) /\ Cardinality(E \cup N) = last + n
  <2>1. Cardinality(E \cap N) = 0
    BY FS_EmptySet
  <2>2. /\ IsFiniteSet(E \cup N)
        /\ Cardinality(E \cup N) = Cardinality(E) + Cardinality(N) - Cardinality(E \cap N)
    BY FS_Union
  <2> QED
    BY <1>1, <2>1, <2>2
<1>3. IsFiniteSet(new) /\ Cardinality(new) = n
  <2>1. last + 1 \in Int /\ last + n \in Int /\ (last + 1 > last + n <=> n = 0)
    BY <1>1
  <2>2. /\ IsFiniteSet(new)
        /\ Cardinality(new) = IF last + 1 > last + n THEN 0 ELSE (last + n) - (last + 1) + 1
    BY <2>1, FS_Interval
  <2>3. (last + n) - (last + 1) + 1 = n
    BY <1>1
  <2> QED
    BY <2>1, <2>2, <2>3
<1>4. f \in Injection(N, new)
  <2>1. f \in [N -> new]
    OBVIOUS
  <2> QED
    BY <2>1 DEF Injection, IsInjective
<1> HIDE DEF new
<1>5. f \in Surjection(N, new)
  BY <1>1, <1>3, <1>4, FS_Injection
<1>6. \A k \in new : \E x \in N : seq[x] = k
  BY <1>5 DEF Surjection
<1>7. \A k \in 1..(last + n) : k \in 1..last \/ k \in new
  BY <1>1 DEF new
<1>8. \A x \in N : seq[x] \in 1..(last + n)
  BY <1>1
<1>9. \A x \in E : seq[x] \in 1..(last + n)
  <2>1. \A x \in E : seq[x] \in 1..last
    OBVIOUS
  <2> QED
    BY <1>1, <2>1
<1>10. \A k \in 1..(last + n) : \E e \in E \cup N : seq[e] = k
  BY <1>6, <1>7
<1> QED
  BY <1>2, <1>8, <1>9, <1>10

(* A leg has an account, a direction and an amount.                        *)
LEMMA LegTyped ==
  ASSUME NEW legs \in Seq(Leg)
  PROVE  \A i \in DOMAIN legs : /\ legs[i].account \in Nat /\ legs[i].amount \in Nat
                                /\ legs[i].direction \in {"debit", "credit"}
<1>1. DOMAIN legs = 1..Len(legs)
  BY LenProperties
<1>2. \A i \in 1..Len(legs) : legs[i] \in Leg
  BY ElementOfSeq
<1> QED
  BY <1>1, <1>2 DEF Leg

(* One side of one account of some legs is a number of minor units.        *)
LEMMA SideIsNat ==
  ASSUME NEW legs \in Seq(Leg), NEW a, NEW direction
  PROVE  SideOf(legs, a, direction) \in Nat
<1> DEFINE f == [i \in DOMAIN legs |-> legs[i].amount]
           on == {i \in LegsOn(legs, a) : legs[i].direction = direction}
<1>1. IsFiniteSet(on)
  <2>1. on \in SUBSET LegsOn(legs, a)
    OBVIOUS
  <2> QED
    BY <2>1, LegsOnIsFinite, FS_Subset
<1>2. \A i \in on : f[i] \in Nat
  BY LegTyped DEF LegsOn
<1> HIDE DEF f, on
<1>3. SumFunctionOnSet(f, on) \in Nat
  BY <1>1, <1>2, SumNat
<1> QED
  BY <1>3 DEF SideOf, f, on

(* The legs of one side of an account, under other names.                  *)
SideNames(c, legs, a, direction) ==
  {<<c, i>> : i \in {j \in LegsOn(legs, a) : legs[j].direction = direction}}

(* They add up to that side.                                               *)
LEMMA SideRenamed ==
  ASSUME NEW legs \in Seq(Leg), NEW a, NEW direction, NEW c, NEW g,
         \A i \in LegsOn(legs, a) : g[<<c, i>>] = legs[i].amount
  PROVE  /\ IsFiniteSet(SideNames(c, legs, a, direction))
         /\ SumFunctionOnSet(g, SideNames(c, legs, a, direction)) = SideOf(legs, a, direction)
<1> DEFINE f == [i \in DOMAIN legs |-> legs[i].amount]
           on == {j \in LegsOn(legs, a) : legs[j].direction = direction}
           b == [i \in on |-> <<c, i>>]
           T == SideNames(c, legs, a, direction)
<1>1. IsFiniteSet(on)
  <2>1. on \in SUBSET LegsOn(legs, a)
    OBVIOUS
  <2> QED
    BY <2>1, LegsOnIsFinite, FS_Subset
<1>2. \A i \in on : f[i] \in Int /\ g[b[i]] = f[i]
  BY LegTyped DEF LegsOn
<1>3. Renames(b, on, T)
  BY DEF Renames, SideNames
<1>4. SideOf(legs, a, direction) = SumFunctionOnSet(f, on)
  BY DEF SideOf
<1> HIDE DEF f, on, b, T
<1>5. IsFiniteSet(T) /\ SumFunctionOnSet(g, T) = SumFunctionOnSet(f, on)
  BY <1>1, <1>2, <1>3, SumRenamed
<1>6. IsFiniteSet(T) /\ SumFunctionOnSet(g, T) = SideOf(legs, a, direction)
  BY <1>4, <1>5
<1> QED
  BY <1>6 DEF T

(* No legs, no sides.                                                      *)
LEMMA NoSides ==
  ASSUME NEW legs, DOMAIN legs = {}, NEW a, NEW direction
  PROVE  SideOf(legs, a, direction) = 0
<1>1. {i \in LegsOn(legs, a) : legs[i].direction = direction} = {}
  BY DEF LegsOn
<1> QED
  BY <1>1, SumEmpty DEF SideOf

(* Legs that agree in accounts, directions and amounts have equal sides.   *)
LEMMA EqualSides ==
  ASSUME NEW legs, NEW other, DOMAIN other = DOMAIN legs,
         \A i \in DOMAIN legs : /\ other[i].account = legs[i].account
                                /\ other[i].direction = legs[i].direction
                                /\ other[i].amount = legs[i].amount,
         NEW a, NEW direction
  PROVE  SideOf(other, a, direction) = SideOf(legs, a, direction)
<1>1. [i \in DOMAIN other |-> other[i].amount] = [i \in DOMAIN legs |-> legs[i].amount]
  OBVIOUS
<1>2. {i \in LegsOn(other, a) : other[i].direction = direction} =
        {i \in LegsOn(legs, a) : legs[i].direction = direction}
  BY DEF LegsOn
<1> QED
  BY <1>1, <1>2 DEF SideOf

(* Legs with every direction turned around have every account's sides      *)
(* turned around.                                                          *)
LEMMA MirroredSides ==
  ASSUME NEW legs, NEW mirror, DOMAIN mirror = DOMAIN legs,
         \A i \in DOMAIN legs : /\ mirror[i].account = legs[i].account
                                /\ legs[i].direction \in {"debit", "credit"}
                                /\ mirror[i].direction = Opposite(legs[i].direction)
                                /\ mirror[i].amount = legs[i].amount,
         NEW a
  PROVE  /\ SideOf(mirror, a, "debit") = SideOf(legs, a, "credit")
         /\ SideOf(mirror, a, "credit") = SideOf(legs, a, "debit")
<1> DEFINE f == [i \in DOMAIN legs |-> legs[i].amount]
           g == [i \in DOMAIN mirror |-> mirror[i].amount]
           On(l, direction) == {i \in LegsOn(l, a) : l[i].direction = direction}
<1>1. f = g
  OBVIOUS
<1>2. On(mirror, "debit") = On(legs, "credit") /\ On(mirror, "credit") = On(legs, "debit")
  BY DEF LegsOn, Opposite
<1>3. \A direction : /\ SideOf(mirror, a, direction) = SumFunctionOnSet(g, On(mirror, direction))
                     /\ SideOf(legs, a, direction) = SumFunctionOnSet(f, On(legs, direction))
  BY DEF SideOf
<1> HIDE DEF f, g, On
<1> QED
  BY <1>1, <1>2, <1>3

(* What one account moves, net. *)
NetIn(legs, a) == SideOf(legs, a, "debit") - SideOf(legs, a, "credit")

(* The sum of one side over the accounts is the sum over the legs of that  *)
(* side.                                                                   *)
LEMMA SidesByAccount ==
  ASSUME NEW legs \in Seq(Leg), NEW direction, NEW P, IsFiniteSet(P), AccountsOf(legs) \subseteq P
  PROVE  SumFunctionOnSet([a \in P |-> SideOf(legs, a, direction)], P) =
           SumFunctionOnSet([i \in DOMAIN legs |-> legs[i].amount],
                            {i \in DOMAIN legs : legs[i].direction = direction})
<1> DEFINE f == [i \in DOMAIN legs |-> legs[i].amount]
           S == {i \in DOMAIN legs : legs[i].direction = direction}
           cell == [a \in P |-> {i \in LegsOn(legs, a) : legs[i].direction = direction}]
           part == [i \in DOMAIN legs |-> legs[i].account]
           g == [a \in P |-> SideOf(legs, a, direction)]
<1>1. IsFiniteSet(S)
  <2>1. S \in SUBSET (1..Len(legs)) /\ Len(legs) \in Nat
    BY LenProperties
  <2> QED
    BY <2>1, FS_Interval, FS_Subset
<1>2. \A i \in S : f[i] \in Int /\ part[i] \in P
  BY LegTyped DEF AccountsOf
<1>3. \A a \in P : cell[a] = {i \in S : part[i] = a}
  BY DEF LegsOn
<1>4. \A a \in P : g[a] = SumFunctionOnSet(f, cell[a])
  BY DEF SideOf
<1> HIDE DEF f, S, part, cell, g
<1>5. SumFunctionOnSet(g, P) = SumFunctionOnSet(f, S)
  <2>1. \A i \in S : f[i] \in Int
    BY <1>2
  <2>2. \A i \in S : part[i] \in P
    BY <1>2
  <2> QED
    BY <1>1, <1>3, <1>4, <2>1, <2>2, SumByParts
<1> QED
  BY <1>5 DEF f, S, g

(* The postings of a transaction balance: over all its accounts, what      *)
(* arrives is what left.                                                   *)
LEMMA ExpansionBalances ==
  ASSUME NEW postings \in PostingLists, NEW P, IsFiniteSet(P),
         AccountsOf(ExpandPostings(postings)) \subseteq P
  PROVE  SumFunctionOnSet([a \in P |-> NetIn(ExpandPostings(postings), a)], P) = 0
<1> DEFINE n == Len(postings)
           legs == ExpandPostings(postings)
           f == [i \in DOMAIN legs |-> legs[i].amount]
           Legs(direction) == {i \in DOMAIN legs : legs[i].direction = direction}
           amounts == [i \in 1..n |-> postings[i].amount]
           odd == [i \in 1..n |-> 2 * i - 1]
           even == [i \in 1..n |-> 2 * i]
           debits == [a \in P |-> SideOf(legs, a, "debit")]
           credits == [a \in P |-> SideOf(legs, a, "credit")]
           net == [a \in P |-> NetIn(legs, a)]
<1>1. /\ n \in Nat /\ DOMAIN postings = 1..n
      /\ \A i \in 1..n : postings[i] \in [source : Nat, destination : Nat, amount : Nat]
  BY LenProperties, ElementOfSeq DEF PostingLists
<1>2. legs \in Seq(Leg)
  BY ExpandedLegs
<1>3. /\ DOMAIN legs = 1..(2 * n)
      /\ \A i \in 1..(2 * n) :
           /\ legs[i].amount = postings[(i + 1) \div 2].amount
           /\ legs[i].direction = IF i % 2 = 1 THEN "credit" ELSE "debit"
  BY <1>1 DEF ExpandPostings
<1> HIDE DEF n, legs
<1>4. IsFiniteSet(1..n) /\ \A i \in 1..n : amounts[i] \in Int
  BY <1>1, FS_Interval
<1>5. SumFunctionOnSet(f, Legs("credit")) = SumFunctionOnSet(amounts, 1..n)
  <2>1. \A i \in 1..n : /\ 2 * i - 1 \in 1..(2 * n) /\ ((2 * i - 1) + 1) \div 2 = i
                        /\ (2 * i - 1) % 2 = 1
    BY <1>1
  <2>2. \A i, j \in 1..n : odd[i] = odd[j] => i = j
    BY <1>1
  <2>3. \A i \in 1..n : f[odd[i]] = amounts[i]
    BY <1>3, <2>1
  <2>4. {odd[i] : i \in 1..n} = Legs("credit")
    <3>1. \A i \in 1..n : odd[i] \in Legs("credit")
      BY <1>3, <2>1
    <3>2. ASSUME NEW k \in Legs("credit") PROVE \E i \in 1..n : k = odd[i]
      <4>1. k \in 1..(2 * n) /\ k % 2 = 1
        BY <1>3
      <4>2. k = 2 * ((k + 1) \div 2) - 1
        BY <4>1
      <4>3. (k + 1) \div 2 \in 1..n
        BY <1>1, <4>1
      <4> QED
        BY <4>2, <4>3
    <3> HIDE DEF odd, Legs
    <3> QED
      BY <3>1, <3>2
  <2> HIDE DEF odd, f, amounts, Legs
  <2>5. SumFunctionOnSet(f, {odd[i] : i \in 1..n}) = SumFunctionOnSet(amounts, 1..n)
    <3> DEFINE I == 1..n
    <3>1. /\ IsFiniteSet(I)
          /\ Renames(odd, I, {odd[i] : i \in I})
          /\ \A i \in I : amounts[i] \in Int /\ f[odd[i]] = amounts[i]
      BY <1>4, <2>2, <2>3 DEF Renames
    <3> HIDE DEF I
    <3>2. SumFunctionOnSet(f, {odd[i] : i \in I}) = SumFunctionOnSet(amounts, I)
      BY <3>1, SumRenamed
    <3> QED
      BY <3>2 DEF I
  <2> QED
    BY <2>4, <2>5
<1>6. SumFunctionOnSet(f, Legs("debit")) = SumFunctionOnSet(amounts, 1..n)
  <2>1. \A i \in 1..n : /\ 2 * i \in 1..(2 * n) /\ (2 * i + 1) \div 2 = i
                        /\ (2 * i) % 2 = 0
    BY <1>1
  <2>2. \A i, j \in 1..n : even[i] = even[j] => i = j
    BY <1>1
  <2>3. \A i \in 1..n : f[even[i]] = amounts[i]
    BY <1>3, <2>1
  <2>4. {even[i] : i \in 1..n} = Legs("debit")
    <3>1. \A i \in 1..n : even[i] \in Legs("debit")
      BY <1>3, <2>1
    <3>2. ASSUME NEW k \in Legs("debit") PROVE \E i \in 1..n : k = even[i]
      <4>1. k \in 1..(2 * n) /\ k % 2 # 1
        BY <1>3
      <4>2. k = 2 * (k \div 2)
        BY <4>1
      <4>3. k \div 2 \in 1..n
        BY <1>1, <4>1, <4>2
      <4> QED
        BY <4>2, <4>3
    <3> HIDE DEF even, Legs
    <3> QED
      BY <3>1, <3>2
  <2> HIDE DEF even, f, amounts, Legs
  <2>5. SumFunctionOnSet(f, {even[i] : i \in 1..n}) = SumFunctionOnSet(amounts, 1..n)
    <3> DEFINE I == 1..n
    <3>1. /\ IsFiniteSet(I)
          /\ Renames(even, I, {even[i] : i \in I})
          /\ \A i \in I : amounts[i] \in Int /\ f[even[i]] = amounts[i]
      BY <1>4, <2>2, <2>3 DEF Renames
    <3> HIDE DEF I
    <3>2. SumFunctionOnSet(f, {even[i] : i \in I}) = SumFunctionOnSet(amounts, I)
      BY <3>1, SumRenamed
    <3> QED
      BY <3>2 DEF I
  <2> QED
    BY <2>4, <2>5
<1>7. /\ SumFunctionOnSet(debits, P) = SumFunctionOnSet(f, Legs("debit"))
      /\ SumFunctionOnSet(credits, P) = SumFunctionOnSet(f, Legs("credit"))
  <2>1. IsFiniteSet(P) /\ AccountsOf(legs) \subseteq P
    BY DEF legs
  <2> QED
    BY <1>2, <2>1, SidesByAccount
<1>8. \A a \in P : net[a] \in Int /\ credits[a] \in Int /\ debits[a] = net[a] + credits[a]
  BY <1>2, SideIsNat DEF NetIn
<1> HIDE DEF f, amounts, debits, credits, net, Legs
<1>9. SumFunctionOnSet(debits, P) = SumFunctionOnSet(net, P) + SumFunctionOnSet(credits, P)
  BY <1>8, SumPlus
<1>10. SumFunctionOnSet(net, P) \in Int /\ SumFunctionOnSet(amounts, 1..n) \in Int
  BY <1>4, <1>8, SumRemove
<1> QED
  BY <1>5, <1>6, <1>7, <1>9, <1>10 DEF net, legs

-----------------------------------------------------------------------------
(* The passes of plan_append *)

(* A pass is a fold over the positions of the legs: forward, it takes the  *)
(* last position of a set after the others; backward, the first.           *)
PassPick(p, s) == IF p.back THEN Min(s) ELSE Max(s)
PassStart(p) ==
  IF p.back THEN [later |-> <<>>, offsets |-> <<>>] ELSE [overflow |-> FALSE, deltas |-> <<>>]
PassStep(p, i, before) ==
  IF p.back THEN NumberLeg(p.legs[i], before) ELSE CoalesceLeg(before, p.legs[i], p.max)

(* The equations of a pass over the subsets of a set of positions.         *)
Passes(p, T, g) ==
  g = [s \in SUBSET T |->
         IF s = {} THEN PassStart(p)
                   ELSE PassStep(p, PassPick(p, s), g[s \ {PassPick(p, s)}])]

(* The equation of a pass over no position.                                *)
LEMMA PassesStart ==
  ASSUME NEW p, NEW T, NEW g, Passes(p, T, g)
  PROVE  g[{}] = PassStart(p)
BY DEF Passes

(* The equation of a pass over some.                                       *)
LEMMA PassesStep ==
  ASSUME NEW p, NEW T, NEW g, Passes(p, T, g), NEW s \in SUBSET T, s # {}
  PROVE  g[s] = PassStep(p, PassPick(p, s), g[s \ {PassPick(p, s)}])
BY DEF Passes

(* The greatest of finitely many numbers is one of them.                   *)
LEMMA MaxIsMember ==
  ASSUME NEW S \in SUBSET Nat, S # {}, IsFiniteSet(S)
  PROVE  Max(S) \in S /\ \A y \in S : y <= Max(S)
<1>1. PICK x \in S : \A y \in S : y <= x
  BY FiniteHasGreatest
<1>2. \A y \in S : x >= y
  BY <1>1
<1> QED
  BY <1>2 DEF Max

(* The position a pass takes is one of those it has to take.               *)
LEMMA PickIsMember ==
  ASSUME NEW p, NEW s \in SUBSET Nat, s # {}, IsFiniteSet(s)
  PROVE  PassPick(p, s) \in s
BY MinIsMember, MaxIsMember DEF PassPick

(* The equations have one solution, whatever larger set they are read over.*)
LEMMA PassesAgree ==
  ASSUME NEW p, NEW S \in SUBSET Nat, IsFiniteSet(S), NEW T1, NEW T2, S \subseteq T1, S \subseteq T2,
         NEW g, NEW h, Passes(p, T1, g), Passes(p, T2, h)
  PROVE  g[S] = h[S]
<1> DEFINE G == {s \in SUBSET S : g[s] = h[s]}
<1>1. ASSUME NEW T \in SUBSET S, \A U \in SUBSET T : U # T => U \in G
      PROVE  T \in G
  <2>0. T \in SUBSET T1 /\ T \in SUBSET T2 /\ T \in SUBSET Nat /\ IsFiniteSet(T)
    BY FS_Subset
  <2>1. CASE T = {}
    <3>1. g[{}] = PassStart(p) /\ h[{}] = PassStart(p)
      BY PassesStart
    <3> QED
      BY <2>1, <3>1
  <2>2. CASE T # {}
    <3>a. T \in SUBSET T1 /\ T \in SUBSET T2 /\ T # {} /\ Passes(p, T1, g) /\ Passes(p, T2, h)
      BY <2>0, <2>2
    <3>1. PassPick(p, T) \in T
      BY <2>0, <2>2, PickIsMember
    <3> HIDE DEF G
    <3>2. g[T] = PassStep(p, PassPick(p, T), g[T \ {PassPick(p, T)}])
      BY <3>a DEF Passes
    <3>3. h[T] = PassStep(p, PassPick(p, T), h[T \ {PassPick(p, T)}])
      BY <3>a DEF Passes
    <3>4. T \ {PassPick(p, T)} \in G
      BY <1>1, <3>1
    <3> QED
      BY <3>2, <3>3, <3>4 DEF G
  <2> QED
    BY <2>1, <2>2
<1> HIDE DEF G
<1>2. S \in G
  BY <1>1, SubsetInduction
<1> QED
  BY <1>2 DEF G

(* A pass over the subsets of a set, by itself.                            *)
PassOf(p, T) == CHOOSE g : Passes(p, T, g)

(* The equations have a solution over finitely many positions.             *)
LEMMA PassesExist ==
  ASSUME NEW p, NEW S \in SUBSET Nat, IsFiniteSet(S)
  PROVE  Passes(p, S, PassOf(p, S))
<1> DEFINE Whole(T) == PassOf(p, T)[T]
           Rest(s) == s \ {PassPick(p, s)}
           G == {T \in SUBSET S : Passes(p, T, PassOf(p, T))}
<1>1. ASSUME NEW T \in SUBSET S, \A U \in SUBSET T : U # T => U \in G
      PROVE  T \in G
  <2> DEFINE h == [s \in SUBSET T |-> IF s = {} THEN PassStart(p)
                                                ELSE PassStep(p, PassPick(p, s), Whole(Rest(s)))]
  <2>0. ASSUME NEW s \in SUBSET T, s # {}
        PROVE  /\ PassPick(p, s) \in s /\ Rest(s) \in SUBSET s /\ Rest(s) \in SUBSET T
               /\ Rest(s) # T /\ Rest(s) \in SUBSET Nat /\ IsFiniteSet(Rest(s))
    <3>1. s \in SUBSET Nat /\ IsFiniteSet(s)
      BY FS_Subset
    <3>2. PassPick(p, s) \in s
      BY <2>0, <3>1, PickIsMember
    <3> QED
      BY <3>1, <3>2, FS_Subset
  <2>1. ASSUME NEW U \in SUBSET T, U # T, U # {}
        PROVE  Whole(U) = PassStep(p, PassPick(p, U), Whole(Rest(U)))
    <3>1. /\ Rest(U) \in SUBSET U /\ Rest(U) # T /\ Rest(U) \in SUBSET T
          /\ Rest(U) \in SUBSET Nat /\ IsFiniteSet(Rest(U))
      BY <2>0, <2>1
    <3>2. Passes(p, U, PassOf(p, U)) /\ Passes(p, Rest(U), PassOf(p, Rest(U)))
      BY <1>1, <2>1, <3>1
    <3>3. U \in SUBSET U
      OBVIOUS
    <3>4. PassOf(p, U)[U] = PassStep(p, PassPick(p, U), PassOf(p, U)[U \ {PassPick(p, U)}])
      BY <2>1, <3>2, <3>3, PassesStep
    <3>5. Whole(U) = PassStep(p, PassPick(p, U), PassOf(p, U)[Rest(U)])
      BY <3>4
    <3> HIDE DEF Rest
    <3>b. Rest(U) \subseteq Rest(U) /\ Rest(U) \subseteq U
      BY <3>1
    <3>6. PassOf(p, Rest(U))[Rest(U)] = PassOf(p, U)[Rest(U)]
      BY <3>1, <3>2, <3>b, PassesAgree
    <3> QED
      BY <3>5, <3>6
  <2>2. ASSUME {} # T PROVE Whole({}) = PassStart(p)
    BY <1>1, <2>2, PassesStart
  <2> HIDE DEF G, Whole
  <2>3. ASSUME NEW s \in SUBSET T, s # {}
        PROVE  h[Rest(s)] = Whole(Rest(s))
    <3>1. Rest(s) \in SUBSET T /\ Rest(s) # T
      BY <2>0, <2>3
    <3>2. Rest(s) # {} => h[Rest(s)] = PassStep(p, PassPick(p, Rest(s)), Whole(Rest(Rest(s))))
      BY <3>1
    <3>3. Rest(s) = {} => h[Rest(s)] = PassStart(p)
      BY <3>1
    <3>4. Rest(s) # {} => Whole(Rest(s)) = PassStep(p, PassPick(p, Rest(s)), Whole(Rest(Rest(s))))
      BY <2>1, <3>1
    <3>5. Rest(s) = {} => Whole(Rest(s)) = PassStart(p)
      BY <2>2, <3>1
    <3> QED
      BY <3>2, <3>3, <3>4, <3>5
  <2>4. h = [s \in SUBSET T |-> IF s = {} THEN PassStart(p)
                                          ELSE PassStep(p, PassPick(p, s), h[Rest(s)])]
    BY <2>3
  <2>5. Passes(p, T, h)
    BY <2>4 DEF Passes
  <2> QED
    BY <2>5 DEF G, PassOf
<1> HIDE DEF G
<1>2. S \in G
  BY <1>1, SubsetInduction
<1> QED
  BY <1>2 DEF G

(* The equations of the two passes as plan_append writes them.             *)
CoalesceEquations(legs, max, g) ==
  g = [s \in SUBSET DOMAIN legs |->
         IF s = {} THEN [overflow |-> FALSE, deltas |-> <<>>]
                   ELSE CoalesceLeg(g[s \ {Max(s)}], legs[Max(s)], max)]
NumberEquations(legs, g) ==
  g = [s \in SUBSET DOMAIN legs |->
         IF s = {} THEN [later |-> <<>>, offsets |-> <<>>]
                   ELSE NumberLeg(legs[Min(s)], g[s \ {Min(s)}])]

LEMMA CoalesceIsPass ==
  ASSUME NEW legs \in Seq(Leg), NEW max
  PROVE  \E g : Passes([back |-> FALSE, legs |-> legs, max |-> max], DOMAIN legs, g)
                /\ CoalescePass(legs, max) = g[DOMAIN legs]
<1> DEFINE p == [back |-> FALSE, legs |-> legs, max |-> max]
<1>1. CoalescePass(legs, max) = (CHOOSE g : CoalesceEquations(legs, max, g))[DOMAIN legs]
  BY DEF CoalescePass, FoldLeft, MapThenFoldSet, CoalesceEquations
<1>2. \A g : Passes(p, DOMAIN legs, g) <=> CoalesceEquations(legs, max, g)
  BY DEF Passes, PassPick, PassStart, PassStep, CoalesceEquations
<1>3. \E g : Passes(p, DOMAIN legs, g)
  <2>1. DOMAIN legs = 1..Len(legs) /\ Len(legs) \in Nat
    BY LenProperties
  <2>2. DOMAIN legs \in SUBSET Nat /\ IsFiniteSet(DOMAIN legs)
    BY <2>1, FS_Interval
  <2> HIDE DEF p
  <2> QED
    BY <2>2, PassesExist
<1> HIDE DEF p
<1>4. CoalesceEquations(legs, max, CHOOSE g : CoalesceEquations(legs, max, g))
  BY <1>2, <1>3
<1> QED
  BY <1>1, <1>2, <1>4 DEF p

LEMMA NumberIsPass ==
  ASSUME NEW legs \in Seq(Leg)
  PROVE  \E g : Passes([back |-> TRUE, legs |-> legs, max |-> 0], DOMAIN legs, g)
                /\ NumberingPass(legs) = g[DOMAIN legs]
<1> DEFINE p == [back |-> TRUE, legs |-> legs, max |-> 0]
<1>1. NumberingPass(legs) = (CHOOSE g : NumberEquations(legs, g))[DOMAIN legs]
  BY DEF NumberingPass, FoldRight, MapThenFoldSet, NumberEquations
<1>2. \A g : Passes(p, DOMAIN legs, g) <=> NumberEquations(legs, g)
  BY DEF Passes, PassPick, PassStart, PassStep, NumberEquations
<1>3. \E g : Passes(p, DOMAIN legs, g)
  <2>1. DOMAIN legs = 1..Len(legs) /\ Len(legs) \in Nat
    BY LenProperties
  <2>2. DOMAIN legs \in SUBSET Nat /\ IsFiniteSet(DOMAIN legs)
    BY <2>1, FS_Interval
  <2> HIDE DEF p
  <2> QED
    BY <2>2, PassesExist
<1> HIDE DEF p
<1>4. NumberEquations(legs, CHOOSE g : NumberEquations(legs, g))
  BY <1>2, <1>3
<1> QED
  BY <1>1, <1>2, <1>4 DEF p

(* What is true of 0, and of the next number once it is true of one, is    *)
(* true up to any number.                                                  *)
LEMMA CountInduction ==
  ASSUME NEW n \in Nat, NEW G, 0 \in G, \A k \in 0..(n - 1) : k \in G => k + 1 \in G
  PROVE  n \in G
<1> DEFINE Bad == {k \in 0..n : k \notin G}
<1>1. SUFFICES ASSUME Bad # {} PROVE FALSE
  OBVIOUS
<1>2. Bad \in SUBSET Nat
  OBVIOUS
<1> HIDE DEF Bad
<1>3. Min(Bad) \in Bad /\ \A y \in Bad : Min(Bad) <= y
  BY <1>1, <1>2, MinIsMember
<1>4. PICK m \in Bad : \A y \in Bad : m <= y
  BY <1>3
<1>5. m \in 1..n /\ m \notin G
  BY <1>4 DEF Bad
<1>6. m - 1 \in 0..(n - 1) /\ m - 1 \notin Bad
  BY <1>4, <1>5, <1>2
<1>7. m - 1 \in G
  BY <1>6 DEF Bad
<1>8. (m - 1) + 1 = m
  BY <1>5
<1> QED
  BY <1>5, <1>6, <1>7, <1>8

(* The greatest number of 1..k is k, and the least of k..n is k.           *)
LEMMA EndsOfInterval ==
  ASSUME NEW m \in Nat, NEW n \in Nat, m <= n
  PROVE  Max(m..n) = n /\ Min(m..n) = m
<1>0. m \in m..n /\ n \in m..n /\ m..n \in SUBSET Nat
  OBVIOUS
<1>1. IsFiniteSet(m..n)
  <2>1. m \in Int /\ n \in Int
    OBVIOUS
  <2> QED
    BY <2>1, FS_Interval
<1>2. PICK x : x = Max(m..n)
  OBVIOUS
<1>3. PICK y : y = Min(m..n)
  OBVIOUS
<1>4. x \in m..n /\ \A z \in m..n : z <= x
  BY <1>0, <1>1, <1>2, MaxIsMember
<1>5. y \in m..n /\ \A z \in m..n : y <= z
  BY <1>0, <1>1, <1>3, MinIsMember
<1> QED
  BY <1>0, <1>2, <1>3, <1>4, <1>5

(* The coalescing pass, leg by leg.                                        *)
LEMMA CoalesceRuns ==
  ASSUME NEW legs \in Seq(Leg), NEW max
  PROVE  \E r : /\ r[0] = [overflow |-> FALSE, deltas |-> <<>>]
                /\ \A k \in 0..(Len(legs) - 1) : r[k + 1] = CoalesceLeg(r[k], legs[k + 1], max)
                /\ CoalescePass(legs, max) = r[Len(legs)]
<1> DEFINE p == [back |-> FALSE, legs |-> legs, max |-> max]
           n == Len(legs)
<1>0. DOMAIN legs = 1..n /\ n \in Nat
  BY LenProperties
<1>1. PICK g : Passes(p, 1..n, g) /\ CoalescePass(legs, max) = g[1..n]
  BY <1>0, CoalesceIsPass
<1> DEFINE r == [k \in 0..n |-> g[1..k]]
<1>2. r[0] = [overflow |-> FALSE, deltas |-> <<>>]
  <2>1. g[{}] = PassStart(p)
    BY <1>1, PassesStart
  <2>2. 1..0 = {} /\ r[0] = g[1..0]
    BY <1>0
  <2> QED
    BY <2>1, <2>2 DEF PassStart
<1>3. ASSUME NEW k \in 0..(n - 1)
      PROVE  r[k + 1] = CoalesceLeg(r[k], legs[k + 1], max)
  <2>1. /\ 1..(k + 1) \in SUBSET (1..n) /\ 1..(k + 1) # {}
        /\ (1..(k + 1)) \ {k + 1} = 1..k /\ 1 \in Nat /\ k + 1 \in Nat /\ 1 <= k + 1
    BY <1>0
  <2>2. PassPick(p, 1..(k + 1)) = k + 1
    BY <2>1, EndsOfInterval DEF PassPick
  <2>3. g[1..(k + 1)] = PassStep(p, k + 1, g[1..k])
    BY <1>1, <2>1, <2>2 DEF Passes
  <2>4. r[k + 1] = g[1..(k + 1)] /\ r[k] = g[1..k]
    BY <1>0
  <2> QED
    BY <2>3, <2>4 DEF PassStep
<1>4. r[n] = g[1..n]
  BY <1>0
<1> HIDE DEF r
<1> QED
  BY <1>1, <1>2, <1>3, <1>4

(* The numbering pass, leg by leg from the last.                           *)
LEMMA NumberRuns ==
  ASSUME NEW legs \in Seq(Leg)
  PROVE  \E r : /\ r[0] = [later |-> <<>>, offsets |-> <<>>]
                /\ \A k \in 0..(Len(legs) - 1) : r[k + 1] = NumberLeg(legs[Len(legs) - k], r[k])
                /\ NumberingPass(legs) = r[Len(legs)]
<1> DEFINE p == [back |-> TRUE, legs |-> legs, max |-> 0]
           n == Len(legs)
<1>0. DOMAIN legs = 1..n /\ n \in Nat
  BY LenProperties
<1>1. PICK g : Passes(p, 1..n, g) /\ NumberingPass(legs) = g[1..n]
  BY <1>0, NumberIsPass
<1> DEFINE r == [k \in 0..n |-> g[((n - k) + 1)..n]]
<1>2. r[0] = [later |-> <<>>, offsets |-> <<>>]
  <2>1. g[{}] = PassStart(p)
    BY <1>1, PassesStart
  <2>2. ((n - 0) + 1)..n = {} /\ r[0] = g[((n - 0) + 1)..n]
    BY <1>0
  <2> QED
    BY <2>1, <2>2 DEF PassStart
<1>3. ASSUME NEW k \in 0..(n - 1)
      PROVE  r[k + 1] = NumberLeg(legs[n - k], r[k])
  <2>0. n - k \in 1..n /\ n - k \in Nat /\ n - k <= n /\ (n - (k + 1)) + 1 = n - k
    BY <1>0
  <2>1. /\ (n - k)..n \in SUBSET (1..n) /\ (n - k)..n # {}
        /\ ((n - k)..n) \ {n - k} = ((n - k) + 1)..n
    <3>1. PICK m \in 1..n : m = n - k
      BY <2>0
    <3>2. /\ m..n \in SUBSET (1..n) /\ m \in m..n
          /\ (m..n) \ {m} = (m + 1)..n
      BY <1>0
    <3> QED
      BY <3>1, <3>2
  <2>2. PassPick(p, (n - k)..n) = n - k
    BY <1>0, <2>0, EndsOfInterval DEF PassPick
  <2>3. g[(n - k)..n] = PassStep(p, n - k, g[((n - k) + 1)..n])
    BY <1>1, <2>1, <2>2 DEF Passes
  <2>4. r[k + 1] = g[(n - k)..n] /\ r[k] = g[((n - k) + 1)..n]
    BY <1>0, <2>0
  <2> QED
    BY <2>3, <2>4 DEF PassStep
<1>4. r[n] = g[1..n]
  BY <1>0
<1> HIDE DEF r
<1> QED
  BY <1>1, <1>2, <1>3, <1>4

(* The sides, the leg counts and the deltas of the first k legs.           *)
Amounts(legs) == [i \in DOMAIN legs |-> legs[i].amount]
OnTo(legs, k, a) == {i \in 1..k : legs[i].account = a}
SideOnTo(legs, k, a, direction) == {i \in OnTo(legs, k, a) : legs[i].direction = direction}
SideTo(legs, k, a, direction) == SumFunctionOnSet(Amounts(legs), SideOnTo(legs, k, a, direction))
DeltaTo(legs, k, a) ==
  [input  |-> SideTo(legs, k, a, "debit"),
   output |-> SideTo(legs, k, a, "credit"),
   legs   |-> Cardinality(OnTo(legs, k, a))]
AccountsTo(legs, k) == {legs[i].account : i \in 1..k}
CoalesceTo(legs, k) == [a \in AccountsTo(legs, k) |-> DeltaTo(legs, k, a)]
OverflowsTo(legs, k, max) ==
  \E a \in AccountsTo(legs, k) :
    SideTo(legs, k, a, "debit") > max \/ SideTo(legs, k, a, "credit") > max

(* One more leg counts on its account and no other.                        *)
LEMMA OneMoreOn ==
  ASSUME NEW legs \in Seq(Leg), NEW k \in 0..(Len(legs) - 1), NEW a
  PROVE  /\ IsFiniteSet(OnTo(legs, k, a)) /\ Cardinality(OnTo(legs, k, a)) \in Nat
         /\ legs[k + 1].account # a => OnTo(legs, k + 1, a) = OnTo(legs, k, a)
         /\ legs[k + 1].account = a =>
              Cardinality(OnTo(legs, k + 1, a)) = Cardinality(OnTo(legs, k, a)) + 1
<1>0. Len(legs) \in Nat /\ k \in Nat
  BY LenProperties
<1>1. 1..(k + 1) = (1..k) \cup {k + 1} /\ k + 1 \notin 1..k /\ 1 \in Int /\ k \in Int
  BY <1>0
<1>2. IsFiniteSet(1..k)
  BY <1>1, FS_Interval
<1>3. OnTo(legs, k, a) \in SUBSET (1..k)
  BY DEF OnTo
<1>4. IsFiniteSet(OnTo(legs, k, a)) /\ Cardinality(OnTo(legs, k, a)) \in Nat
  BY <1>2, <1>3, FS_Subset, FS_CardinalityType
<1>5. legs[k + 1].account # a => OnTo(legs, k + 1, a) = OnTo(legs, k, a)
  BY <1>1 DEF OnTo
<1>6. legs[k + 1].account = a => OnTo(legs, k + 1, a) = OnTo(legs, k, a) \cup {k + 1}
  BY <1>1 DEF OnTo
<1>7. k + 1 \notin OnTo(legs, k, a)
  BY <1>1, <1>3
<1> QED
  BY <1>4, <1>5, <1>6, <1>7, FS_AddElement

(* One more leg adds its amount to its side of its account and to no other.*)
LEMMA OneMoreSide ==
  ASSUME NEW legs \in Seq(Leg), NEW k \in 0..(Len(legs) - 1), NEW a, NEW direction
  PROVE  /\ SideTo(legs, k, a, direction) \in Nat
         /\ legs[k + 1].account # a \/ legs[k + 1].direction # direction =>
              SideTo(legs, k + 1, a, direction) = SideTo(legs, k, a, direction)
         /\ legs[k + 1].account = a /\ legs[k + 1].direction = direction =>
              SideTo(legs, k + 1, a, direction) =
                legs[k + 1].amount + SideTo(legs, k, a, direction)
<1> DEFINE f == Amounts(legs)
           on == SideOnTo(legs, k, a, direction)
<1>0. Len(legs) \in Nat /\ k \in Nat /\ DOMAIN legs = 1..Len(legs)
  BY LenProperties
<1>1. 1..(k + 1) = (1..k) \cup {k + 1} /\ k + 1 \notin 1..k /\ k + 1 \in DOMAIN legs
      /\ 1..k \subseteq DOMAIN legs
  BY <1>0
<1>2. \A i \in DOMAIN legs : f[i] = legs[i].amount /\ f[i] \in Nat
  BY LegTyped DEF Amounts
<1>3. on \in SUBSET OnTo(legs, k, a) /\ on \subseteq 1..k
  BY DEF SideOnTo, OnTo
<1>4. IsFiniteSet(on)
  BY <1>3, OneMoreOn, FS_Subset
<1>5. SumFunctionOnSet(f, on) \in Nat
  <2>1. \A i \in on : f[i] \in Nat
    BY <1>1, <1>2, <1>3
  <2> HIDE DEF f, on
  <2> QED
    BY <1>4, <2>1, SumNat
<1>6. legs[k + 1].account # a \/ legs[k + 1].direction # direction =>
        SideOnTo(legs, k + 1, a, direction) = on
  BY <1>1 DEF SideOnTo, OnTo
<1>7. legs[k + 1].account = a /\ legs[k + 1].direction = direction =>
        SideOnTo(legs, k + 1, a, direction) = on \cup {k + 1}
  BY <1>1 DEF SideOnTo, OnTo
<1>8. SumFunctionOnSet(f, on \cup {k + 1}) = legs[k + 1].amount + SumFunctionOnSet(f, on)
  <2>1. k + 1 \notin on /\ \A i \in on \cup {k + 1} : f[i] \in Int
    BY <1>1, <1>2, <1>3
  <2>2. f[k + 1] = legs[k + 1].amount
    BY <1>1, <1>2
  <2> HIDE DEF f, on
  <2> QED
    BY <1>4, <2>1, <2>2, SumAdd
<1> QED
  BY <1>5, <1>6, <1>7, <1>8 DEF SideTo

(* An account no leg has named yet has no delta: the default is its delta. *)
LEMMA EntryIsDelta ==
  ASSUME NEW legs \in Seq(Leg), NEW k \in Nat, NEW a
  PROVE  Entry(CoalesceTo(legs, k), a, NoDelta) = DeltaTo(legs, k, a)
<1>1. CASE a \in AccountsTo(legs, k)
  BY <1>1 DEF Entry, CoalesceTo
<1>2. CASE a \notin AccountsTo(legs, k)
  <2>1. OnTo(legs, k, a) = {}
    BY <1>2 DEF OnTo, AccountsTo
  <2>2. SideOnTo(legs, k, a, "debit") = {} /\ SideOnTo(legs, k, a, "credit") = {}
    BY <2>1 DEF SideOnTo
  <2>3. DeltaTo(legs, k, a) = NoDelta
    BY <2>1, <2>2, SumEmpty, FS_EmptySet DEF DeltaTo, SideTo, NoDelta
  <2>4. DOMAIN CoalesceTo(legs, k) = AccountsTo(legs, k)
    BY DEF CoalesceTo
  <2> QED
    BY <1>2, <2>3, <2>4 DEF Entry
<1> QED
  BY <1>1, <1>2

(* What a leg adds to its account's delta is the delta of one more leg.    *)
LEMMA AccumulatedIsDelta ==
  ASSUME NEW legs \in Seq(Leg), NEW k \in 0..(Len(legs) - 1)
  PROVE  Accumulated(DeltaTo(legs, k, legs[k + 1].account), legs[k + 1]) =
           DeltaTo(legs, k + 1, legs[k + 1].account)
<1> DEFINE leg == legs[k + 1]
           a == leg.account
<1>1. Len(legs) \in Nat /\ DOMAIN legs = 1..Len(legs) /\ k + 1 \in DOMAIN legs
  BY LenProperties
<1>2. leg.amount \in Nat /\ leg.direction \in {"debit", "credit"}
  BY <1>1, LegTyped
<1>3. /\ SideTo(legs, k, a, "debit") \in Nat /\ SideTo(legs, k, a, "credit") \in Nat
      /\ Cardinality(OnTo(legs, k + 1, a)) = Cardinality(OnTo(legs, k, a)) + 1
  BY OneMoreOn, OneMoreSide
<1>6. PICK x, y, z : /\ x = SideTo(legs, k, a, "debit") /\ y = SideTo(legs, k, a, "credit")
                     /\ z = Cardinality(OnTo(legs, k, a))
  OBVIOUS
<1>7. DeltaTo(legs, k, a) = [input |-> x, output |-> y, legs |-> z]
  BY <1>6 DEF DeltaTo
<1>4. CASE leg.direction = "debit"
  <2>1. /\ SideTo(legs, k + 1, a, "debit") = SideTo(legs, k, a, "debit") + leg.amount
        /\ SideTo(legs, k + 1, a, "credit") = SideTo(legs, k, a, "credit")
    <3>1. SideTo(legs, k + 1, a, "debit") = leg.amount + SideTo(legs, k, a, "debit")
      BY <1>4, OneMoreSide
    <3>2. SideTo(legs, k + 1, a, "credit") = SideTo(legs, k, a, "credit")
      BY <1>4, OneMoreSide
    <3> QED
      BY <1>2, <1>3, <3>1, <3>2
  <2> QED
    <3>1. DeltaTo(legs, k + 1, a) = [input |-> x + leg.amount, output |-> y, legs |-> z + 1]
      BY <1>3, <1>6, <2>1 DEF DeltaTo
    <3>2. Accumulated([input |-> x, output |-> y, legs |-> z], leg) =
            [input |-> x + leg.amount, output |-> y, legs |-> z + 1]
      BY <1>4 DEF Accumulated
    <3> QED
      BY <1>7, <3>1, <3>2
<1>5. CASE leg.direction = "credit"
  <2>1. /\ SideTo(legs, k + 1, a, "credit") = SideTo(legs, k, a, "credit") + leg.amount
        /\ SideTo(legs, k + 1, a, "debit") = SideTo(legs, k, a, "debit")
    <3>1. SideTo(legs, k + 1, a, "credit") = leg.amount + SideTo(legs, k, a, "credit")
      BY <1>5, OneMoreSide
    <3>2. SideTo(legs, k + 1, a, "debit") = SideTo(legs, k, a, "debit")
      BY <1>5, OneMoreSide
    <3> QED
      BY <1>2, <1>3, <3>1, <3>2
  <2> QED
    <3>1. DeltaTo(legs, k + 1, a) = [input |-> x, output |-> y + leg.amount, legs |-> z + 1]
      BY <1>3, <1>6, <2>1 DEF DeltaTo
    <3>2. Accumulated([input |-> x, output |-> y, legs |-> z], leg) =
            [input |-> x, output |-> y + leg.amount, legs |-> z + 1]
      BY <1>5 DEF Accumulated
    <3> QED
      BY <1>7, <3>1, <3>2
<1> QED
  BY <1>2, <1>4, <1>5

(* What the coalescing pass holds after k legs.                            *)
CoalescedTo(legs, k, max, pass) ==
  \E deltas : /\ pass = [overflow |-> OverflowsTo(legs, k, max), deltas |-> deltas]
              /\ ~OverflowsTo(legs, k, max) => deltas = CoalesceTo(legs, k)

(* A leg of an account whose sides still fit.                              *)
LEMMA OneMoreOverflow ==
  ASSUME NEW legs \in Seq(Leg), NEW k \in 0..(Len(legs) - 1), NEW max \in Nat
  PROVE  LET a == legs[k + 1].account IN
         /\ AccountsTo(legs, k + 1) = AccountsTo(legs, k) \cup {a}
         /\ OverflowsTo(legs, k + 1, max) <=>
              \/ OverflowsTo(legs, k, max)
              \/ ~Fits(DeltaTo(legs, k + 1, a), max)
<1> DEFINE a == legs[k + 1].account
           Over(j, x) == SideTo(legs, j, x, "debit") > max \/ SideTo(legs, j, x, "credit") > max
<1>1. AccountsTo(legs, k + 1) = AccountsTo(legs, k) \cup {a}
  <2>1. Len(legs) \in Nat /\ k \in Nat
    BY LenProperties
  <2>2. 1..(k + 1) = (1..k) \cup {k + 1}
    BY <2>1
  <2> QED
    BY <2>2 DEF AccountsTo
<1>2. DOMAIN legs = 1..Len(legs) /\ Len(legs) \in Nat /\ k + 1 \in DOMAIN legs
  BY LenProperties
<1>3. legs[k + 1].amount \in Nat
  BY <1>2, LegTyped
<1>4. ASSUME NEW x, x # a PROVE Over(k + 1, x) <=> Over(k, x)
  BY <1>4, OneMoreSide
<1>5. Over(k, a) => Over(k + 1, a)
  <2>1. ASSUME NEW d \in {"debit", "credit"}
        PROVE  /\ SideTo(legs, k, a, d) \in Nat /\ SideTo(legs, k + 1, a, d) \in Nat
               /\ SideTo(legs, k, a, d) <= SideTo(legs, k + 1, a, d)
    <3>1. PICK s \in Nat : s = SideTo(legs, k, a, d)
      BY OneMoreSide
    <3>2. PICK m \in Nat : m = legs[k + 1].amount
      BY <1>3
    <3>3. SideTo(legs, k + 1, a, d) = s \/ SideTo(legs, k + 1, a, d) = m + s
      BY <3>1, <3>2, OneMoreSide
    <3> QED
      BY <3>1, <3>2, <3>3
  <2> QED
    BY <2>1
<1>6. Over(k + 1, a) <=> ~Fits(DeltaTo(legs, k + 1, a), max)
  <2>1. DeltaTo(legs, k + 1, a).input = SideTo(legs, k + 1, a, "debit")
        /\ DeltaTo(legs, k + 1, a).output = SideTo(legs, k + 1, a, "credit")
    BY DEF DeltaTo
  <2>2. ASSUME NEW d PROVE SideTo(legs, k + 1, a, d) \in Nat
    <3>1. PICK s \in Nat : s = SideTo(legs, k, a, d)
      BY OneMoreSide
    <3>2. PICK m \in Nat : m = legs[k + 1].amount
      BY <1>3
    <3>3. SideTo(legs, k + 1, a, d) = s \/ SideTo(legs, k + 1, a, d) = m + s
      BY <3>1, <3>2, OneMoreSide
    <3> QED
      BY <3>1, <3>2, <3>3
  <2> QED
    BY <2>1, <2>2 DEF Fits
<1>7. OverflowsTo(legs, k + 1, max) <=> \E x \in AccountsTo(legs, k + 1) : Over(k + 1, x)
  BY DEF OverflowsTo
<1>8. OverflowsTo(legs, k, max) <=> \E x \in AccountsTo(legs, k) : Over(k, x)
  BY DEF OverflowsTo
<1> HIDE DEF Over
<1>9. OverflowsTo(legs, k + 1, max) <=> OverflowsTo(legs, k, max) \/ Over(k + 1, a)
  BY <1>1, <1>4, <1>5, <1>7, <1>8
<1> QED
  BY <1>1, <1>6, <1>9

(* A leg keeps what the pass holds.                                        *)
LEMMA CoalesceStep ==
  ASSUME NEW legs \in Seq(Leg), NEW k \in 0..(Len(legs) - 1), NEW max \in Nat,
         NEW pass, CoalescedTo(legs, k, max, pass)
  PROVE  CoalescedTo(legs, k + 1, max, CoalesceLeg(pass, legs[k + 1], max))
<1> DEFINE leg == legs[k + 1]
           a == leg.account
           before == OverflowsTo(legs, k, max)
           after == OverflowsTo(legs, k + 1, max)
           delta == Accumulated(Entry(pass.deltas, a, NoDelta), leg)
<1>1. PICK D : pass = [overflow |-> before, deltas |-> D] /\ (~before => D = CoalesceTo(legs, k))
  BY DEF CoalescedTo
<1>2. pass.overflow = before /\ pass.deltas = D
  BY <1>1
<1>3. after <=> before \/ ~Fits(DeltaTo(legs, k + 1, a), max)
  BY OneMoreOverflow
<1>4. AccountsTo(legs, k + 1) = AccountsTo(legs, k) \cup {a}
  BY OneMoreOverflow
<1>5. ~before => delta = DeltaTo(legs, k + 1, a)
  BY <1>1, <1>2, EntryIsDelta, AccumulatedIsDelta
<1>6. CASE before \/ ~Fits(delta, max)
  <2>1. after
    BY <1>3, <1>5, <1>6
  <2>2. CoalesceLeg(pass, leg, max) = [pass EXCEPT !.overflow = TRUE]
    BY <1>2, <1>6 DEF CoalesceLeg
  <2>3. CoalesceLeg(pass, leg, max) = [overflow |-> TRUE, deltas |-> D]
    BY <1>1, <2>2
  <2> QED
    BY <2>1, <2>3 DEF CoalescedTo
<1>7. CASE ~before /\ Fits(delta, max)
  <2>1. ~after
    BY <1>3, <1>5, <1>7
  <2>2. With(D, a, delta) = CoalesceTo(legs, k + 1)
    <3>1. DOMAIN D = AccountsTo(legs, k)
      BY <1>1, <1>7 DEF CoalesceTo
    <3>2. \A x \in AccountsTo(legs, k) : D[x] = DeltaTo(legs, k, x)
      BY <1>1, <1>7 DEF CoalesceTo
    <3>3. ASSUME NEW x, x # a PROVE DeltaTo(legs, k + 1, x) = DeltaTo(legs, k, x)
      <4>1. SideTo(legs, k + 1, x, "debit") = SideTo(legs, k, x, "debit")
            /\ SideTo(legs, k + 1, x, "credit") = SideTo(legs, k, x, "credit")
        BY <3>3, OneMoreSide
      <4>2. OnTo(legs, k + 1, x) = OnTo(legs, k, x)
        BY <3>3, OneMoreOn
      <4> QED
        BY <4>1, <4>2 DEF DeltaTo
    <3>4. delta = DeltaTo(legs, k + 1, a)
      BY <1>5, <1>7
    <3> HIDE DEF delta, a
    <3>5. With(D, a, delta) = [x \in AccountsTo(legs, k) \cup {a} |-> DeltaTo(legs, k + 1, x)]
      BY <3>1, <3>2, <3>3, <3>4 DEF With
    <3> QED
      BY <1>4, <3>5 DEF CoalesceTo, a
  <2>3. CoalesceLeg(pass, leg, max) = [pass EXCEPT !.deltas = With(@, a, delta)]
    BY <1>2, <1>7 DEF CoalesceLeg
  <2>4. before = FALSE /\ after = FALSE
    BY <1>7, <2>1 DEF OverflowsTo
  <2>5. PICK E : E = With(D, a, delta)
    OBVIOUS
  <2>6. CoalesceLeg(pass, leg, max) = [overflow |-> FALSE, deltas |-> E]
    <3> HIDE DEF a, delta, before, after, leg
    <3> QED
      BY <1>1, <2>3, <2>4, <2>5
  <2>7. CoalesceLeg(pass, leg, max) = [overflow |-> after, deltas |-> E] /\ E = CoalesceTo(legs, k + 1)
    BY <2>2, <2>4, <2>5, <2>6
  <2> QED
    BY <2>7 DEF CoalescedTo
<1> QED
  BY <1>6, <1>7

(* The pass refuses exactly what overflows, and sums the rest.             *)
LEMMA CoalescePassIsExact ==
  ASSUME NEW legs \in Seq(Leg), NEW max \in Nat
  PROVE  /\ CoalescePass(legs, max).overflow <=> Overflows(legs, max)
         /\ ~Overflows(legs, max) => CoalescePass(legs, max).deltas = Coalesce(legs)
<1> DEFINE n == Len(legs)
<1>0. n \in Nat /\ DOMAIN legs = 1..n
  BY LenProperties
<1>1. PICK r : /\ r[0] = [overflow |-> FALSE, deltas |-> <<>>]
               /\ \A k \in 0..(n - 1) : r[k + 1] = CoalesceLeg(r[k], legs[k + 1], max)
               /\ CoalescePass(legs, max) = r[n]
  BY CoalesceRuns
<1> DEFINE G == {k \in 0..n : CoalescedTo(legs, k, max, r[k])}
<1>2. 0 \in G
  <2>1. AccountsTo(legs, 0) = {}
    BY DEF AccountsTo
  <2>2. ~OverflowsTo(legs, 0, max) /\ CoalesceTo(legs, 0) = <<>>
    BY <2>1 DEF OverflowsTo, CoalesceTo
  <2>3. OverflowsTo(legs, 0, max) = FALSE
    BY <2>2 DEF OverflowsTo
  <2>4. CoalescedTo(legs, 0, max, r[0])
    BY <1>1, <2>2, <2>3 DEF CoalescedTo
  <2> QED
    BY <1>0, <2>4
<1>3. ASSUME NEW k \in 0..(n - 1), k \in G PROVE k + 1 \in G
  <2>1. r[k + 1] = CoalesceLeg(r[k], legs[k + 1], max)
    BY <1>1
  <2>2. CoalescedTo(legs, k + 1, max, CoalesceLeg(r[k], legs[k + 1], max))
    BY <1>3, CoalesceStep
  <2>3. k + 1 \in 0..n
    BY <1>0
  <2> QED
    BY <2>1, <2>2, <2>3
<1> HIDE DEF G
<1>4. n \in G
  BY <1>0, <1>2, <1>3, CountInduction
<1>5. PICK D : /\ r[n] = [overflow |-> OverflowsTo(legs, n, max), deltas |-> D]
               /\ ~OverflowsTo(legs, n, max) => D = CoalesceTo(legs, n)
  BY <1>4 DEF G, CoalescedTo
<1>6. /\ AccountsTo(legs, n) = AccountsOf(legs)
      /\ \A a : OnTo(legs, n, a) = LegsOn(legs, a)
  BY <1>0 DEF AccountsTo, AccountsOf, OnTo, LegsOn
<1>7. \A a, d : SideTo(legs, n, a, d) = SideOf(legs, a, d)
  BY <1>6 DEF SideTo, SideOf, SideOnTo, Amounts
<1>8. OverflowsTo(legs, n, max) <=> Overflows(legs, max)
  BY <1>6, <1>7 DEF OverflowsTo, Overflows
<1>9. CoalesceTo(legs, n) = Coalesce(legs)
  BY <1>6, <1>7 DEF CoalesceTo, Coalesce, DeltaTo
<1> QED
  BY <1>1, <1>5, <1>8, <1>9

(* What the numbering pass holds once it has taken the legs after leg m:   *)
(* how many of them each account has, and the offset of each.              *)
AfterOn(legs, m, a) == {i \in LegsOn(legs, a) : i > m}
NumberedAfter(legs, m, pass) ==
  \E later, offsets :
    /\ pass = [later |-> later, offsets |-> offsets]
    /\ \A a : Entry(later, a, 0) = Cardinality(AfterOn(legs, m, a))
    /\ offsets \in Seq(Nat) /\ Len(offsets) = Len(legs) - m
    /\ \A i \in 1..Len(offsets) : offsets[i] = OffsetBack(legs, m + i)

(* The first of a longer list is the one put before, and the others follow.*)
LEMMA PutBefore ==
  ASSUME NEW x \in Nat, NEW s \in Seq(Nat)
  PROVE  /\ <<x>> \o s \in Seq(Nat) /\ Len(<<x>> \o s) = Len(s) + 1
         /\ (<<x>> \o s)[1] = x
         /\ \A i \in 1..Len(s) : (<<x>> \o s)[i + 1] = s[i]
<1>1. <<x>> \in Seq(Nat) /\ Len(<<x>>) = 1 /\ Len(s) \in Nat
  BY LenProperties
<1>2. /\ <<x>> \o s \in Seq(Nat) /\ Len(<<x>> \o s) = 1 + Len(s)
      /\ \A i \in 1..(1 + Len(s)) : (<<x>> \o s)[i] = IF i <= 1 THEN <<x>>[i] ELSE s[i - 1]
  BY <1>1, ConcatProperties
<1>3. ASSUME NEW i \in 1..Len(s) PROVE (<<x>> \o s)[i + 1] = s[i]
  <2>1. i + 1 \in 1..(1 + Len(s)) /\ ~(i + 1 <= 1) /\ (i + 1) - 1 = i
    BY <1>1
  <2> QED
    BY <1>2, <2>1
<1> QED
  BY <1>1, <1>2, <1>3

(* A leg before those counted has as many after it as its account counts,  *)
(* and counts from then on.                                                *)
LEMMA OneMoreAfter ==
  ASSUME NEW legs \in Seq(Leg), NEW m \in 1..Len(legs), NEW a
  PROVE  /\ IsFiniteSet(AfterOn(legs, m, a)) /\ Cardinality(AfterOn(legs, m, a)) \in Nat
         /\ legs[m].account # a => AfterOn(legs, m - 1, a) = AfterOn(legs, m, a)
         /\ legs[m].account = a =>
              Cardinality(AfterOn(legs, m - 1, a)) = Cardinality(AfterOn(legs, m, a)) + 1
<1>0. Len(legs) \in Nat /\ DOMAIN legs = 1..Len(legs)
  BY LenProperties
<1>1. IsFiniteSet(LegsOn(legs, a)) /\ LegsOn(legs, a) \in SUBSET (1..Len(legs))
  BY LegsOnIsFinite
<1>2. AfterOn(legs, m, a) \in SUBSET LegsOn(legs, a)
  BY DEF AfterOn
<1>3. IsFiniteSet(AfterOn(legs, m, a)) /\ Cardinality(AfterOn(legs, m, a)) \in Nat
  BY <1>1, <1>2, FS_Subset, FS_CardinalityType
<1>4. m \in LegsOn(legs, a) <=> legs[m].account = a
  BY <1>0 DEF LegsOn
<1>5. \A i \in LegsOn(legs, a) : i > m - 1 <=> i > m \/ i = m
  BY <1>0, <1>1
<1>6. legs[m].account # a => AfterOn(legs, m - 1, a) = AfterOn(legs, m, a)
  BY <1>4, <1>5 DEF AfterOn
<1>7. legs[m].account = a => AfterOn(legs, m - 1, a) = AfterOn(legs, m, a) \cup {m}
  BY <1>4, <1>5 DEF AfterOn
<1>8. m \notin AfterOn(legs, m, a)
  BY <1>0 DEF AfterOn
<1> QED
  BY <1>3, <1>6, <1>7, <1>8, FS_AddElement

(* A leg keeps what the numbering pass holds.                              *)
LEMMA NumberStep ==
  ASSUME NEW legs \in Seq(Leg), NEW m \in 1..Len(legs),
         NEW pass, NumberedAfter(legs, m, pass)
  PROVE  NumberedAfter(legs, m - 1, NumberLeg(legs[m], pass))
<1> DEFINE a == legs[m].account
<1>0. Len(legs) \in Nat
  BY LenProperties
<1>1. PICK later, offsets :
        /\ pass = [later |-> later, offsets |-> offsets]
        /\ \A x : Entry(later, x, 0) = Cardinality(AfterOn(legs, m, x))
        /\ offsets \in Seq(Nat) /\ Len(offsets) = Len(legs) - m
        /\ \A i \in 1..Len(offsets) : offsets[i] = OffsetBack(legs, m + i)
  BY DEF NumberedAfter
<1>2. PICK seen \in Nat : seen = Cardinality(AfterOn(legs, m, a))
  BY OneMoreAfter
<1>3. Entry(later, a, 0) = seen /\ OffsetBack(legs, m) = seen
  BY <1>1, <1>2 DEF OffsetBack, AfterOn
<1>4. PICK later2, offsets2 : later2 = With(later, a, seen + 1) /\ offsets2 = <<seen>> \o offsets
  OBVIOUS
<1>5. NumberLeg(legs[m], pass) = [later |-> later2, offsets |-> offsets2]
  BY <1>1, <1>3, <1>4 DEF NumberLeg
<1>6. ASSUME NEW x PROVE Entry(later2, x, 0) = Cardinality(AfterOn(legs, m - 1, x))
  <2>1. CASE x = a
    <3>1. Entry(later2, a, 0) = seen + 1
      BY <1>4 DEF Entry, With
    <3>2. Cardinality(AfterOn(legs, m - 1, a)) = seen + 1
      BY <1>2, OneMoreAfter
    <3> QED
      BY <2>1, <3>1, <3>2
  <2>2. CASE x # a
    <3>1. Entry(later2, x, 0) = Entry(later, x, 0)
      BY <1>4, <2>2 DEF Entry, With
    <3>2. AfterOn(legs, m - 1, x) = AfterOn(legs, m, x)
      BY <2>2, OneMoreAfter
    <3> QED
      BY <1>1, <3>1, <3>2
  <2> QED
    BY <2>1, <2>2
<1>7. /\ offsets2 \in Seq(Nat) /\ Len(offsets2) = Len(offsets) + 1
      /\ offsets2[1] = seen
      /\ \A i \in 1..Len(offsets) : offsets2[i + 1] = offsets[i]
  BY <1>1, <1>4, PutBefore
<1>8. Len(offsets) \in Nat /\ Len(offsets) = Len(legs) - m
  BY <1>1, LenProperties
<1>9. Len(offsets2) = Len(legs) - (m - 1)
  BY <1>0, <1>7, <1>8
<1>10. ASSUME NEW i \in 1..Len(offsets2) PROVE offsets2[i] = OffsetBack(legs, (m - 1) + i)
  <2>1. CASE i = 1
    <3>1. (m - 1) + i = m
      BY <2>1, <1>0
    <3> QED
      BY <1>3, <1>7, <2>1, <3>1
  <2>2. CASE i # 1
    <3>1. i - 1 \in 1..Len(offsets) /\ (i - 1) + 1 = i /\ m + (i - 1) = (m - 1) + i
      BY <1>0, <1>7, <1>8, <2>2
    <3>2. PICK j \in 1..Len(offsets) : j = i - 1
      BY <3>1
    <3>3. offsets2[j + 1] = offsets[j] /\ offsets[j] = OffsetBack(legs, m + j)
      BY <1>1, <1>7
    <3> QED
      BY <3>1, <3>2, <3>3
  <2> QED
    BY <2>1, <2>2
<1>11. PICK j, next : j = m - 1 /\ next = NumberLeg(legs[m], pass)
  OBVIOUS
<1>12. NumberedAfter(legs, j, next)
  <2>1. /\ next = [later |-> later2, offsets |-> offsets2]
        /\ \A x : Entry(later2, x, 0) = Cardinality(AfterOn(legs, j, x))
        /\ offsets2 \in Seq(Nat) /\ Len(offsets2) = Len(legs) - j
        /\ \A i \in 1..Len(offsets2) : offsets2[i] = OffsetBack(legs, j + i)
    BY <1>5, <1>6, <1>7, <1>9, <1>10, <1>11
  <2> QED
    BY <2>1 DEF NumberedAfter
<1> QED
  BY <1>11, <1>12

(* The pass numbers each leg by its distance back from the last.           *)
LEMMA NumberingPassIsExact ==
  ASSUME NEW legs \in Seq(Leg)
  PROVE  \A i \in DOMAIN legs : NumberingPass(legs).offsets[i] = OffsetBack(legs, i)
<1> DEFINE n == Len(legs)
<1>0. n \in Nat /\ DOMAIN legs = 1..n
  BY LenProperties
<1>1. PICK r : /\ r[0] = [later |-> <<>>, offsets |-> <<>>]
               /\ \A k \in 0..(n - 1) : r[k + 1] = NumberLeg(legs[n - k], r[k])
               /\ NumberingPass(legs) = r[n]
  BY NumberRuns
<1> DEFINE G == {k \in 0..n : NumberedAfter(legs, n - k, r[k])}
<1>2. 0 \in G
  <2>1. ASSUME NEW a PROVE Cardinality(AfterOn(legs, n, a)) = 0 /\ Entry(<<>>, a, 0) = 0
    <3>1. AfterOn(legs, n, a) = {}
      BY <1>0 DEF AfterOn, LegsOn
    <3> QED
      BY <3>1, FS_EmptySet DEF Entry
  <2>2. <<>> \in Seq(Nat) /\ Len(<<>>) = 0 /\ n - n = 0 /\ n - 0 = n
    BY <1>0
  <2>3. NumberedAfter(legs, n, r[0])
    <3>1. \A i \in 1..Len(<<>>) : <<>>[i] = OffsetBack(legs, n + i)
      BY <2>2
    <3> HIDE DEF n
    <3> QED
      BY <1>1, <2>1, <2>2, <3>1 DEF NumberedAfter, n
  <2> QED
    BY <1>0, <2>2, <2>3
<1>3. ASSUME NEW k \in 0..(n - 1), k \in G PROVE k + 1 \in G
  <2>0. n - k \in 1..n /\ (n - k) - 1 = n - (k + 1)
    BY <1>0
  <2>1. PICK m \in 1..n : m = n - k /\ m - 1 = n - (k + 1)
    BY <2>0
  <2>2. r[k + 1] = NumberLeg(legs[m], r[k])
    BY <1>1, <2>1
  <2>3. NumberedAfter(legs, m - 1, NumberLeg(legs[m], r[k]))
    BY <1>3, <2>1, NumberStep
  <2>4. k + 1 \in 0..n
    BY <1>0
  <2> QED
    BY <2>1, <2>2, <2>3, <2>4
<1> HIDE DEF G
<1>4. n \in G
  BY <1>0, <1>2, <1>3, CountInduction
<1>5. n - n = 0 /\ NumberedAfter(legs, 0, r[n])
  BY <1>0, <1>4 DEF G
<1>6. PICK offsets : /\ r[n].offsets = offsets /\ Len(offsets) = n - 0
                     /\ \A i \in 1..Len(offsets) : offsets[i] = OffsetBack(legs, 0 + i)
  BY <1>5 DEF NumberedAfter
<1>7. ASSUME NEW i \in 1..n PROVE offsets[i] = OffsetBack(legs, i)
  <2>1. 0 + i = i /\ n - 0 = n
    BY <1>0
  <2> QED
    BY <1>6, <2>1
<1> QED
  BY <1>0, <1>1, <1>6, <1>7

(* The offsets of an account's legs are 0 .. n-1, without gap.             *)
LEMMA OffsetsAreDense ==
  ASSUME NEW legs \in Seq(Leg), NEW a
  PROVE  {OffsetBack(legs, i) : i \in LegsOn(legs, a)} = 0..(Cardinality(LegsOn(legs, a)) - 1)
<1> DEFINE on == LegsOn(legs, a)
           c == Cardinality(on)
           off == [i \in on |-> OffsetBack(legs, i)]
<1>1. on \subseteq Nat /\ IsFiniteSet(on) /\ c \in Nat /\ on \subseteq DOMAIN legs
  <2>1. on \in SUBSET (1..Len(legs)) /\ IsFiniteSet(on) /\ c \in Nat
    BY LegsOnIsFinite
  <2> QED
    BY <2>1, LenProperties
<1>2. ASSUME NEW i \in on
      PROVE  /\ OffsetBack(legs, i) \in 0..(c - 1)
             /\ \A j \in on : j > i => OffsetBack(legs, j) < OffsetBack(legs, i)
  <2>1. legs[i].account = a /\ i \in DOMAIN legs
    BY <1>2 DEF LegsOn
  <2>2. /\ OffsetBack(legs, i) \in Nat /\ OffsetBack(legs, i) < c
        /\ \A j \in on : j > i => OffsetBack(legs, j) < OffsetBack(legs, i)
    BY <2>1, OffsetsFall
  <2> QED
    BY <1>1, <2>2
<1>3. off \in Injection(on, 0..(c - 1))
  <2>1. off \in [on -> 0..(c - 1)]
    BY <1>2
  <2>2. ASSUME NEW i \in on, NEW j \in on, off[i] = off[j] PROVE i = j
    <3>1. i \in Nat /\ j \in Nat /\ off[i] \in 0..(c - 1) /\ off[j] \in 0..(c - 1)
      BY <1>1, <2>1
    <3>2. ~(j > i) /\ ~(i > j)
      BY <1>2, <2>2, <3>1
    <3> QED
      BY <3>1, <3>2
  <2> QED
    BY <2>1, <2>2 DEF Injection, IsInjective
<1>4. IsFiniteSet(0..(c - 1)) /\ Cardinality(0..(c - 1)) = c
  <2>1. 0 \in Int /\ c - 1 \in Int /\ (0 > c - 1 <=> c = 0) /\ ((c - 1) - 0) + 1 = c
    BY <1>1
  <2> QED
    BY <2>1, FS_Interval
<1>5. off \in Surjection(on, 0..(c - 1))
  <2> HIDE DEF off, c
  <2>1. Cardinality(on) = Cardinality(0..(c - 1))
    BY <1>4 DEF c
  <2> QED
    BY <1>3, <1>4, <2>1, FS_Injection
<1>6. \A x \in 0..(c - 1) : \E i \in on : off[i] = x
  BY <1>5 DEF Surjection
<1> QED
  BY <1>2, <1>6

(* The loops of plan_append compute the operators the writers' modules     *)
(* use, for every list of postings, either status and every width.         *)
THEOREM PlansCompute ==
  ASSUME NEW postings \in PostingLists, NEW status, NEW max \in Nat
  PROVE  PlanIsExact(postings, status, max)
<1>1. PICK legs \in Seq(Leg) : legs = ExpandPostings(postings)
  BY ExpandedLegs
<1>2. PICK plan : plan = PlanAppend(postings, status, max)
  OBVIOUS
<1>3. PICK pass : pass = CoalescePass(legs, max)
  OBVIOUS
<1>4. /\ plan.overflow = pass.overflow
      /\ plan.deltas = IF status = "pending" THEN Withheld(pass.deltas) ELSE pass.deltas
      /\ plan.offsets = NumberingPass(legs).offsets
  BY <1>1, <1>2, <1>3 DEF PlanAppend
<1>5. plan.overflow <=> Overflows(legs, max)
  BY <1>3, <1>4, CoalescePassIsExact
<1>6. ~plan.overflow => plan.deltas = PlannedDeltas(legs, status)
  BY <1>3, <1>4, <1>5, CoalescePassIsExact DEF PlannedDeltas
<1>7. \A n \in DOMAIN legs : plan.offsets[n] = OffsetBack(legs, n)
  BY <1>4, NumberingPassIsExact
<1>8. ASSUME NEW a \in AccountsOf(legs)
      PROVE  /\ {plan.offsets[n] : n \in LegsOn(legs, a)} =
                  0..(Cardinality(LegsOn(legs, a)) - 1)
             /\ \A m, n \in LegsOn(legs, a) : m < n => plan.offsets[m] > plan.offsets[n]
  <2>1. \A n \in LegsOn(legs, a) : n \in DOMAIN legs /\ legs[n].account = a
    BY DEF LegsOn
  <2>2. {plan.offsets[n] : n \in LegsOn(legs, a)} =
          {OffsetBack(legs, n) : n \in LegsOn(legs, a)}
    BY <1>7, <2>1
  <2>3. ASSUME NEW m \in LegsOn(legs, a), NEW n \in LegsOn(legs, a), m < n
        PROVE  plan.offsets[m] > plan.offsets[n]
    <3>1. n > m /\ m \in DOMAIN legs /\ legs[m].account = a
      <4>1. DOMAIN legs \subseteq Nat
        BY LenProperties
      <4> QED
        BY <2>1, <2>3, <4>1
    <3>2. PICK x \in Nat : x = OffsetBack(legs, m)
      BY <3>1, OffsetsFall
    <3>3. PICK y \in Nat : y = OffsetBack(legs, n)
      BY <2>1, OffsetsFall
    <3>4. OffsetBack(legs, n) < OffsetBack(legs, m)
      BY <3>1, OffsetsFall
    <3> QED
      BY <1>7, <2>1, <3>2, <3>3, <3>4
  <2> QED
    BY <2>2, <2>3, OffsetsAreDense
<1> QED
  BY <1>1, <1>2, <1>5, <1>6, <1>7, <1>8 DEF PlanIsExact
=============================================================================
