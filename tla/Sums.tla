-------------------------------- MODULE Sums --------------------------------
(***************************************************************************)
(* Facts about sums over finite sets (SumFunction of the community module  *)
(* Functions), on which the accounts of the contract and of the relay      *)
(* rest.  Every finite set is reached from the empty one by adding         *)
(* elements, so induction is carried out inside a set of subsets.          *)
(***************************************************************************)
EXTENDS Functions, FiniteSetTheorems, TLAPS

(* The element of a set that the fold takes first. *)
Chosen(T) == CHOOSE x \in T : TRUE

(* h is the table of the sums of f over the subsets of S. *)
IsSumTable(h, f, S) ==
    h = [T \in SUBSET S |->
           IF T = {} THEN 0 ELSE f[Chosen(T)] + h[T \ {Chosen(T)}]]

(* The sums of f over the subsets of T, each computed on its own. *)
Table(f, T) == [U \in SUBSET T |-> SumFunctionOnSet(f, U)]

(* T's table is the only one. *)
HasTable(f, T) ==
    /\ IsSumTable(Table(f, T), f, T)
    /\ \A h : IsSumTable(h, f, T) => h = Table(f, T)

(* The fold's own definition, seen as the choice of such a table. *)
LEMMA SumIsTableEntry ==
    ASSUME NEW f, NEW S
    PROVE  SumFunctionOnSet(f, S) = (CHOOSE h : IsSumTable(h, f, S))[S]
  BY DEF SumFunctionOnSet, FoldFunctionOnSet, MapThenFoldSet, IsSumTable, Chosen

LEMMA ChosenIsMember == ASSUME NEW T, T # {} PROVE Chosen(T) \in T
  BY DEF Chosen

(* A property of the subsets of S, given as the set C of those that have   *)
(* it, holds of all of them when it passes from the smaller to the larger. *)
LEMMA SubsetInduction ==
    ASSUME NEW S, IsFiniteSet(S), NEW C,
           \A T \in SUBSET S : (\A U \in SUBSET T : U # T => U \in C) => T \in C
    PROVE  \A T \in SUBSET S : T \in C
  <1>1. FiniteSubsetsOf(S) = SUBSET S
    BY FS_FiniteSubsetsOfFinite
  <1>2. IsWellFoundedOn(StrictSubsetOrdering(S), SUBSET S)
    BY <1>1, FS_StrictSubsetOrderingWellFounded
  <1> DEFINE Bad == (SUBSET S) \ C
  <1>3. SUFFICES ASSUME Bad # {} PROVE FALSE
    OBVIOUS
  <1>4. PICK T \in Bad : \A U \in Bad : ~ (<<U, T>> \in StrictSubsetOrdering(S))
    <2>1. Bad \subseteq SUBSET S
      OBVIOUS
    <2> HIDE DEF Bad
    <2>2. QED
      BY <1>2, <1>3, <2>1, WFMin
  <1>5. \A U \in SUBSET T : U # T => U \in C
    BY <1>4 DEF StrictSubsetOrdering
  <1>6. QED
    BY <1>4, <1>5

(* A finite set of numbers that is not empty has a largest. *)
LEMMA LargestExists ==
    ASSUME NEW S, IsFiniteSet(S), S \subseteq Int, S # {}
    PROVE  \E x \in S : \A y \in S : x >= y
  <1> DEFINE C == {T \in SUBSET S : T # {} => \E x \in T : \A y \in T : x >= y}
  <1>1. ASSUME NEW T \in SUBSET S, \A U \in SUBSET T : U # T => U \in C
        PROVE  T \in C
    <2>1. CASE T = {}
      BY <2>1
    <2>2. CASE T # {}
      <3>1. PICK t \in T : TRUE
        BY <2>2
      <3>2. T \ {t} \in C
        BY <1>1, <3>1
      <3>3. CASE T \ {t} = {}
        <4>1. \A y \in T : t >= y
          BY <3>1, <3>3
        <4>2. QED
          BY <4>1, <3>1
      <3>4. CASE T \ {t} # {}
        <4>1. PICK x \in T \ {t} : \A y \in T \ {t} : x >= y
          BY <3>2, <3>4
        <4>2. x \in Int /\ t \in Int /\ T \subseteq Int
          BY <3>1, <4>1
        <4>3. CASE x >= t
          BY <4>1, <4>2, <4>3
        <4>4. CASE t >= x
          <5>1. \A y \in T : t >= y
            BY <4>1, <4>2, <4>4
          <5>2. QED
            BY <5>1, <3>1
        <4>5. QED
          BY <4>2, <4>3, <4>4
      <3>5. QED
        BY <3>3, <3>4
    <2>3. QED
      BY <2>1, <2>2
  <1> HIDE DEF C
  <1>2. \A T \in SUBSET S : T \in C
    BY <1>1, SubsetInduction
  <1>3. QED
    BY <1>2 DEF C

(* The recursion of the fold has exactly one solution on a finite set. *)
LEMMA TableExists ==
    ASSUME NEW f, NEW S, IsFiniteSet(S)
    PROVE  HasTable(f, S)
  <1> DEFINE C == {T \in SUBSET S : HasTable(f, T)}
  <1>1. ASSUME NEW T \in SUBSET S, \A U \in SUBSET T : U # T => U \in C
        PROVE  T \in C
    <2> DEFINE c == Chosen(T)
               v == IF T = {} THEN 0 ELSE f[c] + SumFunctionOnSet(f, T \ {c})
               g == [U \in SUBSET T |-> IF U = T THEN v ELSE SumFunctionOnSet(f, U)]
    <2>1. ASSUME NEW U \in SUBSET T, U # T
          PROVE  /\ SumFunctionOnSet(f, U)
                      = IF U = {} THEN 0
                        ELSE f[Chosen(U)] + SumFunctionOnSet(f, U \ {Chosen(U)})
                 /\ \A h : IsSumTable(h, f, U) => h = Table(f, U)
      <3>1. HasTable(f, U)
        BY <1>1, <2>1
      <3>2. U \in SUBSET U /\ U \ {Chosen(U)} \in SUBSET U
        OBVIOUS
      <3>3. Table(f, U)[U] = SumFunctionOnSet(f, U)
        BY DEF Table
      <3>4. Table(f, U)[U \ {Chosen(U)}] = SumFunctionOnSet(f, U \ {Chosen(U)})
        BY <3>2 DEF Table
      <3>5. Table(f, U)[U] = IF U = {} THEN 0
                             ELSE f[Chosen(U)] + Table(f, U)[U \ {Chosen(U)}]
        BY <3>1, <3>2 DEF HasTable, IsSumTable
      <3>6. QED
        BY <3>1, <3>3, <3>4, <3>5 DEF HasTable
    <2>2. T # {} => T \ {c} \in SUBSET T /\ T \ {c} # T
      BY ChosenIsMember
    <2>3. IsSumTable(g, f, T)
      <3>1. ASSUME NEW U \in SUBSET T
            PROVE  g[U] = IF U = {} THEN 0 ELSE f[Chosen(U)] + g[U \ {Chosen(U)}]
        <4>1. CASE U = T
          BY <2>2, <4>1
        <4>2. CASE U # T
          <5>1. U # {} => Chosen(U) \in U
            BY ChosenIsMember
          <5>2. U \ {Chosen(U)} \in SUBSET T /\ U \ {Chosen(U)} # T
            BY <4>2
          <5>3. /\ g[U] = SumFunctionOnSet(f, U)
                /\ g[U \ {Chosen(U)}] = SumFunctionOnSet(f, U \ {Chosen(U)})
            BY <4>2, <5>2
          <5>4. QED
            BY <2>1, <4>2, <5>3
        <4>3. QED
          BY <4>1, <4>2
      <3> HIDE DEF v
      <3>2. g = [U \in SUBSET T |-> g[U]]
        OBVIOUS
      <3> HIDE DEF g
      <3>3. QED
        BY <3>1, <3>2 DEF IsSumTable
    <2>4. ASSUME NEW h, IsSumTable(h, f, T)
          PROVE  h = g
      <3>1. h = [U \in SUBSET T |->
                   IF U = {} THEN 0 ELSE f[Chosen(U)] + h[U \ {Chosen(U)}]]
        BY <2>4 DEF IsSumTable
      <3>2. ASSUME NEW U \in SUBSET T, U # T
            PROVE  h[U] = SumFunctionOnSet(f, U)
        <4> DEFINE k == [W \in SUBSET U |-> h[W]]
        <4>1. IsSumTable(k, f, U)
          <5>1. ASSUME NEW W \in SUBSET U
                PROVE  k[W] = IF W = {} THEN 0
                              ELSE f[Chosen(W)] + k[W \ {Chosen(W)}]
            <6>1. W \in SUBSET T /\ W \ {Chosen(W)} \in SUBSET U
              OBVIOUS
            <6>2. h[W] = IF W = {} THEN 0
                         ELSE f[Chosen(W)] + h[W \ {Chosen(W)}]
              BY <3>1, <6>1
            <6>3. QED
              BY <6>1, <6>2
          <5>2. k = [W \in SUBSET U |-> k[W]]
            OBVIOUS
          <5> HIDE DEF k
          <5>3. QED
            BY <5>1, <5>2 DEF IsSumTable
        <4>2. k = Table(f, U)
          BY <2>1, <3>2, <4>1
        <4>3. k[U] = h[U] /\ Table(f, U)[U] = SumFunctionOnSet(f, U)
          BY DEF Table
        <4>4. QED
          BY <4>2, <4>3
      <3>3. h[T] = v
        <4>1. h[T] = IF T = {} THEN 0 ELSE f[c] + h[T \ {c}]
          BY <3>1
        <4>2. T # {} => h[T \ {c}] = SumFunctionOnSet(f, T \ {c})
          BY <2>2, <3>2
        <4>3. QED
          BY <4>1, <4>2
      <3>4. \A U \in SUBSET T : h[U] = g[U]
        BY <3>2, <3>3
      <3>5. h = [U \in SUBSET T |-> h[U]] /\ g = [U \in SUBSET T |-> g[U]]
        BY <3>1
      <3> HIDE DEF g
      <3>6. QED
        BY <3>4, <3>5
    <2>5. (CHOOSE h : IsSumTable(h, f, T)) = g
      <3> HIDE DEF g
      <3>1. QED
        BY <2>3, <2>4
    <2>6. SumFunctionOnSet(f, T) = v
      BY <2>5, SumIsTableEntry
    <2>7. Table(f, T) = g
      BY <2>6 DEF Table
    <2> HIDE DEF g
    <2>8. QED
      BY <2>3, <2>4, <2>7 DEF HasTable
  <1>2. \A T \in SUBSET S : T \in C
    <2> HIDE DEF C
    <2>1. QED
      BY <1>1, SubsetInduction
  <1>3. QED
    BY <1>2

(* A sum takes one element after another. *)
LEMMA SumUnfolds ==
    ASSUME NEW f, NEW S, IsFiniteSet(S)
    PROVE  SumFunctionOnSet(f, S)
             = IF S = {} THEN 0
               ELSE f[Chosen(S)] + SumFunctionOnSet(f, S \ {Chosen(S)})
  <1>1. IsSumTable(Table(f, S), f, S)
    BY TableExists DEF HasTable
  <1>2. S \in SUBSET S /\ S \ {Chosen(S)} \in SUBSET S
    OBVIOUS
  <1>3. Table(f, S)[S] = IF S = {} THEN 0
                         ELSE f[Chosen(S)] + Table(f, S)[S \ {Chosen(S)}]
    BY <1>1, <1>2 DEF IsSumTable
  <1>4. /\ Table(f, S)[S] = SumFunctionOnSet(f, S)
        /\ Table(f, S)[S \ {Chosen(S)}] = SumFunctionOnSet(f, S \ {Chosen(S)})
    BY <1>2 DEF Table
  <1>5. QED
    BY <1>3, <1>4

(* Nothing sums to zero. *)
LEMMA SumOfNone == ASSUME NEW f PROVE SumFunctionOnSet(f, {}) = 0
  BY SumUnfolds, FS_EmptySet

(* Integers sum to an integer. *)
LEMMA SumType ==
    ASSUME NEW f, NEW S, IsFiniteSet(S), \A x \in S : f[x] \in Int
    PROVE  SumFunctionOnSet(f, S) \in Int
  <1> DEFINE C == {T \in SUBSET S : SumFunctionOnSet(f, T) \in Int}
  <1>1. ASSUME NEW T \in SUBSET S, \A U \in SUBSET T : U # T => U \in C
        PROVE  T \in C
    <2>1. IsFiniteSet(T)
      BY FS_Subset
    <2>2. CASE T = {}
      BY <2>2, SumOfNone
    <2>3. CASE T # {}
      <3>1. Chosen(T) \in T
        BY <2>3, ChosenIsMember
      <3>2. SumFunctionOnSet(f, T \ {Chosen(T)}) \in Int
        BY <1>1, <3>1
      <3>3. SumFunctionOnSet(f, T)
              = f[Chosen(T)] + SumFunctionOnSet(f, T \ {Chosen(T)})
        BY <2>1, <2>3, SumUnfolds
      <3>4. QED
        BY <3>1, <3>2, <3>3
    <2>4. QED
      BY <2>2, <2>3
  <1>2. \A T \in SUBSET S : T \in C
    <2> HIDE DEF C
    <2>1. QED
      BY <1>1, SubsetInduction
  <1>3. QED
    BY <1>2

(* The order in which the elements are taken is immaterial. *)
LEMMA SumTakes ==
    ASSUME NEW f, NEW S, IsFiniteSet(S), \A x \in S : f[x] \in Int, NEW x \in S
    PROVE  SumFunctionOnSet(f, S) = f[x] + SumFunctionOnSet(f, S \ {x})
  <1> DEFINE takes(T, y) ==
                SumFunctionOnSet(f, T) = f[y] + SumFunctionOnSet(f, T \ {y})
             C == {T \in SUBSET S : \A y \in T : takes(T, y)}
  <1>1. ASSUME NEW T \in SUBSET S, \A U \in SUBSET T : U # T => U \in C
        PROVE  T \in C
    <2>1. SUFFICES ASSUME NEW y \in T PROVE takes(T, y)
      OBVIOUS
    <2> DEFINE c == Chosen(T)
    <2>2. IsFiniteSet(T) /\ c \in T
      BY FS_Subset, ChosenIsMember
    <2>3. takes(T, c)
      BY <2>2, SumUnfolds
    <2>4. CASE y = c
      BY <2>3, <2>4
    <2>5. CASE y # c
      <3>1. takes(T \ {c}, y) /\ takes(T \ {y}, c)
        <4>1. T \ {c} \in C /\ T \ {y} \in C
          BY <1>1, <2>2
        <4>2. QED
          BY <2>2, <2>5, <4>1
      <3>2. (T \ {c}) \ {y} = (T \ {y}) \ {c}
        OBVIOUS
      <3> DEFINE w == SumFunctionOnSet(f, (T \ {c}) \ {y})
      <3>3. w \in Int
        <4>1. (T \ {c}) \ {y} \in SUBSET T
          OBVIOUS
        <4>2. IsFiniteSet((T \ {c}) \ {y})
          BY <2>2, <4>1, FS_Subset
        <4>3. QED
          BY <4>2, SumType
      <3>4. f[c] \in Int /\ f[y] \in Int
        BY <2>2
      <3>5. /\ SumFunctionOnSet(f, T) = f[c] + (f[y] + w)
            /\ SumFunctionOnSet(f, T \ {y}) = f[c] + w
        BY <2>3, <3>1, <3>2
      <3> HIDE DEF c, w
      <3>6. QED
        BY <3>3, <3>4, <3>5
    <2>6. QED
      BY <2>4, <2>5
  <1>2. \A T \in SUBSET S : T \in C
    <2> HIDE DEF C
    <2>1. QED
      BY <1>1, SubsetInduction
  <1>3. QED
    BY <1>2

(* Only the values on the set count. *)
LEMMA SumDependsOnSet ==
    ASSUME NEW f, NEW g, NEW S, IsFiniteSet(S), \A x \in S : f[x] = g[x]
    PROVE  SumFunctionOnSet(f, S) = SumFunctionOnSet(g, S)
  <1> DEFINE C == {T \in SUBSET S : SumFunctionOnSet(f, T) = SumFunctionOnSet(g, T)}
  <1>1. ASSUME NEW T \in SUBSET S, \A U \in SUBSET T : U # T => U \in C
        PROVE  T \in C
    <2>1. IsFiniteSet(T)
      BY FS_Subset
    <2>2. T # {} => Chosen(T) \in T
      BY ChosenIsMember
    <2>3. T # {} => f[Chosen(T)] = g[Chosen(T)] /\ T \ {Chosen(T)} \in C
      BY <1>1, <2>2
    <2>4. QED
      BY <2>1, <2>3, SumUnfolds
  <1>2. \A T \in SUBSET S : T \in C
    <2> HIDE DEF C
    <2>1. QED
      BY <1>1, SubsetInduction
  <1>3. QED
    BY <1>2

(* An element joins a set. *)
LEMMA SumAdds ==
    ASSUME NEW f, NEW S, IsFiniteSet(S), NEW x, x \notin S,
           \A y \in S \cup {x} : f[y] \in Int
    PROVE  SumFunctionOnSet(f, S \cup {x}) = f[x] + SumFunctionOnSet(f, S)
  <1>1. IsFiniteSet(S \cup {x})
    BY FS_AddElement
  <1>2. (S \cup {x}) \ {x} = S
    OBVIOUS
  <1>3. QED
    BY <1>1, <1>2, SumTakes

(* A sum whose one value changes follows the change. *)
LEMMA SumChanges ==
    ASSUME NEW f, NEW g, NEW S, IsFiniteSet(S), NEW x \in S,
           \A y \in S : f[y] \in Int /\ g[y] \in Int,
           \A y \in S \ {x} : f[y] = g[y]
    PROVE  SumFunctionOnSet(g, S) = SumFunctionOnSet(f, S) - f[x] + g[x]
  <1>1. IsFiniteSet(S \ {x})
    BY FS_RemoveElement
  <1>2. SumFunctionOnSet(f, S \ {x}) = SumFunctionOnSet(g, S \ {x})
    BY <1>1, SumDependsOnSet
  <1>3. SumFunctionOnSet(f, S \ {x}) \in Int
    BY <1>1, SumType
  <1>4. /\ SumFunctionOnSet(f, S) = f[x] + SumFunctionOnSet(f, S \ {x})
        /\ SumFunctionOnSet(g, S) = g[x] + SumFunctionOnSet(g, S \ {x})
    BY SumTakes
  <1>5. QED
    BY <1>2, <1>3, <1>4

(* Zeros sum to zero. *)
LEMMA SumOfZeros ==
    ASSUME NEW f, NEW S, IsFiniteSet(S), \A x \in S : f[x] = 0
    PROVE  SumFunctionOnSet(f, S) = 0
  <1> DEFINE C == {T \in SUBSET S : SumFunctionOnSet(f, T) = 0}
  <1>1. ASSUME NEW T \in SUBSET S, \A U \in SUBSET T : U # T => U \in C
        PROVE  T \in C
    <2>1. IsFiniteSet(T)
      BY FS_Subset
    <2>2. T # {} => Chosen(T) \in T
      BY ChosenIsMember
    <2>3. T # {} => f[Chosen(T)] = 0 /\ T \ {Chosen(T)} \in C
      BY <1>1, <2>2
    <2>4. QED
      BY <2>1, <2>3, SumUnfolds
  <1>2. \A T \in SUBSET S : T \in C
    <2> HIDE DEF C
    <2>1. QED
      BY <1>1, SubsetInduction
  <1>3. QED
    BY <1>2

(* Sums add up over disjoint sets. *)
LEMMA SumOfUnion ==
    ASSUME NEW f, NEW S, IsFiniteSet(S), NEW R, IsFiniteSet(R), S \cap R = {},
           \A x \in S \cup R : f[x] \in Int
    PROVE  SumFunctionOnSet(f, S \cup R)
             = SumFunctionOnSet(f, S) + SumFunctionOnSet(f, R)
  <1> DEFINE C == {T \in SUBSET S : SumFunctionOnSet(f, T \cup R)
                     = SumFunctionOnSet(f, T) + SumFunctionOnSet(f, R)}
  <1>1. ASSUME NEW T \in SUBSET S, \A U \in SUBSET T : U # T => U \in C
        PROVE  T \in C
    <2>1. IsFiniteSet(T)
      BY FS_Subset
    <2>2. SumFunctionOnSet(f, R) \in Int
      BY SumType
    <2>3. CASE T = {}
      BY <2>2, <2>3, SumOfNone
    <2>4. CASE T # {}
      <3>1. PICK x \in T : TRUE
        BY <2>4
      <3>2. T \ {x} \in C
        BY <1>1
      <3>3. IsFiniteSet(T \ {x}) /\ IsFiniteSet((T \ {x}) \cup R)
        BY <2>1, FS_RemoveElement, FS_Union
      <3>4. SumFunctionOnSet(f, T \ {x}) \in Int
        BY <3>3, SumType
      <3>5. /\ x \notin (T \ {x}) \cup R
            /\ ((T \ {x}) \cup R) \cup {x} = T \cup R
        BY <3>1
      <3>6. SumFunctionOnSet(f, T \cup R)
              = f[x] + SumFunctionOnSet(f, (T \ {x}) \cup R)
        <4>1. \A y \in ((T \ {x}) \cup R) \cup {x} : f[y] \in Int
          OBVIOUS
        <4> DEFINE V == (T \ {x}) \cup R
        <4>2. IsFiniteSet(V) /\ x \notin V /\ V \cup {x} = T \cup R
              /\ \A y \in V \cup {x} : f[y] \in Int
          BY <3>3, <3>5, <4>1
        <4> HIDE DEF V
        <4>3. SumFunctionOnSet(f, V \cup {x}) = f[x] + SumFunctionOnSet(f, V)
          BY <4>2, SumAdds
        <4>4. QED
          BY <4>2, <4>3 DEF V
      <3>7. SumFunctionOnSet(f, T) = f[x] + SumFunctionOnSet(f, T \ {x})
        BY <2>1, SumTakes
      <3>8. f[x] \in Int
        OBVIOUS
      <3>9. QED
        BY <2>2, <3>2, <3>4, <3>6, <3>7, <3>8
    <2>5. QED
      BY <2>3, <2>4
  <1>2. \A T \in SUBSET S : T \in C
    <2> HIDE DEF C
    <2>1. QED
      BY <1>1, SubsetInduction
  <1>3. QED
    BY <1>2

(* Summands that do not shrink make a sum that does not. *)
LEMMA SumIsMonotone ==
    ASSUME NEW f, NEW g, NEW S, IsFiniteSet(S),
           \A x \in S : f[x] \in Int /\ g[x] \in Int /\ f[x] <= g[x]
    PROVE  SumFunctionOnSet(f, S) <= SumFunctionOnSet(g, S)
  <1> DEFINE C == {T \in SUBSET S :
                      SumFunctionOnSet(f, T) <= SumFunctionOnSet(g, T)}
  <1>1. ASSUME NEW T \in SUBSET S, \A U \in SUBSET T : U # T => U \in C
        PROVE  T \in C
    <2>1. IsFiniteSet(T)
      BY FS_Subset
    <2>2. CASE T = {}
      BY <2>2, SumOfNone
    <2>3. CASE T # {}
      <3>1. PICK x \in T : TRUE
        BY <2>3
      <3>2. T \ {x} \in C /\ IsFiniteSet(T \ {x})
        BY <1>1, <2>1, FS_RemoveElement
      <3>3. /\ SumFunctionOnSet(f, T \ {x}) \in Int
            /\ SumFunctionOnSet(g, T \ {x}) \in Int
        BY <3>2, SumType
      <3>4. /\ SumFunctionOnSet(f, T) = f[x] + SumFunctionOnSet(f, T \ {x})
            /\ SumFunctionOnSet(g, T) = g[x] + SumFunctionOnSet(g, T \ {x})
        BY <2>1, SumTakes
      <3>5. f[x] \in Int /\ g[x] \in Int /\ f[x] <= g[x]
        OBVIOUS
      <3>6. QED
        BY <3>2, <3>3, <3>4, <3>5
    <2>4. QED
      BY <2>2, <2>3
  <1>2. \A T \in SUBSET S : T \in C
    <2> HIDE DEF C
    <2>1. QED
      BY <1>1, SubsetInduction
  <1>3. QED
    BY <1>2

(* The sum of two functions is summed value by value. *)
LEMMA SumOfSums ==
    ASSUME NEW f, NEW g, NEW h, NEW S, IsFiniteSet(S),
           \A x \in S : f[x] \in Int /\ g[x] \in Int /\ h[x] = f[x] + g[x]
    PROVE  SumFunctionOnSet(h, S)
             = SumFunctionOnSet(f, S) + SumFunctionOnSet(g, S)
  <1> DEFINE C == {T \in SUBSET S : SumFunctionOnSet(h, T)
                     = SumFunctionOnSet(f, T) + SumFunctionOnSet(g, T)}
  <1>1. ASSUME NEW T \in SUBSET S, \A U \in SUBSET T : U # T => U \in C
        PROVE  T \in C
    <2>1. IsFiniteSet(T)
      BY FS_Subset
    <2>2. CASE T = {}
      BY <2>2, SumOfNone
    <2>3. CASE T # {}
      <3>1. PICK x \in T : TRUE
        BY <2>3
      <3>2. T \ {x} \in C /\ IsFiniteSet(T \ {x})
        BY <1>1, <2>1, FS_RemoveElement
      <3>3. /\ SumFunctionOnSet(f, T \ {x}) \in Int
            /\ SumFunctionOnSet(g, T \ {x}) \in Int
        BY <3>2, SumType
      <3>4. \A y \in T : f[y] \in Int /\ g[y] \in Int /\ h[y] \in Int
        OBVIOUS
      <3>5. /\ SumFunctionOnSet(f, T) = f[x] + SumFunctionOnSet(f, T \ {x})
            /\ SumFunctionOnSet(g, T) = g[x] + SumFunctionOnSet(g, T \ {x})
            /\ SumFunctionOnSet(h, T) = h[x] + SumFunctionOnSet(h, T \ {x})
        BY <2>1, <3>4, SumTakes
      <3>6. f[x] \in Int /\ g[x] \in Int /\ h[x] = f[x] + g[x]
        OBVIOUS
      <3>7. QED
        BY <3>2, <3>3, <3>5, <3>6
    <2>4. QED
      BY <2>2, <2>3
  <1>2. \A T \in SUBSET S : T \in C
    <2> HIDE DEF C
    <2>1. QED
      BY <1>1, SubsetInduction
  <1>3. QED
    BY <1>2

(* A sum over the pairs with one first component is one over the second. *)
LEMMA SumOfPairs ==
    ASSUME NEW f, NEW g, NEW l, NEW S, IsFiniteSet(S),
           \A i \in S : f[<<l, i>>] \in Int /\ g[i] = f[<<l, i>>]
    PROVE  SumFunctionOnSet(f, {l} \X S) = SumFunctionOnSet(g, S)
  <1> DEFINE C == {T \in SUBSET S :
                     SumFunctionOnSet(f, {l} \X T) = SumFunctionOnSet(g, T)}
  <1>1. ASSUME NEW T \in SUBSET S, \A U \in SUBSET T : U # T => U \in C
        PROVE  T \in C
    <2>1. IsFiniteSet(T)
      BY FS_Subset
    <2>2. CASE T = {}
      <3>1. {l} \X T = {}
        BY <2>2
      <3>2. QED
        BY <2>2, <3>1, SumOfNone
    <2>3. CASE T # {}
      <3>1. PICK x \in T : TRUE
        BY <2>3
      <3>2. T \ {x} \in C /\ IsFiniteSet(T \ {x})
        BY <1>1, <2>1, FS_RemoveElement
      <3>3. IsFiniteSet({l} \X (T \ {x}))
        BY <3>2, FS_Singleton, FS_Product
      <3> DEFINE P == {l} \X (T \ {x})
      <3>4. /\ <<l, x>> \notin P
            /\ P \cup {<<l, x>>} = {l} \X T
            /\ \A p \in P \cup {<<l, x>>} : f[p] \in Int
        BY <3>1
      <3>5. SumFunctionOnSet(f, P \cup {<<l, x>>})
              = f[<<l, x>>] + SumFunctionOnSet(f, P)
        <4> HIDE DEF P
        <4>1. QED
          BY <3>3, <3>4, SumAdds DEF P
      <3>6. SumFunctionOnSet(g, T) = g[x] + SumFunctionOnSet(g, T \ {x})
        <4>1. \A i \in T : g[i] \in Int
          OBVIOUS
        <4>2. QED
          BY <2>1, <4>1, SumTakes
      <3>7. QED
        BY <3>2, <3>4, <3>5, <3>6
    <2>4. QED
      BY <2>2, <2>3
  <1>2. \A T \in SUBSET S : T \in C
    <2> HIDE DEF C
    <2>1. QED
      BY <1>1, SubsetInduction
  <1>3. QED
    BY <1>2
=============================================================================
