---------------------------- MODULE ArithmeticFacts ----------------------------
(***************************************************************************)
(* Least and greatest elements of sets of natural numbers, and the sums of *)
(* functions with a finite domain: facts that need an induction, which is  *)
(* made by the library's theorem that every set has a minimal element      *)
(* under a well-founded relation.                                          *)
(***************************************************************************)
EXTENDS Integers, Functions, FiniteSetTheorems, WellFoundedInduction, TLAPS

-----------------------------------------------------------------------------
(* Minimal elements. *)

\* A set of natural numbers that is not empty has a least element.
LEMMA LeastNumber ==
    ASSUME NEW T, T \subseteq Nat, T # {}
    PROVE  \E x \in T : \A y \in T : x <= y
<1> DEFINE R == {ss \in Nat \X Nat : ss[1] < ss[2]}
<1>1. IsWellFoundedOn(R, Nat)
  BY NatLessThanWellFounded DEF OpToRel
<1>2. \A x, y \in T : <<y, x>> \in R <=> y < x
  OBVIOUS
<1> HIDE DEF R
<1>3. PICK x \in T : \A y \in T : ~ (<<y, x>> \in R)
  BY <1>1, WFMin
<1>4. \A y \in T : ~ (y < x)
  BY <1>2, <1>3
<1>5. \A y \in T : x <= y
  BY <1>4
<1> QED
  BY <1>5

\* If it is bounded, it has a greatest one.
LEMMA GreatestNumber ==
    ASSUME NEW S, S \subseteq Nat, S # {}, NEW m \in Nat, \A x \in S : x <= m
    PROVE  \E x \in S : \A y \in S : y <= x
<1> DEFINE T == {m - x : x \in S}
<1>1. T \subseteq Nat
  OBVIOUS
<1>2. T # {}
  OBVIOUS
<1>3. \A y \in S : m - y \in T
  OBVIOUS
<1>4. \A x \in T : \E y \in S : x = m - y
  OBVIOUS
<1> HIDE DEF T
<1>5. PICK x \in T : \A y \in T : x <= y
  BY <1>1, <1>2, LeastNumber
<1>6. PICK z \in S : x = m - z
  BY <1>4
<1>7. \A y \in S : y <= z
  BY <1>3, <1>5, <1>6
<1> QED
  BY <1>7

\* A set of parts of a finite set has a part with no smaller one in it.
LEMMA MinimalPart ==
    ASSUME NEW S, IsFiniteSet(S), NEW B, B \subseteq SUBSET S, B # {}
    PROVE  \E T \in B : \A U \in B : U \subseteq T => U = T
<1>1. IsWellFoundedOn(StrictSubsetOrdering(S), SUBSET S)
  BY FS_StrictSubsetOrderingWellFounded, FS_FiniteSubsetsOfFinite
<1>2. PICK T \in B : \A U \in B : ~ (<<U, T>> \in StrictSubsetOrdering(S))
  BY <1>1, WFMin
<1>3. \A U \in B : U \subseteq T => U = T
  BY <1>2 DEF StrictSubsetOrdering
<1> QED
  BY <1>3

-----------------------------------------------------------------------------
(* The sums over the parts of a set, each from the sum over a smaller part.*)

Chosen(s) == CHOOSE x \in s : TRUE

Sums(f, w, S) ==
    f = [s \in SUBSET S |-> IF s = {} THEN 0
                            ELSE w[Chosen(s)] + f[s \ {Chosen(s)}]]

LEMMA SumsOf ==
    ASSUME NEW f, NEW w, NEW S, Sums(f, w, S)
    PROVE  /\ f[{}] = 0
           /\ \A s \in SUBSET S : s # {} =>
                  /\ Chosen(s) \in s
                  /\ f[s] = w[Chosen(s)] + f[s \ {Chosen(s)}]
<1>1. \A s \in SUBSET S : f[s] = IF s = {} THEN 0
                                 ELSE w[Chosen(s)] + f[s \ {Chosen(s)}]
  BY DEF Sums
<1>2. \A s : s # {} => Chosen(s) \in s
  BY DEF Chosen
<1> QED
  BY <1>1, <1>2

\* There are such sums: those over the parts of at most n elements extend to
\* those over the parts of n + 1.
LEMMA SumsExist ==
    ASSUME NEW w, NEW S, IsFiniteSet(S)
    PROVE  \E f : Sums(f, w, S)
<1> DEFINE UpTo(n) == {s \in SUBSET S : Cardinality(s) <= n}
           Partial(f, n) ==
               f = [s \in UpTo(n) |-> IF s = {} THEN 0
                                      ELSE w[Chosen(s)] + f[s \ {Chosen(s)}]]
           Bad == {n \in Nat : ~ \E f : Partial(f, n)}
<1>1. \A s \in SUBSET S : IsFiniteSet(s) /\ Cardinality(s) \in Nat
  BY FS_Subset, FS_CardinalityType
<1>2. Bad = {}
  <2> SUFFICES ASSUME Bad # {} PROVE FALSE
    OBVIOUS
  <2>1. PICK m \in Bad : \A n \in Bad : m <= n
    BY LeastNumber
  <2>2. m # 0
    <3> DEFINE f == [s \in UpTo(0) |-> 0]
    <3>1. \A s \in UpTo(0) : s = {}
      BY <1>1, FS_EmptySet
    <3>2. Partial(f, 0)
      BY <3>1
    <3> HIDE DEF Partial
    <3> QED
      BY <3>2
  <2>3. m - 1 \in Nat /\ m - 1 \notin Bad
    <3>1. m \in Nat
      BY <2>1
    <3> HIDE DEF Bad
    <3> QED
      BY <2>1, <2>2, <3>1
  <2>4. PICK f : Partial(f, m - 1)
    <3> HIDE DEF Partial
    <3> QED
      BY <2>3
  <2> DEFINE g == [s \in UpTo(m) |-> IF s = {} THEN 0
                                     ELSE w[Chosen(s)] + f[s \ {Chosen(s)}]]
  <2>5. ASSUME NEW s \in UpTo(m), s # {}
        PROVE  g[s \ {Chosen(s)}] = f[s \ {Chosen(s)}]
    <3> DEFINE t == s \ {Chosen(s)}
    <3>1. Chosen(s) \in s
      BY <2>5 DEF Chosen
    <3>2. Cardinality(t) = Cardinality(s) - 1
      BY <1>1, <3>1, FS_RemoveElement
    <3>3. t \in UpTo(m - 1) /\ t \in UpTo(m)
      BY <1>1, <2>3, <3>2
    <3> HIDE DEF t
    <3>4. f[t] = IF t = {} THEN 0 ELSE w[Chosen(t)] + f[t \ {Chosen(t)}]
      BY <2>4, <3>3
    <3>5. g[t] = IF t = {} THEN 0 ELSE w[Chosen(t)] + f[t \ {Chosen(t)}]
      BY <3>3
    <3> QED
      BY <3>4, <3>5 DEF t
  <2>6. Partial(g, m)
    BY <2>5
  <2> HIDE DEF Partial, g
  <2> QED
    BY <2>1, <2>6
<1> DEFINE n == Cardinality(S)
<1>3. n \in Nat /\ UpTo(n) = SUBSET S
  BY <1>1, FS_Subset, FS_CardinalityType
<1>4. \E f : Partial(f, n)
  BY <1>2, <1>3
<1> QED
  BY <1>3, <1>4 DEF Sums

\* They are numbers.
LEMMA SumsNat ==
    ASSUME NEW S, IsFiniteSet(S), NEW w \in [S -> Nat], NEW f, Sums(f, w, S)
    PROVE  \A T \in SUBSET S : f[T] \in Nat
<1> DEFINE Bad == {T \in SUBSET S : f[T] \notin Nat}
<1>1. Bad = {}
  <2> SUFFICES ASSUME Bad # {} PROVE FALSE
    OBVIOUS
  <2>1. PICK T \in Bad : \A U \in Bad : U \subseteq T => U = T
    <3>1. Bad \subseteq SUBSET S
      OBVIOUS
    <3> HIDE DEF Bad
    <3> QED
      BY <3>1, MinimalPart
  <2>2. T # {}
    BY SumsOf
  <2>3. Chosen(T) \in T /\ f[T] = w[Chosen(T)] + f[T \ {Chosen(T)}]
    BY <2>2, SumsOf
  <2>4. f[T \ {Chosen(T)}] \in Nat
    BY <2>1, <2>3
  <2> QED
    BY <2>3, <2>4
<1> QED
  BY <1>1

\* Any element can be taken out first.
LEMMA SumsTake ==
    ASSUME NEW S, IsFiniteSet(S), NEW w \in [S -> Nat], NEW f, Sums(f, w, S)
    PROVE  \A T \in SUBSET S : \A x \in T : f[T] = w[x] + f[T \ {x}]
<1> DEFINE Good(U) == \A y \in U : f[U] = w[y] + f[U \ {y}]
           Bad == {U \in SUBSET S : ~ Good(U)}
<1>0. \A s \in SUBSET S : s # {} => /\ Chosen(s) \in s
                                    /\ f[s] = w[Chosen(s)] + f[s \ {Chosen(s)}]
  BY SumsOf
<1>1. Bad = {}
  <2> SUFFICES ASSUME Bad # {} PROVE FALSE
    OBVIOUS
  <2>1. PICK T \in Bad : \A U \in Bad : U \subseteq T => U = T
    <3>1. Bad \subseteq SUBSET S
      OBVIOUS
    <3> HIDE DEF Bad
    <3> QED
      BY <3>1, MinimalPart
  <2>2. PICK x \in T : f[T] # w[x] + f[T \ {x}]
    OBVIOUS
  <2> DEFINE c == Chosen(T)
  <2>3. T \in SUBSET S /\ c \in T /\ f[T] = w[c] + f[T \ {c}]
    <3>1. T \in SUBSET S /\ T # {}
      BY <2>2
    <3> HIDE DEF Bad, Good
    <3>2. c \in T /\ f[T] = w[c] + f[T \ {c}]
      BY <1>0, <3>1
    <3> QED
      BY <3>1, <3>2
  <2> HIDE DEF c
  <2>4. c # x
    BY <2>2, <2>3
  <2>5. Good(T \ {c}) /\ Good(T \ {x})
    <3> HIDE DEF Good
    <3>1. \A U \in SUBSET T : U # T => Good(U)
      BY <2>1, <2>3
    <3> QED
      BY <2>2, <2>3, <3>1
  <2>6. f[T \ {c}] = w[x] + f[(T \ {c}) \ {x}]
    BY <2>2, <2>4, <2>5
  <2>7. f[T \ {x}] = w[c] + f[(T \ {x}) \ {c}]
    BY <2>3, <2>4, <2>5
  <2>8. (T \ {c}) \ {x} = (T \ {x}) \ {c}
    OBVIOUS
  <2>9. f[(T \ {c}) \ {x}] \in Nat /\ w[c] \in Nat /\ w[x] \in Nat
    BY <2>2, <2>3, SumsNat
  <2>10. f[T \ {x}] = w[c] + f[(T \ {c}) \ {x}]
    BY <2>7, <2>8
  <2>11. \A m, n, k \in Nat : m + (n + k) = n + (m + k)
    OBVIOUS
  <2>12. f[T] = w[x] + f[T \ {x}]
    BY <2>3, <2>6, <2>9, <2>10, <2>11
  <2> QED
    BY <2>2, <2>12
<1> QED
  BY <1>1

\* They depend on nothing but the weights of the part.
LEMMA SumsAgree ==
    ASSUME NEW S, IsFiniteSet(S), NEW w, NEW f, Sums(f, w, S),
           NEW R, NEW v, NEW g, Sums(g, v, R),
           NEW T, T \subseteq S, T \subseteq R, \A x \in T : w[x] = v[x]
    PROVE  f[T] = g[T]
<1> DEFINE Bad == {U \in SUBSET T : f[U] # g[U]}
<1>1. Bad = {}
  <2> SUFFICES ASSUME Bad # {} PROVE FALSE
    OBVIOUS
  <2>0. IsFiniteSet(T)
    BY FS_Subset
  <2>1. PICK U \in Bad : \A V \in Bad : V \subseteq U => V = U
    <3>1. Bad \subseteq SUBSET T
      OBVIOUS
    <3> HIDE DEF Bad
    <3> QED
      BY <2>0, <3>1, MinimalPart
  <2>2. U # {}
    BY SumsOf
  <2>3. /\ Chosen(U) \in U
        /\ f[U] = w[Chosen(U)] + f[U \ {Chosen(U)}]
        /\ g[U] = v[Chosen(U)] + g[U \ {Chosen(U)}]
    <3>1. U \in SUBSET S /\ U \in SUBSET R
      OBVIOUS
    <3> HIDE DEF Bad
    <3> QED
      BY <2>2, <3>1, SumsOf
  <2>4. f[U \ {Chosen(U)}] = g[U \ {Chosen(U)}]
    BY <2>1, <2>3
  <2> QED
    BY <2>1, <2>3, <2>4
<1> QED
  BY <1>1

-----------------------------------------------------------------------------
(* The sum of a function. *)

LEMMA SumIsLast ==
    ASSUME NEW w, IsFiniteSet(DOMAIN w)
    PROVE  \E f : Sums(f, w, DOMAIN w) /\ SumFunction(w) = f[DOMAIN w]
<1> DEFINE iter == CHOOSE f : Sums(f, w, DOMAIN w)
<1>0. \E f : Sums(f, w, DOMAIN w)
  BY SumsExist
<1>1. Sums(iter, w, DOMAIN w)
  BY <1>0
<1>2. SumFunction(w) = iter[DOMAIN w]
  BY DEF SumFunction, SumFunctionOnSet, FoldFunctionOnSet, MapThenFoldSet,
         Sums, Chosen
<1> QED
  BY <1>1, <1>2

\* The sum of natural numbers is one.
LEMMA SumNat ==
    ASSUME NEW S, IsFiniteSet(S), NEW w \in [S -> Nat]
    PROVE  SumFunction(w) \in Nat
BY SumIsLast, SumsNat

\* Nothing sums up to 0.
LEMMA SumEmpty ==
    ASSUME NEW w, DOMAIN w = {}
    PROVE  SumFunction(w) = 0
<1>1. IsFiniteSet(DOMAIN w)
  BY FS_EmptySet
<1> QED
  BY <1>1, SumIsLast, SumsOf

\* Zeros sum up to 0.
LEMMA SumZero ==
    ASSUME NEW S, IsFiniteSet(S)
    PROVE  SumFunction([x \in S |-> 0]) = 0
<1> DEFINE w == [x \in S |-> 0]
<1>1. DOMAIN w = S /\ \A x \in S : w[x] = 0
  OBVIOUS
<1> HIDE DEF w
<1>2. PICK f : Sums(f, w, S) /\ SumFunction(w) = f[S]
  BY <1>1, SumIsLast
<1>3. /\ f[{}] = 0
      /\ \A s \in SUBSET S : s # {} =>
              Chosen(s) \in s /\ f[s] = w[Chosen(s)] + f[s \ {Chosen(s)}]
  BY <1>2, SumsOf
<1> DEFINE Bad == {T \in SUBSET S : f[T] # 0}
<1>4. Bad = {}
  <2> SUFFICES ASSUME Bad # {} PROVE FALSE
    OBVIOUS
  <2>1. PICK T \in Bad : \A U \in Bad : U \subseteq T => U = T
    <3>1. Bad \subseteq SUBSET S
      OBVIOUS
    <3> HIDE DEF Bad
    <3> QED
      BY <3>1, MinimalPart
  <2>2. T # {}
    BY <1>3
  <2>3. Chosen(T) \in T /\ f[T] = w[Chosen(T)] + f[T \ {Chosen(T)}]
    BY <1>3, <2>2
  <2>4. f[T \ {Chosen(T)}] = 0
    BY <2>1, <2>3
  <2> QED
    BY <1>1, <2>3, <2>4
<1> QED
  BY <1>2, <1>4 DEF w

\* One element more.
LEMMA SumAdd ==
    ASSUME NEW S, IsFiniteSet(S), NEW w \in [S -> Nat], NEW x, x \notin S,
           NEW v \in [S \cup {x} -> Nat], \A y \in S : v[y] = w[y]
    PROVE  SumFunction(v) = v[x] + SumFunction(w)
<1>1. IsFiniteSet(S \cup {x})
  BY FS_AddElement
<1>2. PICK f : Sums(f, w, S) /\ SumFunction(w) = f[S]
  BY SumIsLast
<1>3. PICK g : Sums(g, v, S \cup {x}) /\ SumFunction(v) = g[S \cup {x}]
  BY <1>1, SumIsLast
<1>4. g[S \cup {x}] = v[x] + g[(S \cup {x}) \ {x}]
  BY <1>1, <1>3, SumsTake
<1>5. (S \cup {x}) \ {x} = S
  OBVIOUS
<1>6. f[S] = g[S]
  BY <1>2, <1>3, SumsAgree
<1> QED
  BY <1>2, <1>3, <1>4, <1>5, <1>6

\* Another value for one element.
LEMMA SumChange ==
    ASSUME NEW S, IsFiniteSet(S), NEW w \in [S -> Nat], NEW x \in S,
           NEW v \in [S -> Nat], \A y \in S \ {x} : v[y] = w[y]
    PROVE  /\ SumFunction(v) = SumFunction(w) - w[x] + v[x]
           /\ w[x] <= SumFunction(w)
<1> DEFINE R == S \ {x}
           u == [y \in R |-> w[y]]
<1>1. IsFiniteSet(R) /\ x \notin R /\ S = R \cup {x}
  BY FS_Subset
<1>2. u \in [R -> Nat] /\ \A y \in R : w[y] = u[y] /\ v[y] = u[y]
  OBVIOUS
<1> HIDE DEF R, u
<1>3. SumFunction(w) = w[x] + SumFunction(u)
  BY <1>1, <1>2, SumAdd
<1>4. SumFunction(v) = v[x] + SumFunction(u)
  BY <1>1, <1>2, SumAdd
<1>5. SumFunction(u) \in Nat /\ w[x] \in Nat /\ v[x] \in Nat
  BY <1>1, <1>2, SumNat
<1> QED
  BY <1>3, <1>4, <1>5

\* A part and the rest.
LEMMA SumSplit ==
    ASSUME NEW S, IsFiniteSet(S), NEW w \in [S -> Nat], NEW Q \in SUBSET S
    PROVE  SumFunction(w) = SumFunction([x \in Q |-> w[x]])
                              + SumFunction([x \in S \ Q |-> w[x]])
<1> DEFINE Over(T) == [x \in T |-> w[x]]
           Bad == {T \in SUBSET S : SumFunction(w)
                      # SumFunction(Over(T)) + SumFunction(Over(S \ T))}
<1>1. \A T \in SUBSET S : IsFiniteSet(T) /\ Over(T) \in [T -> Nat]
                           /\ SumFunction(Over(T)) \in Nat
  <2> TAKE T \in SUBSET S
  <2>1. IsFiniteSet(T) /\ Over(T) \in [T -> Nat]
    BY FS_Subset
  <2> HIDE DEF Over
  <2> QED
    BY <2>1, SumNat
<1>2. \A T \in SUBSET S : \A x \in S \ T :
          SumFunction(Over(T \cup {x})) = w[x] + SumFunction(Over(T))
  <2> TAKE T \in SUBSET S
  <2> TAKE x \in S \ T
  <2>1. /\ IsFiniteSet(T) /\ Over(T) \in [T -> Nat]
        /\ Over(T \cup {x}) \in [T \cup {x} -> Nat]
        /\ \A y \in T : Over(T \cup {x})[y] = Over(T)[y]
        /\ Over(T \cup {x})[x] = w[x]
        /\ x \notin T
    BY <1>1
  <2> DEFINE u == Over(T)
             v == Over(T \cup {x})
  <2> HIDE DEF Over, u, v
  <2>2. /\ u \in [T -> Nat] /\ v \in [T \cup {x} -> Nat]
        /\ \A y \in T : v[y] = u[y]
        /\ v[x] = w[x]
    BY <2>1 DEF u, v
  <2>3. SumFunction(v) = v[x] + SumFunction(u)
    BY <2>1, <2>2, SumAdd
  <2> QED
    BY <2>2, <2>3 DEF u, v
<1>3. Over(S) = w /\ SumFunction(Over({})) = 0
  <2>1. Over(S) = w /\ DOMAIN Over({}) = {}
    OBVIOUS
  <2> HIDE DEF Over
  <2> QED
    BY <2>1, SumEmpty
<1> HIDE DEF Over
<1>4. Bad = {}
  <2> SUFFICES ASSUME Bad # {} PROVE FALSE
    OBVIOUS
  <2>1. PICK T \in Bad : \A U \in Bad : U \subseteq T => U = T
    <3>1. Bad \subseteq SUBSET S
      OBVIOUS
    <3> HIDE DEF Bad
    <3> QED
      BY <3>1, MinimalPart
  <2>2. T # {}
    <3>1. S \ {} = S
      OBVIOUS
    <3>2. SumFunction(w) \in Nat
      BY SumNat
    <3>3. {} \notin Bad
      BY <1>3, <3>1, <3>2
    <3> QED
      BY <2>1, <3>3
  <2>3. PICK x \in T : TRUE
    BY <2>2
  <2> DEFINE U == T \ {x}
             m == SumFunction(Over(U))
             n == SumFunction(Over(S \ T))
  <2>4. /\ U \in SUBSET S /\ x \in S \ U /\ U \cup {x} = T
        /\ S \ T \in SUBSET S /\ x \in S \ (S \ T)
        /\ (S \ T) \cup {x} = S \ U /\ U \subseteq T /\ U # T
    BY <2>1, <2>3
  <2>5. U \notin Bad
    BY <2>1, <2>4
  <2>6. SumFunction(w) = m + SumFunction(Over(S \ U))
    BY <2>4, <2>5
  <2>7. /\ SumFunction(Over(T)) = w[x] + m
        /\ SumFunction(Over(S \ U)) = w[x] + n
    BY <1>2, <2>4
  <2>8. m \in Nat /\ n \in Nat /\ w[x] \in Nat
    BY <1>1, <2>4
  <2>9. SumFunction(w) = SumFunction(Over(T)) + n
    BY <2>6, <2>7, <2>8
  <2> QED
    BY <2>1, <2>9
<1>5. SumFunction(w) = SumFunction(Over(Q)) + SumFunction(Over(S \ Q))
  BY <1>4
<1> QED
  BY <1>5 DEF Over

===============================================================================
