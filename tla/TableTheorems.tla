--------------------------- MODULE TableTheorems ---------------------------
(***************************************************************************)
(* Facts about the tables of the other modules, whatever their rows: those *)
(* kept as sequences, the sums over their columns (Sums!Total), and        *)
(* induction over their rows and over numbers.                             *)
(***************************************************************************)
EXTENDS Sums, Sequences, FiniteSetTheorems, SequenceTheorems, WellFoundedInduction, TLAPS

\* Induction over the natural numbers, for a set.
LEMMA CountUp ==
  ASSUME NEW G, 0 \in G, \A n \in Nat : n \in G => n + 1 \in G
  PROVE  Nat \subseteq G
  <1> DEFINE Bad == Nat \ G
  <1>1. SUFFICES ASSUME Bad # {} PROVE FALSE
    OBVIOUS
  <1>2. PICK n \in Bad : \A m \in Bad : <<m, n>> \notin OpToRel(<, Nat)
    <2> HIDE DEF Bad
    <2>1. Bad \subseteq Nat
      BY DEF Bad
    <2> QED
      BY <1>1, <2>1, NatLessThanWellFounded, WFMin
  <1>3. n \in Nat /\ n \notin G
    OBVIOUS
  <1>4. n # 0
    BY <1>3
  <1>5. n - 1 \in Nat /\ n - 1 < n /\ (n - 1) + 1 = n
    BY <1>3, <1>4
  <1>6. n - 1 \notin Bad
    BY <1>2, <1>3, <1>5 DEF OpToRel
  <1> QED
    BY <1>3, <1>5, <1>6

-----------------------------------------------------------------------------
(* Tables kept as sequences of rows.                                       *)

\* The rows of a table are numbered from 1, and the next number is free.
LEMMA RowsOf ==
  ASSUME NEW R, NEW s \in Seq(R)
  PROVE  /\ Len(s) \in Nat /\ DOMAIN s = 1 .. Len(s)
         /\ \A i \in DOMAIN s : i \in Nat /\ i # 0 /\ s[i] \in R
         /\ Len(s) + 1 \in Nat \ {0} /\ Len(s) + 1 \notin DOMAIN s
  <1>1. Len(s) \in Nat /\ DOMAIN s = 1 .. Len(s) /\ s \in [1 .. Len(s) -> R]
    BY LenProperties
  <1> QED
    BY <1>1

\* Rows of a table may change, the rows there are do not.
LEMMA SameRows ==
  ASSUME NEW R, NEW s \in Seq(R), NEW t,
         t = [i \in DOMAIN s |-> t[i]], \A i \in DOMAIN s : t[i] \in R
  PROVE  t \in Seq(R) /\ DOMAIN t = DOMAIN s
  <1>1. Len(s) \in Nat /\ DOMAIN s = 1 .. Len(s)
    BY RowsOf
  <1>2. t \in [1 .. Len(s) -> R]
    BY <1>1
  <1> QED
    BY <1>1, <1>2, SeqDef

\* INSERT.
LEMMA OneMoreRow ==
  ASSUME NEW R, NEW s \in Seq(R), NEW x \in R
  PROVE  /\ Append(s, x) \in Seq(R)
         /\ DOMAIN Append(s, x) = DOMAIN s \cup {Len(s) + 1}
         /\ \A i \in DOMAIN s : Append(s, x)[i] = s[i]
         /\ Append(s, x)[Len(s) + 1] = x
  <1>1. Len(s) \in Nat /\ DOMAIN s = 1 .. Len(s)
    BY RowsOf
  <1>2. /\ Append(s, x) \in Seq(R) /\ Len(Append(s, x)) = Len(s) + 1
        /\ \A i \in 1 .. Len(s) : Append(s, x)[i] = s[i]
        /\ Append(s, x)[Len(s) + 1] = x
    BY AppendProperties
  <1>3. DOMAIN Append(s, x) = 1 .. (Len(s) + 1)
    BY <1>2, RowsOf
  <1> QED
    BY <1>1, <1>2, <1>3

\* UPDATE ... SET status of one row.
LEMMA StatusOfOne ==
  ASSUME NEW R, NEW s \in Seq(R), NEW d \in DOMAIN s, NEW status,
         [s[d] EXCEPT !.status = status] \in R
  PROVE  LET t == [s EXCEPT ![d].status = status]
         IN /\ t \in Seq(R) /\ DOMAIN t = DOMAIN s
            /\ t[d] = [s[d] EXCEPT !.status = status]
            /\ \A i \in DOMAIN s : i # d => t[i] = s[i]
  <1> DEFINE row == [s[d] EXCEPT !.status = status]
             t == [s EXCEPT ![d] = row]
  <1>1. [s EXCEPT ![d].status = status] = t
    OBVIOUS
  <1> HIDE DEF row
  <1>2. /\ t = [i \in DOMAIN s |-> t[i]] /\ t[d] = row
        /\ \A i \in DOMAIN s : i # d => t[i] = s[i]
    OBVIOUS
  <1>3. \A i \in DOMAIN s : t[i] \in R
    BY <1>2, RowsOf DEF row
  <1>4. t \in Seq(R) /\ DOMAIN t = DOMAIN s
    <2> HIDE DEF t
    <2> QED
      BY <1>2, <1>3, SameRows
  <1> QED
    BY <1>1, <1>2, <1>4 DEF row

-----------------------------------------------------------------------------
(* The laws of Sums!Total, for every finite table of natural numbers.      *)

\* f gives a natural number for every row of S.
NatOn(f, S) == \A x \in S : f[x] \in Nat

\* One row contributes as many units as its number says: the amount column
\* of a single trade.
LEMMA UnitsOfOne ==
  ASSUME NEW x, NEW n \in Nat
  PROVE  /\ IsFiniteSet({x} \X (1 .. n))
         /\ Cardinality({x} \X (1 .. n)) = n
  <1>1. IsFiniteSet({x}) /\ Cardinality({x}) = 1
    BY FS_Singleton
  <1>2. IsFiniteSet(1 .. n) /\ Cardinality(1 .. n) = n
    BY FS_Interval
  <1>3. /\ IsFiniteSet({x} \X (1 .. n))
        /\ Cardinality({x} \X (1 .. n)) = Cardinality({x}) * Cardinality(1 .. n)
    BY <1>1, <1>2, FS_Product
  <1>4. Cardinality({x} \X (1 .. n)) = 1 * n
    BY <1>1, <1>2, <1>3
  <1> QED
    BY <1>3, <1>4

\* The units of a finite table are finite, so a sum is a natural number.
LEMMA UnitsFinite ==
  ASSUME NEW S, IsFiniteSet(S), NEW f, NatOn(f, S)
  PROVE  IsFiniteSet(Units(f, S))
  <1> DEFINE P == { {x} \X (1 .. f[x]) : x \in S }
  <1>1. IsFiniteSet(P)
    <2>1. [x \in S |-> {x} \X (1 .. f[x])] \in Surjection(S, P)
      BY DEF Surjection
    <2> QED
      BY <2>1, FS_Surjection
  <1>2. ASSUME NEW T \in P
        PROVE  IsFiniteSet(T)
    <2>1. PICK x \in S : T = {x} \X (1 .. f[x])
      OBVIOUS
    <2>2. f[x] \in Nat
      BY DEF NatOn
    <2> QED
      BY <2>1, <2>2, UnitsOfOne
  <1> QED
    BY <1>1, <1>2, FS_UNION DEF Units

THEOREM TotalIsNat ==
  ASSUME NEW S, IsFiniteSet(S), NEW f, NatOn(f, S)
  PROVE  Total(f, S) \in Nat
  BY UnitsFinite, FS_CardinalityType DEF Total

\* A sum depends only on the rows it is taken over.
THEOREM TotalDependsOnRows ==
  ASSUME NEW S, NEW f, NEW g, \A x \in S : f[x] = g[x]
  PROVE  Total(f, S) = Total(g, S)
  <1>1. Units(f, S) = Units(g, S)
    BY DEF Units
  <1> QED
    BY <1>1 DEF Total

THEOREM TotalOfNothing ==
  ASSUME NEW f
  PROVE  Total(f, {}) = 0
  <1>1. Units(f, {}) = {}
    BY DEF Units
  <1> QED
    BY <1>1, FS_EmptySet DEF Total

THEOREM TotalOfOne ==
  ASSUME NEW f, NEW x, f[x] \in Nat
  PROVE  Total(f, {x}) = f[x]
  <1>1. Units(f, {x}) = {x} \X (1 .. f[x])
    BY DEF Units
  <1> QED
    BY <1>1, UnitsOfOne DEF Total

\* Adding up ones is counting.
THEOREM TotalOfOnes ==
  ASSUME NEW S, IsFiniteSet(S), NEW f, \A x \in S : f[x] = 1
  PROVE  Total(f, S) = Cardinality(S) /\ Cardinality(S) \in Nat
  <1>1. Units(f, S) = S \X {1}
    <2>1. 1 .. 1 = {1}
      OBVIOUS
    <2>2. Units(f, S) = UNION {{x} \X {1} : x \in S}
      BY <2>1 DEF Units
    <2> QED
      BY <2>2
  <1>2. IsFiniteSet({1}) /\ Cardinality({1}) = 1
    BY FS_Singleton
  <1>3. Cardinality(S \X {1}) = Cardinality(S) * 1
    BY <1>2, FS_Product
  <1>4. Cardinality(S) \in Nat
    BY FS_CardinalityType
  <1> QED
    BY <1>1, <1>3, <1>4 DEF Total

\* Sums over disjoint sets of rows add up.
THEOREM TotalOfUnion ==
  ASSUME NEW S, NEW T, IsFiniteSet(S), IsFiniteSet(T), S \cap T = {},
         NEW f, NatOn(f, S), NatOn(f, T)
  PROVE  Total(f, S \cup T) = Total(f, S) + Total(f, T)
  <1>1. Units(f, S \cup T) = Units(f, S) \cup Units(f, T)
    BY DEF Units
  <1>2. Units(f, S) \cap Units(f, T) = {}
    BY DEF Units
  <1>3. IsFiniteSet(Units(f, S)) /\ IsFiniteSet(Units(f, T))
    BY UnitsFinite
  <1>4. /\ Cardinality(Units(f, S)) \in Nat /\ Cardinality(Units(f, T)) \in Nat
    BY <1>3, FS_CardinalityType
  <1>5. Cardinality(Units(f, S) \cup Units(f, T))
          = Cardinality(Units(f, S)) + Cardinality(Units(f, T))
              - Cardinality(Units(f, S) \cap Units(f, T))
    BY <1>3, FS_Union
  <1>6. Cardinality(Units(f, S) \cap Units(f, T)) = 0
    BY <1>2, FS_EmptySet
  <1>7. Cardinality(Units(f, S) \cup Units(f, T))
          = Cardinality(Units(f, S)) + Cardinality(Units(f, T))
    BY <1>4, <1>5, <1>6
  <1> QED
    BY <1>1, <1>7 DEF Total

\* Taking one row out of a sum.
THEOREM TotalWithoutOne ==
  ASSUME NEW S, IsFiniteSet(S), NEW x \in S, NEW f, NatOn(f, S)
  PROVE  /\ Total(f, S) = f[x] + Total(f, S \ {x})
         /\ Total(f, S \ {x}) \in Nat
  <1>1. S = {x} \cup (S \ {x}) /\ {x} \cap (S \ {x}) = {}
    OBVIOUS
  <1>2. IsFiniteSet({x}) /\ IsFiniteSet(S \ {x})
    BY FS_Singleton, FS_RemoveElement
  <1>3. NatOn(f, {x}) /\ NatOn(f, S \ {x}) /\ f[x] \in Nat
    BY DEF NatOn
  <1>4. Total(f, {x} \cup (S \ {x})) = Total(f, {x}) + Total(f, S \ {x})
    BY <1>1, <1>2, <1>3, TotalOfUnion
  <1> QED
    BY <1>1, <1>2, <1>3, <1>4, TotalOfOne, TotalIsNat

\* Adding one row to a sum.
THEOREM TotalOfOneMore ==
  ASSUME NEW S, IsFiniteSet(S), NEW x, x \notin S, NEW f, NatOn(f, S),
         NEW g, g[x] \in Nat, \A z \in S : g[z] = f[z]
  PROVE  /\ Total(g, S \cup {x}) = Total(f, S) + g[x]
         /\ Total(f, S) \in Nat
  <1>1. NatOn(g, S \cup {x})
    BY DEF NatOn
  <1>2. IsFiniteSet(S \cup {x})
    BY FS_AddElement
  <1>3. (S \cup {x}) \ {x} = S
    OBVIOUS
  <1>4. Total(g, S \cup {x}) = g[x] + Total(g, S)
    BY <1>1, <1>2, <1>3, TotalWithoutOne
  <1>5. Total(g, S) = Total(f, S) /\ Total(f, S) \in Nat
    BY TotalDependsOnRows, TotalIsNat
  <1> QED
    BY <1>4, <1>5

\* Moving an amount from one row to another leaves the sum alone.
THEOREM TotalOfMove ==
  ASSUME NEW S, IsFiniteSet(S), NEW x \in S, NEW y \in S, x # y,
         NEW f, NatOn(f, S), NEW g, NatOn(g, S),
         g[x] + g[y] = f[x] + f[y],
         \A z \in S \ {x, y} : g[z] = f[z]
  PROVE  Total(g, S) = Total(f, S)
  <1> DEFINE T == S \ {x}
             R == T \ {y}
  <1>1. IsFiniteSet(T) /\ y \in T /\ NatOn(f, T) /\ NatOn(g, T)
    BY FS_RemoveElement DEF NatOn
  <1>2. /\ Total(f, S) = f[x] + Total(f, T) /\ Total(f, T) \in Nat
        /\ Total(g, S) = g[x] + Total(g, T) /\ Total(g, T) \in Nat
    BY TotalWithoutOne
  <1>3. /\ Total(f, T) = f[y] + Total(f, R) /\ Total(f, R) \in Nat
        /\ Total(g, T) = g[y] + Total(g, R) /\ Total(g, R) \in Nat
    BY <1>1, TotalWithoutOne
  <1>4. Total(f, R) = Total(g, R)
    BY TotalDependsOnRows
  <1>5. f[x] \in Nat /\ f[y] \in Nat /\ g[x] \in Nat /\ g[y] \in Nat
    BY DEF NatOn
  <1> HIDE DEF T, R
  <1> QED
    BY <1>2, <1>3, <1>4, <1>5

\* Induction over the subsets of a finite set: a family G of sets that has the
\* empty set, and with a set also the set with one more element, has S.
LEMMA SubsetInduction ==
  ASSUME NEW S, IsFiniteSet(S), NEW G, {} \in G,
         \A T \in SUBSET S : \A x \in S \ T : T \in G => T \cup {x} \in G
  PROVE  S \in G
  <1> DEFINE Bad == (SUBSET S) \ G
  <1>1. IsWellFoundedOn(StrictSubsetOrdering(S), SUBSET S)
    BY FS_StrictSubsetOrderingWellFounded, FS_FiniteSubsetsOfFinite
  <1>2. SUFFICES ASSUME Bad # {} PROVE FALSE
    OBVIOUS
  <1>3. PICK T \in Bad : \A U \in Bad : <<U, T>> \notin StrictSubsetOrdering(S)
    <2> HIDE DEF Bad
    <2>1. Bad \subseteq SUBSET S
      BY DEF Bad
    <2> QED
      BY <1>1, <1>2, <2>1, WFMin
  <1>4. PICK x \in T : TRUE
    BY <1>3
  <1>5. T \ {x} \notin Bad
    BY <1>3, <1>4 DEF StrictSubsetOrdering
  <1>6. (T \ {x}) \cup {x} = T
    BY <1>4
  <1> QED
    BY <1>3, <1>4, <1>5, <1>6

\* Adding two columns row by row adds their sums.
THEOREM TotalOfSum ==
  ASSUME NEW S, IsFiniteSet(S), NEW f, NatOn(f, S), NEW g, NatOn(g, S),
         NEW h, \A x \in S : h[x] = f[x] + g[x]
  PROVE  Total(h, S) = Total(f, S) + Total(g, S)
  <1> DEFINE G == {T \in SUBSET S : Total(h, T) = Total(f, T) + Total(g, T)}
  <1>1. {} \in G
    BY TotalOfNothing
  <1>2. ASSUME NEW T \in SUBSET S, NEW x \in S \ T, T \in G
        PROVE  T \cup {x} \in G
    <2>1. IsFiniteSet(T) /\ NatOn(f, T) /\ NatOn(g, T) /\ NatOn(h, T)
      BY FS_Subset DEF NatOn
    <2>2. /\ f[x] \in Nat /\ g[x] \in Nat /\ h[x] \in Nat /\ h[x] = f[x] + g[x]
      BY DEF NatOn
    <2>3. /\ Total(f, T \cup {x}) = Total(f, T) + f[x] /\ Total(f, T) \in Nat
      BY <2>1, <2>2, TotalOfOneMore
    <2>4. /\ Total(g, T \cup {x}) = Total(g, T) + g[x] /\ Total(g, T) \in Nat
      BY <2>1, <2>2, TotalOfOneMore
    <2>5. /\ Total(h, T \cup {x}) = Total(h, T) + h[x] /\ Total(h, T) \in Nat
      BY <2>1, <2>2, TotalOfOneMore
    <2>6. Total(h, T) = Total(f, T) + Total(g, T)
      BY <1>2
    <2>7. Total(h, T \cup {x}) = Total(f, T \cup {x}) + Total(g, T \cup {x})
      BY <2>2, <2>3, <2>4, <2>5, <2>6
    <2> QED
      BY <2>7
  <1> HIDE DEF G
  <1>3. S \in G
    BY <1>1, <1>2, SubsetInduction
  <1> QED
    BY <1>3 DEF G

\* A sum over some rows is the sum over all rows that counts the others as
\* zero.
THEOREM TotalOfSome ==
  ASSUME NEW S, NEW T, T \subseteq S, NEW f, NEW g,
         \A x \in S : g[x] = IF x \in T THEN f[x] ELSE 0
  PROVE  Total(g, S) = Total(f, T)
  <1>1. Units(f, T) = Units(g, S)
    <2>1. \A x \in S \ T : {x} \X (1 .. g[x]) = {}
      OBVIOUS
    <2> QED
      BY <2>1 DEF Units
  <1> QED
    BY <1>1 DEF Total

\* One row changes.
THEOREM TotalOfChange ==
  ASSUME NEW S, IsFiniteSet(S), NEW x \in S, NEW f, NatOn(f, S), NEW g, g[x] \in Nat,
         \A z \in S \ {x} : g[z] = f[z]
  PROVE  /\ Total(g, S) + f[x] = Total(f, S) + g[x]
         /\ Total(g, S) \in Nat
  <1>1. NatOn(g, S)
    BY DEF NatOn
  <1>2. /\ Total(f, S) = f[x] + Total(f, S \ {x}) /\ Total(f, S \ {x}) \in Nat
        /\ Total(g, S) = g[x] + Total(g, S \ {x}) /\ Total(g, S \ {x}) \in Nat
    BY <1>1, TotalWithoutOne
  <1>3. Total(g, S \ {x}) = Total(f, S \ {x})
    BY TotalDependsOnRows
  <1>4. f[x] \in Nat
    BY DEF NatOn
  <1> QED
    BY <1>2, <1>3, <1>4
=============================================================================
