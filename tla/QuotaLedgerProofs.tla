-------------------------- MODULE QuotaLedgerProofs --------------------------
(***************************************************************************)
(* Proofs about QuotaLedger, for any number of requests, policies and      *)
(* windows and any amounts.  The first part is what the proofs need of     *)
(* sums over finite sets.  The second shows that a step moves the counters *)
(* of a window by what it moves the rows in that window, and that no       *)
(* policy that denies is exceeded but by overruns.                         *)
(***************************************************************************)
EXTENDS QuotaLedger, FiniteSetTheorems, TLAPS

\* The order of the naturals as a relation.
Less == {p \in Nat \X Nat : p[1] < p[2]}

\* A set of naturals that is not empty has a least element.
LEMMA Least ==
  ASSUME NEW T \in SUBSET Nat, T # {}
  PROVE  \E n \in T : \A m \in T : n <= m
<1>1. IsWellFoundedOn(Less, Nat)
  BY NatLessThanWellFounded, Zenon DEF OpToRel, Less
<1>2. PICK n \in T : \A m \in T : ~ (<<m, n>> \in Less)
  BY <1>1, WFMin, Zenon
<1>3. \A m \in Nat : m < n => <<m, n>> \in Less
  BY DEF Less
<1>4. \A m \in T : m \in Nat /\ n \in Nat /\ ~ (m < n)
  BY <1>2, <1>3
<1>5. \A m \in T : n <= m
  BY <1>4
<1> QED
  BY <1>5

\* Induction over a finite set: what holds of a set when it holds of the set
\* less any one element holds of every subset.
LEMMA SetInduction ==
  ASSUME NEW S, IsFiniteSet(S), NEW Good,
         \A T \in SUBSET S : (\A x \in T : T \ {x} \in Good) => T \in Good
  PROVE  \A T \in SUBSET S : T \in Good
<1> DEFINE Bad == {T \in SUBSET S : T \notin Good}
<1>1. IsWellFoundedOn(StrictSubsetOrdering(S), FiniteSubsetsOf(S))
  BY FS_StrictSubsetOrderingWellFounded
<1>2. Bad \subseteq FiniteSubsetsOf(S)
  BY FS_Subset DEF FiniteSubsetsOf
<1>3. ASSUME Bad # {} PROVE FALSE
  <2> HIDE DEF Bad
  <2>1. PICK T \in Bad : \A R \in Bad : ~ (<<R, T>> \in StrictSubsetOrdering(S))
    BY <1>1, <1>2, <1>3, WFMin
  <2>2. T \in SUBSET S /\ T \notin Good
    BY DEF Bad
  <2>3. PICK x \in T : T \ {x} \notin Good
    BY <2>2
  <2>4. T \ {x} \in Bad
    BY <2>2, <2>3 DEF Bad
  <2>5. <<T \ {x}, T>> \in StrictSubsetOrdering(S)
    BY <2>2 DEF StrictSubsetOrdering
  <2> QED
    BY <2>1, <2>4, <2>5, Zenon
<1> QED
  BY <1>3

\* The element that the folds of the community modules take first.
Pick(T) == CHOOSE x \in T : TRUE

\* it is the recursive function that the sum of f is defined by, on D.
IsSum(f, D, it) ==
  it = [T \in D |-> IF T = {} THEN 0 ELSE f[Pick(T)] + it[T \ {Pick(T)}]]

\* The subsets of S of at most n elements.
UpTo(S, n) == {T \in SUBSET S : Cardinality(T) <= n}

\* The element that is taken is an element.
LEMMA PickIn == \A T : T # {} => Pick(T) \in T
BY DEF Pick

\* The sum of f over sets of n elements extends to sets of n + 1.
LEMMA SumUpTo ==
  ASSUME NEW S, IsFiniteSet(S), NEW f, NEW n \in Nat, NEW g, IsSum(f, UpTo(S, n), g)
  PROVE  \E h : IsSum(f, UpTo(S, n + 1), h)
<1> DEFINE h == [T \in UpTo(S, n + 1) |-> IF T = {} THEN 0 ELSE f[Pick(T)] + g[T \ {Pick(T)}]]
<1>1. ASSUME NEW T \in UpTo(S, n + 1), T # {}
      PROVE  T \ {Pick(T)} \in UpTo(S, n) /\ T \ {Pick(T)} \in UpTo(S, n + 1)
  <2>1. Pick(T) \in T /\ IsFiniteSet(T) /\ T \subseteq S
    BY <1>1, PickIn, FS_Subset DEF UpTo
  <2>2. Cardinality(T \ {Pick(T)}) = Cardinality(T) - 1
    BY <2>1, FS_RemoveElement, Zenon
  <2>3. Cardinality(T) \in Nat /\ Cardinality(T) <= n + 1
    BY <2>1, FS_CardinalityType DEF UpTo
  <2> QED
    BY <2>1, <2>2, <2>3 DEF UpTo
<1>2. ASSUME NEW T \in UpTo(S, n + 1), T # {}
      PROVE  h[T \ {Pick(T)}] = g[T \ {Pick(T)}]
  BY <1>1, <1>2 DEF IsSum
<1>3. h = [T \in UpTo(S, n + 1) |-> IF T = {} THEN 0 ELSE f[Pick(T)] + h[T \ {Pick(T)}]]
  BY <1>2, Zenon
<1> QED
  BY <1>3, Zenon DEF IsSum

\* The recursive function that the sum is defined by exists.
LEMMA SumExists ==
  ASSUME NEW S, IsFiniteSet(S), NEW f
  PROVE  \E g : IsSum(f, SUBSET S, g)
<1> DEFINE Bad == {n \in Nat : ~ \E g : IsSum(f, UpTo(S, n), g)}
<1>1. 0 \notin Bad
  <2> DEFINE g == [T \in UpTo(S, 0) |-> 0]
  <2>1. \A T \in UpTo(S, 0) : T = {}
    <3> TAKE T \in UpTo(S, 0)
    <3>1. IsFiniteSet(T) /\ Cardinality(T) \in Nat /\ Cardinality(T) <= 0
      BY FS_Subset, FS_CardinalityType DEF UpTo
    <3> QED
      BY <3>1, FS_EmptySet
  <2>2. g = [T \in UpTo(S, 0) |-> IF T = {} THEN 0 ELSE f[Pick(T)] + g[T \ {Pick(T)}]]
    BY <2>1
  <2>3. \E it : IsSum(f, UpTo(S, 0), it)
    BY <2>2 DEF IsSum
  <2> QED
    BY <2>3
<1>2. \A n \in Nat : n \notin Bad => n + 1 \notin Bad
  BY SumUpTo
<1>3. Bad = {}
  <2> SUFFICES ASSUME Bad # {} PROVE FALSE
    OBVIOUS
  <2>1. PICK n \in Bad : \A m \in Bad : n <= m
    BY Least
  <2> HIDE DEF Bad
  <2>2. n \in Nat
    BY DEF Bad
  <2>3. n # 0
    BY <1>1, <2>1
  <2>4. n - 1 \in Nat /\ n - 1 \notin Bad /\ (n - 1) + 1 = n
    BY <2>1, <2>2, <2>3
  <2> QED
    BY <1>2, <2>1, <2>4
<1>4. Cardinality(S) \in Nat
  BY FS_CardinalityType
<1>5. UpTo(S, Cardinality(S)) = SUBSET S
  BY <1>4, FS_Subset, FS_CardinalityType DEF UpTo
<1>6. \E g : IsSum(f, UpTo(S, Cardinality(S)), g)
  BY <1>3, <1>4
<1> QED
  BY <1>5, <1>6

\* The sum as the value of that function.
LEMMA SumDef ==
  ASSUME NEW f, NEW S
  PROVE  SumFunctionOnSet(f, S) = (CHOOSE it : IsSum(f, SUBSET S, it))[S]
BY DEF SumFunctionOnSet, FoldFunctionOnSet, MapThenFoldSet, IsSum, Pick

\* Two such functions agree where both are defined.
LEMMA SumsAgree ==
  ASSUME NEW S, IsFiniteSet(S), NEW U \in SUBSET S, NEW f, NEW e, NEW g, NEW h,
         IsSum(f, SUBSET S, g), IsSum(e, SUBSET U, h), \A x \in U : f[x] = e[x]
  PROVE  \A T \in SUBSET U : g[T] = h[T]
<1> DEFINE Good == {T \in SUBSET U : g[T] = h[T]}
<1>1. ASSUME NEW T \in SUBSET U, \A x \in T : T \ {x} \in Good PROVE T \in Good
  <2>1. CASE T = {}
    BY <2>1 DEF IsSum
  <2>2. CASE T # {}
    <3>1. Pick(T) \in T /\ T \in SUBSET S
      BY <2>2, PickIn
    <3>2. g[T \ {Pick(T)}] = h[T \ {Pick(T)}]
      BY <1>1, <3>1
    <3>3. /\ g[T] = f[Pick(T)] + g[T \ {Pick(T)}]
          /\ h[T] = e[Pick(T)] + h[T \ {Pick(T)}]
      BY <2>2, <3>1, Zenon DEF IsSum
    <3> QED
      BY <3>1, <3>2, <3>3
  <2> QED
    BY <2>1, <2>2
<1>2. IsFiniteSet(U)
  BY FS_Subset
<1> HIDE DEF Good
<1>3. \A T \in SUBSET U : T \in Good
  BY <1>1, <1>2, SetInduction
<1> QED
  BY <1>3 DEF Good

\* g holds the sums of f over the subsets of S.
Sums(f, S, g) == IsSum(f, SUBSET S, g) /\ \A U \in SUBSET S : SumFunctionOnSet(f, U) = g[U]

\* The sums over all subsets of a set are values of one function.
LEMMA SumsExist ==
  ASSUME NEW S, IsFiniteSet(S), NEW f PROVE \E g : Sums(f, S, g)
<1>1. PICK g : IsSum(f, SUBSET S, g)
  BY SumExists, Zenon
<1>2. ASSUME NEW U \in SUBSET S PROVE SumFunctionOnSet(f, U) = g[U]
  <2> DEFINE h == CHOOSE it : IsSum(f, SUBSET U, it)
  <2>1. IsFiniteSet(U)
    BY FS_Subset
  <2>2. IsSum(f, SUBSET U, h)
    BY <2>1, SumExists
  <2>3. SumFunctionOnSet(f, U) = h[U]
    BY SumDef
  <2> HIDE DEF h
  <2>4. U \in SUBSET U /\ \A x \in U : f[x] = f[x]
    OBVIOUS
  <2>5. g[U] = h[U]
    BY <1>1, <2>2, <2>4, SumsAgree
  <2> QED
    BY <2>3, <2>5
<1> QED
  BY <1>1, <1>2 DEF Sums

\* The sum over no element.
LEMMA SumEmpty ==
  ASSUME NEW f PROVE SumFunctionOnSet(f, {}) = 0
<1>1. PICK g : Sums(f, {}, g)
  BY SumsExist, FS_EmptySet, Zenon
<1> QED
  BY <1>1, Zenon DEF IsSum, Sums

\* The sum less its first element.
LEMMA SumPick ==
  ASSUME NEW S, IsFiniteSet(S), S # {}, NEW f
  PROVE  SumFunctionOnSet(f, S) = f[Pick(S)] + SumFunctionOnSet(f, S \ {Pick(S)})
<1>1. PICK g : Sums(f, S, g)
  BY SumsExist, Zenon
<1>2. g[S] = f[Pick(S)] + g[S \ {Pick(S)}]
  BY <1>1 DEF IsSum, Sums
<1>3. S \in SUBSET S /\ S \ {Pick(S)} \in SUBSET S
  OBVIOUS
<1> QED
  BY <1>1, <1>2, <1>3 DEF Sums

\* Functions that agree on a set have the same sum over it.
LEMMA SumSame ==
  ASSUME NEW S, IsFiniteSet(S), NEW f, NEW e, \A x \in S : f[x] = e[x]
  PROVE  SumFunctionOnSet(f, S) = SumFunctionOnSet(e, S)
<1>1. PICK g : Sums(f, S, g)
  BY SumsExist, Zenon
<1>2. PICK h : Sums(e, S, h)
  BY SumsExist, Zenon
<1>3. S \in SUBSET S
  OBVIOUS
<1>4. g[S] = h[S]
  BY <1>1, <1>2, <1>3, SumsAgree DEF Sums
<1> QED
  BY <1>1, <1>2, <1>3, <1>4 DEF Sums

\* The sum of values of a set closed under addition is in it.
LEMMA SumIn ==
  ASSUME NEW S, IsFiniteSet(S), NEW f, NEW V,
         0 \in V, \A v, w \in V : v + w \in V, \A x \in S : f[x] \in V
  PROVE  SumFunctionOnSet(f, S) \in V
<1> DEFINE Good == {T \in SUBSET S : SumFunctionOnSet(f, T) \in V}
<1>1. ASSUME NEW T \in SUBSET S, \A x \in T : T \ {x} \in Good PROVE T \in Good
  <2>1. CASE T = {}
    BY <2>1, SumEmpty
  <2>2. CASE T # {}
    <3>1. Pick(T) \in T /\ IsFiniteSet(T)
      BY <2>2, PickIn, FS_Subset
    <3>2. SumFunctionOnSet(f, T) = f[Pick(T)] + SumFunctionOnSet(f, T \ {Pick(T)})
      BY <2>2, <3>1, SumPick, Zenon
    <3>3. SumFunctionOnSet(f, T \ {Pick(T)}) \in V /\ f[Pick(T)] \in V
      BY <1>1, <3>1
    <3> QED
      BY <3>2, <3>3
  <2> QED
    BY <2>1, <2>2
<1> HIDE DEF Good
<1>2. \A T \in SUBSET S : T \in Good
  BY <1>1, SetInduction
<1> QED
  BY <1>2 DEF Good

\* Sums of integers are integers, and of naturals naturals.
LEMMA SumTyped ==
  ASSUME NEW S, IsFiniteSet(S), NEW f
  PROVE  /\ (\A x \in S : f[x] \in Int) => SumFunctionOnSet(f, S) \in Int
         /\ (\A x \in S : f[x] \in Nat) => SumFunctionOnSet(f, S) \in Nat
<1>1. 0 \in Int /\ 0 \in Nat /\ (\A v, w \in Int : v + w \in Int) /\ \A v, w \in Nat : v + w \in Nat
  OBVIOUS
<1> QED
  BY <1>1, SumIn, Zenon

\* The sum less any element: the order of adding does not matter.
LEMMA SumRemove ==
  ASSUME NEW S, IsFiniteSet(S), NEW f, \A y \in S : f[y] \in Int, NEW x \in S
  PROVE  SumFunctionOnSet(f, S) = f[x] + SumFunctionOnSet(f, S \ {x})
<1> DEFINE Good == {T \in SUBSET S : \A y \in T : SumFunctionOnSet(f, T) = f[y] + SumFunctionOnSet(f, T \ {y})}
<1>1. ASSUME NEW T \in SUBSET S PROVE IsFiniteSet(T) /\ SumFunctionOnSet(f, T) \in Int
  <2>1. IsFiniteSet(T) /\ \A y \in T : f[y] \in Int
    BY FS_Subset
  <2> QED
    BY <2>1, SumTyped
<1>2. ASSUME NEW T \in SUBSET S, \A y \in T : T \ {y} \in Good, NEW y \in T
      PROVE  SumFunctionOnSet(f, T) = f[y] + SumFunctionOnSet(f, T \ {y})
  <2> DEFINE p == Pick(T)
  <2>1. p \in T /\ T # {}
    BY PickIn
  <2>2. SumFunctionOnSet(f, T) = f[p] + SumFunctionOnSet(f, T \ {p})
    BY <1>1, <2>1, SumPick
  <2> HIDE DEF p
  <2>3. CASE p = y
    BY <2>2, <2>3
  <2>4. CASE p # y
    <3>1. T \ {p} \in Good /\ y \in T \ {p} /\ T \ {y} \in Good /\ p \in T \ {y}
      BY <1>2, <2>1, <2>4
    <3>2. SumFunctionOnSet(f, T \ {p}) = f[y] + SumFunctionOnSet(f, (T \ {p}) \ {y})
      BY <3>1
    <3>3. SumFunctionOnSet(f, T \ {y}) = f[p] + SumFunctionOnSet(f, (T \ {y}) \ {p})
      BY <3>1
    <3>4. (T \ {y}) \ {p} = (T \ {p}) \ {y} /\ (T \ {p}) \ {y} \in SUBSET S
      OBVIOUS
    <3>5. f[y] \in Int /\ f[p] \in Int /\ SumFunctionOnSet(f, (T \ {p}) \ {y}) \in Int
      BY <1>1, <2>1, <3>4
    <3>6. SumFunctionOnSet(f, T) = f[p] + (f[y] + SumFunctionOnSet(f, (T \ {p}) \ {y}))
      BY <2>2, <3>2
    <3>7. SumFunctionOnSet(f, T \ {y}) = f[p] + SumFunctionOnSet(f, (T \ {p}) \ {y})
      BY <3>3, <3>4
    <3> QED
      BY <3>5, <3>6, <3>7
  <2> QED
    BY <2>3, <2>4
<1>3. \A T \in SUBSET S : (\A y \in T : T \ {y} \in Good) => T \in Good
  BY <1>2
<1> HIDE DEF Good
<1>4. \A T \in SUBSET S : T \in Good
  BY <1>3, SetInduction
<1>5. S \in Good
  BY <1>4
<1> QED
  BY <1>5 DEF Good

\* v if b holds.
Only(b, v) == IF b THEN v ELSE 0

\* The sum less an element that may or may not be in the set.
LEMMA SumOnly ==
  ASSUME NEW S, IsFiniteSet(S), NEW f, \A y \in S : f[y] \in Int, NEW x
  PROVE  /\ SumFunctionOnSet(f, S) \in Int /\ SumFunctionOnSet(f, S \ {x}) \in Int /\ Only(x \in S, f[x]) \in Int
         /\ SumFunctionOnSet(f, S) = SumFunctionOnSet(f, S \ {x}) + Only(x \in S, f[x])
<1>1. IsFiniteSet(S \ {x})
  BY FS_Subset
<1>2. SumFunctionOnSet(f, S) \in Int /\ SumFunctionOnSet(f, S \ {x}) \in Int /\ Only(x \in S, f[x]) \in Int
  BY <1>1, SumTyped DEF Only
<1>3. CASE x \in S
  BY <1>2, <1>3, SumRemove DEF Only
<1>4. CASE x \notin S
  <2>1. S \ {x} = S
    BY <1>4
  <2>2. Only(x \in S, f[x]) = 0
    BY <1>4 DEF Only
  <2>3. SumFunctionOnSet(f, S \ {x}) = SumFunctionOnSet(f, S)
    BY <2>1
  <2> QED
    BY <1>2, <2>2, <2>3
<1> QED
  BY <1>3, <1>4

\* Two sums that differ in one element differ by what it contributes.
LEMMA SumChange ==
  ASSUME NEW S, IsFiniteSet(S), NEW A \in SUBSET S, NEW B \in SUBSET S, NEW x \in S,
         A \ {x} = B \ {x}, NEW f, NEW e,
         \A y \in S : f[y] \in Int /\ e[y] \in Int,
         \A y \in S \ {x} : e[y] = f[y]
  PROVE  /\ SumFunctionOnSet(f, A) \in Int
         /\ SumFunctionOnSet(e, B) = SumFunctionOnSet(f, A) + Only(x \in B, e[x]) - Only(x \in A, f[x])
<1>1. IsFiniteSet(A) /\ IsFiniteSet(B) /\ IsFiniteSet(A \ {x})
  BY FS_Subset
<1>2. SumFunctionOnSet(f, A \ {x}) = SumFunctionOnSet(e, B \ {x})
  BY <1>1, SumSame
<1>3. /\ SumFunctionOnSet(f, A) \in Int /\ SumFunctionOnSet(f, A \ {x}) \in Int /\ Only(x \in A, f[x]) \in Int
      /\ SumFunctionOnSet(f, A) = SumFunctionOnSet(f, A \ {x}) + Only(x \in A, f[x])
  BY <1>1, SumOnly
<1>4. /\ SumFunctionOnSet(e, B) = SumFunctionOnSet(e, B \ {x}) + Only(x \in B, e[x])
      /\ Only(x \in B, e[x]) \in Int
  BY <1>1, SumOnly
<1> QED
  BY <1>2, <1>3, <1>4

-----------------------------------------------------------------------------
\* What a row is charged, by its state: nothing before it is closed, its estimate
\* when it is reaped.
Sound(r) ==
  /\ r.state = "none" => r = NoReservation
  /\ r.state = "active" => r.actual = Zero
  /\ r.state = "estimated" => r.actual = r.amount
  /\ r.state # "none" => r.amount["requests"] = 1
  /\ r.state = "settled" => r.actual["requests"] = 1

RowsSound == \A g \in Groups, p \in Policies : Sound(reservation[g][p])

\* A request that has not reserved yet has no row.
NewHasNoRow ==
  \A g \in Groups : phase[g] = "new"
    => \A p \in Policies : reservation[g][p].state = "none"

Used(p, w, d) == window[p][w].settled[d] + window[p][w].reserved[d]

\* A policy that denies is exceeded at most by the overruns of its requests.
LimitsRespected ==
  \A p \in Policies, w \in Windows, d \in Dims :
    Overage[p] = "deny" /\ Limit[p][d] # NoLimit
      => Used(p, w, d) <= Limit[p][d] + SumFunctionOnSet(OverrunOf(p, d), InWindow(p, w, States))

\* The inductive invariant.
QuotaInv ==
  /\ TypeOK
  /\ RowsSound
  /\ NewHasNoRow
  /\ LedgerBalances
  /\ LimitsRespected

\* The operators on amounts yield amounts, of one request each.
LEMMA AmountFacts ==
  ASSUME NEW p \in Policies, NEW estimate \in Estimates
  PROVE  Amount(p, estimate) \in Amounts /\ Amount(p, estimate)["requests"] = 1
<1>1. estimate \in [tokens : Nat, cost : Nat, costKnown : BOOLEAN]
  BY QuotaAssumption
<1> QED
  BY <1>1 DEF Amount, Amounts, Dims

\* A settlement counts one request.
LEMMA ActualFacts ==
  ASSUME NEW event \in Events, NEW amount \in Amounts
  PROVE  actual(event, amount) \in Amounts /\ actual(event, amount)["requests"] = 1
<1>1. event \in [tokens : Nat \cup {Unknown}, cost : Nat \cup {Unknown}, attempted : BOOLEAN]
  BY QuotaAssumption
<1>2. /\ Charge(event.tokens, event.attempted, amount["tokens"]) \in Nat
      /\ Charge(event.cost, event.attempted, amount["cost"]) \in Nat
  BY <1>1 DEF Charge, Amounts, Dims, Unknown
<1> QED
  BY <1>2 DEF actual, Amounts, Dims

\* Sums and differences of amounts, by dimension.
LEMMA PlusMinus ==
  ASSUME NEW a \in [Dims -> Int], NEW b \in Amounts
  PROVE  /\ Plus(a, b) \in [Dims -> Int]
         /\ Minus(a, b) \in [Dims -> Int]
         /\ \A d \in Dims : /\ Plus(a, b)[d] = a[d] + b[d]
                            /\ Minus(a, b)[d] = a[d] - b[d]
BY DEF Plus, Minus, Amounts

\* The amounts of a row are naturals, and only a settled row can exceed its estimate.
LEMMA RowFacts ==
  ASSUME NEW r \in Reservations
  PROVE  /\ r.state \in States /\ r.window \in Windows
         /\ r.amount \in Amounts /\ r.actual \in Amounts
         /\ \A d \in Dims : r.amount[d] \in Nat /\ r.actual[d] \in Nat
         /\ Sound(r) /\ r.state # "settled" => \A d \in Dims : r.actual[d] <= r.amount[d]
<1>1. /\ r.state \in States /\ r.window \in Windows
      /\ r.amount \in Amounts /\ r.actual \in Amounts
  BY DEF Reservations
<1>2. \A d \in Dims : r.amount[d] \in Nat /\ r.actual[d] \in Nat
  BY <1>1 DEF Amounts
<1>3. ASSUME Sound(r), r.state # "settled", NEW d \in Dims
      PROVE  r.actual[d] <= r.amount[d]
  <2>1. r.actual = Zero \/ r.actual = r.amount
    BY <1>1, <1>3 DEF Sound, States, NoReservation
  <2>2. Zero[d] = 0
    BY DEF Zero
  <2> QED
    BY <1>2, <2>1, <2>2
<1> QED
  BY <1>1, <1>2, <1>3

\* The counters are integers.
LEMMA CounterFacts ==
  ASSUME NEW c \in Counters
  PROVE  /\ c.reserved \in [Dims -> Int] /\ c.settled \in [Dims -> Int]
         /\ \A d \in Dims : c.reserved[d] \in Int /\ c.settled[d] \in Int
BY DEF Counters

-----------------------------------------------------------------------------
\* What the row of g under p contributes to the two counters of a window, and to
\* the overruns in it.
Here(g, p, w, states) ==
  reservation[g][p].state \in states /\ reservation[g][p].window = w
Held(g, p, w, d) == Only(Here(g, p, w, {"active"}), reservation[g][p].amount[d])
Charged(g, p, w, d) ==
  Only(Here(g, p, w, {"settled", "estimated"}), reservation[g][p].actual[d])
Over(g, p, w, d) == Only(Here(g, p, w, States), Overrun(g, p, d))

\* The counters of p move as the row of g does, and a step that takes more of a
\* window than the row overruns is within the limit.
Flow(g, p) ==
  /\ reservation'[g][p] \in Reservations /\ Sound(reservation'[g][p])
  /\ window'[p] \in [Windows -> Counters]
  /\ \A w \in Windows, d \in Dims :
       /\ window'[p][w].reserved[d]
            = window[p][w].reserved[d] + Held(g, p, w, d)' - Held(g, p, w, d)
       /\ window'[p][w].settled[d]
            = window[p][w].settled[d] + Charged(g, p, w, d)' - Charged(g, p, w, d)
       /\ \/ Used(p, w, d)' <= Used(p, w, d) + Over(g, p, w, d)' - Over(g, p, w, d)
          \/ Overage[p] = "deny" /\ Limit[p][d] # NoLimit => Used(p, w, d)' <= Limit[p][d]

\* A step of one group on one policy: nothing; a new row; a row that is closed.
Stays(g, p) == reservation'[g][p] = reservation[g][p] /\ window'[p] = window[p]

Opens(g, p, amount) ==
  /\ reservation[g][p].state = "none"
  /\ amount["requests"] = 1
  /\ ~ (Overage[p] = "deny" /\ exceeds(p, amount))
  /\ reservation'[g][p] =
       [state |-> "active", window |-> period[p], amount |-> amount, actual |-> Zero]
  /\ window'[p] = [window[p] EXCEPT ![period[p]].reserved = Plus(@, amount)]

Closes(g, p, state, used) ==
  LET r == reservation[g][p] IN
  /\ Open(r)
  /\ used["requests"] = 1
  /\ state = "settled" \/ (state = "estimated" /\ used = r.amount)
  /\ reservation'[g][p] = [r EXCEPT !.state = state, !.actual = used]
  /\ window'[p] = [window[p] EXCEPT ![r.window] = SettledWindow(@, r, used)]

\* What a row contributes is an integer.
LEMMA Contributions ==
  ASSUME TypeOK, NEW g \in Groups, NEW p \in Policies, NEW w \in Windows, NEW d \in Dims
  PROVE  /\ Held(g, p, w, d) \in Nat /\ Charged(g, p, w, d) \in Nat /\ Over(g, p, w, d) \in Nat
         /\ window[p][w].reserved[d] \in Int /\ window[p][w].settled[d] \in Int
         /\ Overrun(g, p, d) \in Nat
<1>1. reservation[g][p] \in Reservations /\ window[p][w] \in Counters
  BY DEF TypeOK
<1>2. reservation[g][p].amount[d] \in Nat /\ reservation[g][p].actual[d] \in Nat
  BY <1>1, RowFacts
<1>3. Overrun(g, p, d) \in Nat
  BY <1>2 DEF Overrun
<1>4. Held(g, p, w, d) \in Nat /\ Charged(g, p, w, d) \in Nat /\ Over(g, p, w, d) \in Nat
  BY <1>2, <1>3 DEF Held, Charged, Over, Only
<1>5. window[p][w].reserved[d] \in Int /\ window[p][w].settled[d] \in Int
  BY <1>1, CounterFacts
<1> QED
  BY <1>3, <1>4, <1>5

\* A policy that the step leaves alone.
LEMMA StaysFlow ==
  ASSUME TypeOK, RowsSound, NEW g \in Groups, NEW p \in Policies, Stays(g, p)
  PROVE  Flow(g, p)
<1>1. /\ reservation'[g][p] \in Reservations /\ Sound(reservation'[g][p])
      /\ window'[p] \in [Windows -> Counters]
  BY DEF TypeOK, RowsSound, Stays
<1>2. ASSUME NEW w \in Windows, NEW d \in Dims
      PROVE  /\ Held(g, p, w, d)' = Held(g, p, w, d)
             /\ Charged(g, p, w, d)' = Charged(g, p, w, d)
             /\ Over(g, p, w, d)' = Over(g, p, w, d)
             /\ window'[p][w] = window[p][w]
             /\ Used(p, w, d)' = Used(p, w, d)
  BY DEF Stays, Held, Charged, Over, Here, Overrun, Used
<1>3. ASSUME NEW w \in Windows, NEW d \in Dims
      PROVE  /\ window'[p][w].reserved[d]
                  = window[p][w].reserved[d] + Held(g, p, w, d)' - Held(g, p, w, d)
             /\ window'[p][w].settled[d]
                  = window[p][w].settled[d] + Charged(g, p, w, d)' - Charged(g, p, w, d)
             /\ Used(p, w, d)' <= Used(p, w, d) + Over(g, p, w, d)' - Over(g, p, w, d)
  <2>1. Used(p, w, d) \in Int
    BY Contributions DEF Used
  <2> QED
    BY <1>2, <2>1, Contributions
<1> QED
  BY <1>1, <1>3 DEF Flow

\* Reserve on a policy: the window takes what the new row holds, within the limit.
LEMMA OpensFlow ==
  ASSUME TypeOK, RowsSound, NEW g \in Groups, NEW p \in Policies, NEW amount \in Amounts,
         Opens(g, p, amount)
  PROVE  Flow(g, p)
<1> DEFINE row == [state |-> "active", window |-> period[p], amount |-> amount, actual |-> Zero]
<1>1. /\ period[p] \in Windows /\ window[p] \in [Windows -> Counters]
      /\ Zero \in Amounts /\ \A d \in Dims : Zero[d] = 0 /\ amount[d] \in Nat
  BY DEF TypeOK, Zero, Amounts
<1>2. reservation'[g][p] = row
  BY DEF Opens
<1>3. /\ row \in Reservations /\ Sound(row)
      /\ row.state = "active" /\ row.window = period[p]
      /\ row.amount = amount /\ row.actual = Zero
  BY <1>1 DEF Reservations, States, Sound, Opens
<1> HIDE DEF row
<1>4. /\ Plus(window[p][period[p]].reserved, amount) \in [Dims -> Int]
      /\ \A d \in Dims : Plus(window[p][period[p]].reserved, amount)[d]
                           = window[p][period[p]].reserved[d] + amount[d]
  <2>1. window[p][period[p]].reserved \in [Dims -> Int]
    BY <1>1, CounterFacts
  <2> QED
    BY <2>1, PlusMinus
<1>5. ASSUME NEW w \in Windows
      PROVE  /\ window'[p][w] \in Counters
             /\ w # period[p] => window'[p][w] = window[p][w]
             /\ window'[p][w].settled = window[p][w].settled
             /\ w = period[p]
                  => window'[p][w].reserved = Plus(window[p][period[p]].reserved, amount)
  <2>1. window'[p][w] = IF w = period[p]
                          THEN [window[p][w] EXCEPT !.reserved = Plus(@, amount)]
                          ELSE window[p][w]
    BY <1>1 DEF Opens
  <2>2. CASE w = period[p]
    BY <1>1, <1>4, <2>1, <2>2 DEF Counters
  <2>3. CASE w # period[p]
    BY <1>1, <2>1, <2>3
  <2> QED
    BY <2>2, <2>3
<1>6. window'[p] \in [Windows -> Counters]
  <2>1. window'[p] = [w \in Windows |-> window'[p][w]]
    BY <1>1 DEF Opens
  <2> QED
    BY <1>5, <2>1
<1>7. ASSUME NEW w \in Windows, NEW d \in Dims
      PROVE  /\ window'[p][w].reserved[d]
                  = window[p][w].reserved[d] + Held(g, p, w, d)' - Held(g, p, w, d)
             /\ window'[p][w].settled[d]
                  = window[p][w].settled[d] + Charged(g, p, w, d)' - Charged(g, p, w, d)
             /\ \/ Used(p, w, d)' <= Used(p, w, d) + Over(g, p, w, d)' - Over(g, p, w, d)
                \/ Overage[p] = "deny" /\ Limit[p][d] # NoLimit
                     => Used(p, w, d)' <= Limit[p][d]
  <2>1. /\ Held(g, p, w, d) = 0 /\ Charged(g, p, w, d) = 0
        /\ Charged(g, p, w, d)' = 0
        /\ Held(g, p, w, d)' = IF w = period[p] THEN amount[d] ELSE 0
    BY <1>2, <1>3 DEF Opens, Held, Charged, Here, Only
  <2>2. Over(g, p, w, d) = 0 /\ Over(g, p, w, d)' = 0
    <3>1. /\ reservation[g][p] \in Reservations /\ Sound(reservation[g][p])
          /\ reservation[g][p].state # "settled"
      BY DEF TypeOK, RowsSound, Opens
    <3>2. /\ reservation[g][p].actual[d] <= reservation[g][p].amount[d]
          /\ reservation[g][p].actual[d] \in Nat /\ reservation[g][p].amount[d] \in Nat
      BY <3>1, RowFacts
    <3>3. Overrun(g, p, d) = 0
      BY <3>2 DEF Overrun
    <3>4. Overrun(g, p, d)' = 0
      BY <1>1, <1>2, <1>3 DEF Overrun
    <3> QED
      BY <3>3, <3>4 DEF Over, Only
  <2>3. window[p][w].reserved[d] \in Int /\ window[p][w].settled[d] \in Int
    BY Contributions
  <2>4. CASE w = period[p]
    <3>1. /\ window'[p][w].reserved[d] = window[p][w].reserved[d] + amount[d]
          /\ window'[p][w].settled[d] = window[p][w].settled[d]
      BY <1>4, <1>5, <2>4
    <3>2. ASSUME Overage[p] = "deny", Limit[p][d] # NoLimit
          PROVE  Used(p, w, d)' <= Limit[p][d]
      <4>1. ~ exceedsLimit(Limit[p][d], window[p][w].settled[d],
                           window[p][w].reserved[d], amount[d])
        BY <2>4, <3>2 DEF Opens, exceeds
      <4>2. Limit[p][d] \in Nat
        BY <3>2, QuotaAssumption
      <4> QED
        BY <1>1, <2>3, <3>1, <3>2, <4>1, <4>2 DEF exceedsLimit, Used
    <3> QED
      BY <1>1, <2>1, <2>3, <2>4, <3>1, <3>2
  <2>5. CASE w # period[p]
    <3>1. window'[p][w] = window[p][w] /\ Used(p, w, d)' = Used(p, w, d)
      BY <1>5, <2>5 DEF Used
    <3>2. Used(p, w, d) \in Int
      BY <2>3 DEF Used
    <3> QED
      BY <2>1, <2>2, <2>3, <2>5, <3>1, <3>2
  <2> QED
    BY <2>4, <2>5
<1> QED
  BY <1>2, <1>3, <1>6, <1>7 DEF Flow

-----------------------------------------------------------------------------
\* What closing a row, by settling or by reaping it, does to its window.
LEMMA ClosedCounters ==
  ASSUME NEW c \in Counters, NEW r \in Reservations, NEW used \in Amounts
  PROVE  /\ SettledWindow(c, r, used) \in Counters
         /\ \A d \in Dims :
              /\ SettledWindow(c, r, used).reserved[d]
                   = c.reserved[d] - Only(r.state = "active", r.amount[d])
              /\ SettledWindow(c, r, used).settled[d]
                   = c.settled[d] + used[d] - Only(r.state # "active", r.amount[d])
<1>1. /\ c.reserved \in [Dims -> Int] /\ c.settled \in [Dims -> Int] /\ r.amount \in Amounts
      /\ \A d \in Dims : /\ c.reserved[d] \in Int /\ c.settled[d] \in Int
                         /\ r.amount[d] \in Nat /\ used[d] \in Nat
  BY CounterFacts, RowFacts DEF Amounts
<1>2. CASE r.state = "active"
  <2>1. SettledWindow(c, r, used) =
          [reserved |-> Minus(c.reserved, r.amount), settled |-> Plus(c.settled, used)]
    BY <1>2 DEF SettledWindow
  <2>2. /\ Minus(c.reserved, r.amount) \in [Dims -> Int]
        /\ \A d \in Dims : Minus(c.reserved, r.amount)[d] = c.reserved[d] - r.amount[d]
    BY <1>1, PlusMinus
  <2>3. /\ Plus(c.settled, used) \in [Dims -> Int]
        /\ \A d \in Dims : Plus(c.settled, used)[d] = c.settled[d] + used[d]
    BY <1>1, PlusMinus
  <2>4. /\ SettledWindow(c, r, used) \in Counters
        /\ SettledWindow(c, r, used).reserved = Minus(c.reserved, r.amount)
        /\ SettledWindow(c, r, used).settled = Plus(c.settled, used)
    BY <2>1, <2>2, <2>3 DEF Counters
  <2>5. \A d \in Dims : /\ Only(r.state = "active", r.amount[d]) = r.amount[d]
                        /\ Only(r.state # "active", r.amount[d]) = 0
    BY <1>2 DEF Only
  <2> QED
    BY <1>1, <2>2, <2>3, <2>4, <2>5
<1>3. CASE r.state # "active"
  <2>1. SettledWindow(c, r, used) =
          [reserved |-> c.reserved, settled |-> Plus(Minus(c.settled, r.amount), used)]
    BY <1>3 DEF SettledWindow
  <2>2. /\ Minus(c.settled, r.amount) \in [Dims -> Int]
        /\ \A d \in Dims : Minus(c.settled, r.amount)[d] = c.settled[d] - r.amount[d]
    BY <1>1, PlusMinus
  <2>3. /\ Plus(Minus(c.settled, r.amount), used) \in [Dims -> Int]
        /\ \A d \in Dims : Plus(Minus(c.settled, r.amount), used)[d]
                             = Minus(c.settled, r.amount)[d] + used[d]
    BY <2>2, PlusMinus
  <2>4. /\ SettledWindow(c, r, used) \in Counters
        /\ SettledWindow(c, r, used).reserved = c.reserved
        /\ SettledWindow(c, r, used).settled = Plus(Minus(c.settled, r.amount), used)
    BY <1>1, <2>1, <2>3 DEF Counters
  <2>5. \A d \in Dims : /\ Only(r.state = "active", r.amount[d]) = 0
                        /\ Only(r.state # "active", r.amount[d]) = r.amount[d]
    BY <1>3 DEF Only
  <2>6. \A d \in Dims : Plus(Minus(c.settled, r.amount), used)[d]
                          = c.settled[d] + used[d] - r.amount[d]
    BY <1>1, <2>2, <2>3
  <2> QED
    BY <1>1, <2>4, <2>5, <2>6
<1> QED
  BY <1>2, <1>3

\* Settle or ReapExpired on a policy: the row leaves the counter it was in, at its
\* estimate, and enters settled at what is charged.
LEMMA ClosesFlow ==
  ASSUME TypeOK, RowsSound, NEW g \in Groups, NEW p \in Policies, NEW used \in Amounts,
         NEW state, Closes(g, p, state, used)
  PROVE  Flow(g, p)
<1> DEFINE r == reservation[g][p]
           s == reservation'[g][p]
<1>1. /\ r \in Reservations /\ Sound(r) /\ window[p] \in [Windows -> Counters]
      /\ \A d \in Dims : used[d] \in Nat
  BY DEF TypeOK, RowsSound, Amounts
<1>2. r.window \in Windows /\ \A d \in Dims : r.amount[d] \in Nat /\ r.actual[d] \in Nat
  BY <1>1, RowFacts
<1>3. /\ s.state = state /\ s.window = r.window /\ s.amount = r.amount /\ s.actual = used
      /\ s \in Reservations
  BY <1>1 DEF Closes, Reservations, States
<1>4. /\ state \in {"settled", "estimated"} /\ r.state \in {"active", "estimated"}
      /\ r.amount["requests"] = 1 /\ used["requests"] = 1
      /\ state = "estimated" => used = r.amount
      /\ r.state = "estimated" => r.actual = r.amount
  BY <1>1 DEF Closes, Open, Sound
<1>5. Sound(s)
  BY <1>3, <1>4 DEF Sound
<1>6. /\ window'[p] \in [Windows -> Counters]
      /\ \A w \in Windows \ {r.window} : window'[p][w] = window[p][w]
      /\ window'[p][r.window] = SettledWindow(window[p][r.window], r, used)
  <2>1. SettledWindow(window[p][r.window], r, used) \in Counters
    BY <1>1, <1>2, ClosedCounters
  <2>2. window'[p] = [window[p] EXCEPT ![r.window] = SettledWindow(window[p][r.window], r, used)]
    BY DEF Closes
  <2> QED
    BY <1>1, <1>2, <2>1, <2>2
<1>7. ASSUME NEW w \in Windows, NEW d \in Dims
      PROVE  /\ window'[p][w].reserved[d]
                  = window[p][w].reserved[d] + Held(g, p, w, d)' - Held(g, p, w, d)
             /\ window'[p][w].settled[d]
                  = window[p][w].settled[d] + Charged(g, p, w, d)' - Charged(g, p, w, d)
             /\ Used(p, w, d)' <= Used(p, w, d) + Over(g, p, w, d)' - Over(g, p, w, d)
  <2>1. window[p][w].reserved[d] \in Int /\ window[p][w].settled[d] \in Int
    BY Contributions
  <2>2. CASE w # r.window
    <3>1. /\ ~ Here(g, p, w, {"active"}) /\ ~ Here(g, p, w, {"active"})'
          /\ ~ Here(g, p, w, {"settled", "estimated"})
          /\ ~ Here(g, p, w, {"settled", "estimated"})'
          /\ ~ Here(g, p, w, States) /\ ~ Here(g, p, w, States)'
      BY <1>3, <2>2 DEF Here
    <3>2. /\ Held(g, p, w, d) = 0 /\ Held(g, p, w, d)' = 0
          /\ Charged(g, p, w, d) = 0 /\ Charged(g, p, w, d)' = 0
          /\ Over(g, p, w, d) = 0 /\ Over(g, p, w, d)' = 0
      BY <3>1 DEF Held, Charged, Over, Only
    <3>3. window'[p][w] = window[p][w] /\ Used(p, w, d)' = Used(p, w, d)
      BY <1>6, <2>2 DEF Used
    <3>4. Used(p, w, d) \in Int
      BY <2>1 DEF Used
    <3> QED
      BY <2>1, <3>2, <3>3, <3>4
  <2>3. CASE w = r.window
    <3>1. /\ Held(g, p, w, d)' = 0
          /\ Charged(g, p, w, d)' = used[d]
          /\ Held(g, p, w, d) = Only(r.state = "active", r.amount[d])
          /\ Charged(g, p, w, d) = Only(r.state # "active", r.amount[d])
      <4>1. Held(g, p, w, d)' = 0 /\ Charged(g, p, w, d)' = used[d]
        BY <1>3, <1>4, <2>3 DEF Held, Charged, Here, Only
      <4>2. Held(g, p, w, d) = Only(r.state = "active", r.amount[d])
        BY <2>3 DEF Held, Here, Only
      <4>3. Charged(g, p, w, d) = Only(r.state # "active", r.amount[d])
        BY <1>4, <2>3 DEF Charged, Here, Only
      <4> QED
        BY <4>1, <4>2, <4>3
    <3>2. /\ window'[p][w].reserved[d]
               = window[p][w].reserved[d] - Only(r.state = "active", r.amount[d])
          /\ window'[p][w].settled[d]
               = window[p][w].settled[d] + used[d] - Only(r.state # "active", r.amount[d])
      <4> DEFINE c == window[p][r.window]
      <4>1. c \in Counters /\ window'[p][w] = SettledWindow(c, r, used) /\ window[p][w] = c
        BY <1>1, <1>2, <1>6, <2>3
      <4> HIDE DEF c, r, s
      <4>2. /\ SettledWindow(c, r, used).reserved[d]
                 = c.reserved[d] - Only(r.state = "active", r.amount[d])
            /\ SettledWindow(c, r, used).settled[d]
                 = c.settled[d] + used[d] - Only(r.state # "active", r.amount[d])
        BY <1>1, <4>1, ClosedCounters
      <4> QED
        BY <4>1, <4>2
    <3>3. Over(g, p, w, d) = 0 /\ Over(g, p, w, d)' >= used[d] - r.amount[d]
          /\ Over(g, p, w, d)' \in Nat
      <4>1. r.actual[d] <= r.amount[d]
        BY <1>1, <1>4, RowFacts
      <4>2. Overrun(g, p, d) = 0
        BY <1>2, <4>1 DEF Overrun
      <4>3. Overrun(g, p, d)' >= used[d] - r.amount[d] /\ Overrun(g, p, d)' \in Nat
        BY <1>1, <1>2, <1>3 DEF Overrun
      <4>4. Here(g, p, w, States)'
        BY <1>3, <1>4, <2>3 DEF Here, States
      <4> QED
        BY <4>2, <4>3, <4>4 DEF Over, Only
    <3>4. /\ Only(r.state = "active", r.amount[d]) \in Nat
          /\ Only(r.state # "active", r.amount[d]) \in Nat
          /\ Only(r.state = "active", r.amount[d]) + Only(r.state # "active", r.amount[d])
               = r.amount[d]
      <4>1. r.amount[d] \in Nat
        BY <1>2
      <4> HIDE DEF r
      <4> QED
        BY <4>1 DEF Only
    <3> HIDE DEF r
    <3>5. Used(p, w, d)' <= Used(p, w, d) + Over(g, p, w, d)' - Over(g, p, w, d)
      BY <1>1, <1>2, <2>1, <3>2, <3>3, <3>4 DEF Used
    <3> QED
      BY <1>1, <2>1, <3>1, <3>2, <3>4, <3>5
  <2> QED
    BY <2>2, <2>3
<1> QED
  BY <1>3, <1>5, <1>6, <1>7 DEF Flow

-----------------------------------------------------------------------------
\* The rows of g are the only ones that a step may change in a sum over a window.
LEMMA SumFlow ==
  ASSUME NEW g \in Groups, NEW p \in Policies, NEW w \in Windows, NEW d \in Dims,
         TypeOK, reservation' \in [Groups -> [Policies -> Reservations]],
         \A h \in Groups \ {g} : reservation'[h][p] = reservation[h][p]
  PROVE  /\ SumFunctionOnSet(AmountOf(p, d), InWindow(p, w, {"active"}))'
              = SumFunctionOnSet(AmountOf(p, d), InWindow(p, w, {"active"}))
                + Held(g, p, w, d)' - Held(g, p, w, d)
         /\ SumFunctionOnSet(ActualOf(p, d), InWindow(p, w, {"settled", "estimated"}))'
              = SumFunctionOnSet(ActualOf(p, d), InWindow(p, w, {"settled", "estimated"}))
                + Charged(g, p, w, d)' - Charged(g, p, w, d)
         /\ SumFunctionOnSet(OverrunOf(p, d), InWindow(p, w, States))'
              = SumFunctionOnSet(OverrunOf(p, d), InWindow(p, w, States))
                + Over(g, p, w, d)' - Over(g, p, w, d)
         /\ SumFunctionOnSet(OverrunOf(p, d), InWindow(p, w, States)) \in Int
         /\ SumFunctionOnSet(OverrunOf(p, d), InWindow(p, w, States))' \in Nat
<1>1. \A h \in Groups : /\ reservation[h][p] \in Reservations
                        /\ reservation'[h][p] \in Reservations
  BY DEF TypeOK
<1>2. ASSUME NEW states
      PROVE  /\ InWindow(p, w, states) \in SUBSET Groups
             /\ InWindow(p, w, states)' \in SUBSET Groups
             /\ InWindow(p, w, states) \ {g} = InWindow(p, w, states)' \ {g}
             /\ (g \in InWindow(p, w, states)) = Here(g, p, w, states)
             /\ (g \in InWindow(p, w, states)') = Here(g, p, w, states)'
  BY DEF InWindow, Here
<1>3. \A h \in Groups :
        /\ reservation[h][p].amount[d] \in Nat /\ reservation[h][p].actual[d] \in Nat
        /\ reservation'[h][p].amount[d] \in Nat /\ reservation'[h][p].actual[d] \in Nat
  BY <1>1, RowFacts
<1>4. \A h \in Groups :
        /\ AmountOf(p, d)[h] \in Nat /\ AmountOf(p, d)'[h] \in Nat
        /\ ActualOf(p, d)[h] \in Nat /\ ActualOf(p, d)'[h] \in Nat
        /\ h # g => /\ AmountOf(p, d)'[h] = AmountOf(p, d)[h]
                    /\ ActualOf(p, d)'[h] = ActualOf(p, d)[h]
  BY <1>3 DEF AmountOf, ActualOf
<1>5. \A h \in Groups :
        /\ OverrunOf(p, d)[h] \in Nat /\ OverrunOf(p, d)'[h] \in Nat
        /\ h # g => OverrunOf(p, d)'[h] = OverrunOf(p, d)[h]
  <2>1. \A h \in Groups : /\ Overrun(h, p, d) \in Nat /\ Overrun(h, p, d)' \in Nat
                          /\ h # g => Overrun(h, p, d)' = Overrun(h, p, d)
    BY <1>3 DEF Overrun
  <2> QED
    BY <2>1 DEF OverrunOf
<1>6. /\ AmountOf(p, d)[g] = reservation[g][p].amount[d]
      /\ AmountOf(p, d)'[g] = reservation'[g][p].amount[d]
      /\ ActualOf(p, d)[g] = reservation[g][p].actual[d]
      /\ ActualOf(p, d)'[g] = reservation'[g][p].actual[d]
      /\ OverrunOf(p, d)[g] = Overrun(g, p, d)
      /\ OverrunOf(p, d)'[g] = Overrun(g, p, d)'
  BY DEF AmountOf, ActualOf, OverrunOf
<1>7. IsFiniteSet(Groups) /\ \A n \in Nat : n \in Int
  BY QuotaAssumption
<1>8. ASSUME NEW states, NEW f, NEW e,
             \A h \in Groups : f[h] \in Int /\ e[h] \in Int,
             \A h \in Groups \ {g} : e[h] = f[h]
      PROVE  /\ SumFunctionOnSet(f, InWindow(p, w, states)) \in Int
             /\ SumFunctionOnSet(e, InWindow(p, w, states)')
                  = SumFunctionOnSet(f, InWindow(p, w, states))
                    + Only(Here(g, p, w, states)', e[g]) - Only(Here(g, p, w, states), f[g])
  <2> DEFINE A == InWindow(p, w, states)
             B == InWindow(p, w, states)'
  <2>1. /\ A \in SUBSET Groups /\ B \in SUBSET Groups /\ A \ {g} = B \ {g}
        /\ Here(g, p, w, states) = (g \in A) /\ Here(g, p, w, states)' = (g \in B)
    BY <1>2
  <2> HIDE DEF A, B
  <2>2. /\ SumFunctionOnSet(f, A) \in Int
        /\ SumFunctionOnSet(e, B)
             = SumFunctionOnSet(f, A) + Only(g \in B, e[g]) - Only(g \in A, f[g])
    BY <1>7, <1>8, <2>1, SumChange
  <2> QED
    BY <2>1, <2>2 DEF A, B
<1>9. SumFunctionOnSet(AmountOf(p, d), InWindow(p, w, {"active"}))'
        = SumFunctionOnSet(AmountOf(p, d), InWindow(p, w, {"active"}))
          + Held(g, p, w, d)' - Held(g, p, w, d)
  <2> DEFINE f == AmountOf(p, d)
             e == AmountOf(p, d)'
  <2>1. /\ \A h \in Groups : f[h] \in Int /\ e[h] \in Int
        /\ \A h \in Groups \ {g} : e[h] = f[h]
    BY <1>4, <1>7
  <2>2. f[g] = reservation[g][p].amount[d] /\ e[g] = reservation'[g][p].amount[d]
    BY <1>6
  <2> HIDE DEF f, e
  <2>3. SumFunctionOnSet(e, InWindow(p, w, {"active"})')
          = SumFunctionOnSet(f, InWindow(p, w, {"active"}))
            + Only(Here(g, p, w, {"active"})', e[g])
            - Only(Here(g, p, w, {"active"}), f[g])
    BY <1>8, <2>1
  <2> QED
    BY <2>2, <2>3 DEF Held, f, e
<1>10. SumFunctionOnSet(ActualOf(p, d), InWindow(p, w, {"settled", "estimated"}))'
        = SumFunctionOnSet(ActualOf(p, d), InWindow(p, w, {"settled", "estimated"}))
          + Charged(g, p, w, d)' - Charged(g, p, w, d)
  <2> DEFINE f == ActualOf(p, d)
             e == ActualOf(p, d)'
  <2>1. /\ \A h \in Groups : f[h] \in Int /\ e[h] \in Int
        /\ \A h \in Groups \ {g} : e[h] = f[h]
    BY <1>4, <1>7
  <2>2. f[g] = reservation[g][p].actual[d] /\ e[g] = reservation'[g][p].actual[d]
    BY <1>6
  <2> HIDE DEF f, e
  <2>3. SumFunctionOnSet(e, InWindow(p, w, {"settled", "estimated"})')
          = SumFunctionOnSet(f, InWindow(p, w, {"settled", "estimated"}))
            + Only(Here(g, p, w, {"settled", "estimated"})', e[g])
            - Only(Here(g, p, w, {"settled", "estimated"}), f[g])
    BY <1>8, <2>1
  <2> QED
    BY <2>2, <2>3 DEF Charged, f, e
<1>11. /\ SumFunctionOnSet(OverrunOf(p, d), InWindow(p, w, States)) \in Int
       /\ SumFunctionOnSet(OverrunOf(p, d), InWindow(p, w, States))'
            = SumFunctionOnSet(OverrunOf(p, d), InWindow(p, w, States))
              + Over(g, p, w, d)' - Over(g, p, w, d)
  <2> DEFINE f == OverrunOf(p, d)
             e == OverrunOf(p, d)'
  <2>1. /\ \A h \in Groups : f[h] \in Int /\ e[h] \in Int
        /\ \A h \in Groups \ {g} : e[h] = f[h]
    BY <1>5, <1>7
  <2>2. f[g] = Overrun(g, p, d) /\ e[g] = Overrun(g, p, d)'
    BY <1>6
  <2> HIDE DEF f, e
  <2>3. /\ SumFunctionOnSet(f, InWindow(p, w, States)) \in Int
        /\ SumFunctionOnSet(e, InWindow(p, w, States)')
             = SumFunctionOnSet(f, InWindow(p, w, States))
               + Only(Here(g, p, w, States)', e[g]) - Only(Here(g, p, w, States), f[g])
    BY <1>8, <2>1
  <2> QED
    BY <2>2, <2>3 DEF Over, f, e
<1>12. SumFunctionOnSet(OverrunOf(p, d), InWindow(p, w, States))' \in Nat
  <2>1. IsFiniteSet(InWindow(p, w, States)') /\ InWindow(p, w, States)' \subseteq Groups
    BY <1>2, <1>7, FS_Subset
  <2> QED
    BY <1>5, <2>1, SumTyped
<1> QED
  BY <1>9, <1>10, <1>11, <1>12

\* A step of one group that flows on every policy keeps the invariant.
LEMMA FlowStep ==
  ASSUME QuotaInv, NEW g \in Groups,
         enabled' \subseteq Policies, period' \in [Policies -> Windows],
         expired' \subseteq Groups, phase' \in [Groups -> Phases],
         window' = [p \in Policies |-> window'[p]],
         reservation' = [h \in Groups |-> [p \in Policies |-> reservation'[h][p]]],
         \A h \in Groups : phase'[h] = "new" => phase[h] = "new" /\ h # g,
         \A h \in Groups \ {g}, p \in Policies : reservation'[h][p] = reservation[h][p],
         \A p \in Policies : Flow(g, p)
  PROVE  QuotaInv'
<1>1. \A h \in Groups, p \in Policies :
        /\ reservation'[h][p] \in Reservations
        /\ Sound(reservation'[h][p])
  BY DEF Flow, QuotaInv, TypeOK, RowsSound
<1>2. reservation' \in [Groups -> [Policies -> Reservations]]
  BY <1>1
<1>3. window' \in [Policies -> [Windows -> Counters]]
  BY DEF Flow
<1>4. TypeOK' /\ RowsSound'
  BY <1>1, <1>2, <1>3 DEF TypeOK, RowsSound
<1>5. NewHasNoRow'
  BY DEF NewHasNoRow, QuotaInv
<1>6. ASSUME NEW p \in Policies, NEW w \in Windows, NEW d \in Dims
      PROVE  /\ window'[p][w].reserved[d] =
                  SumFunctionOnSet(AmountOf(p, d), InWindow(p, w, {"active"}))'
             /\ window'[p][w].settled[d] =
                  SumFunctionOnSet(ActualOf(p, d), InWindow(p, w, {"settled", "estimated"}))'
  <2>1. /\ window'[p][w].reserved[d]
             = window[p][w].reserved[d] + Held(g, p, w, d)' - Held(g, p, w, d)
        /\ window'[p][w].settled[d]
             = window[p][w].settled[d] + Charged(g, p, w, d)' - Charged(g, p, w, d)
    BY DEF Flow
  <2>2. /\ window[p][w].reserved[d] =
             SumFunctionOnSet(AmountOf(p, d), InWindow(p, w, {"active"}))
        /\ window[p][w].settled[d] =
             SumFunctionOnSet(ActualOf(p, d), InWindow(p, w, {"settled", "estimated"}))
    BY DEF QuotaInv, LedgerBalances
  <2>3. TypeOK
    BY DEF QuotaInv
  <2> QED
    BY <1>2, <2>1, <2>2, <2>3, SumFlow
<1>7. LedgerBalances'
  BY <1>6 DEF LedgerBalances
<1>8. ASSUME NEW p \in Policies, NEW w \in Windows, NEW d \in Dims,
             Overage[p] = "deny", Limit[p][d] # NoLimit
      PROVE  Used(p, w, d)'
               <= Limit[p][d] + SumFunctionOnSet(OverrunOf(p, d), InWindow(p, w, States))'
  <2> DEFINE old == SumFunctionOnSet(OverrunOf(p, d), InWindow(p, w, States))
             new == SumFunctionOnSet(OverrunOf(p, d), InWindow(p, w, States))'
  <2>1. TypeOK
    BY DEF QuotaInv
  <2>2. old \in Int /\ new \in Nat /\ new = old + Over(g, p, w, d)' - Over(g, p, w, d)
    BY <1>2, <2>1, SumFlow
  <2>3. Used(p, w, d) <= Limit[p][d] + old
    BY <1>8 DEF QuotaInv, LimitsRespected
  <2>4. \/ Used(p, w, d)' <= Used(p, w, d) + Over(g, p, w, d)' - Over(g, p, w, d)
        \/ Used(p, w, d)' <= Limit[p][d]
    BY <1>8 DEF Flow
  <2>5. Used(p, w, d) \in Int /\ Used(p, w, d)' \in Int
    BY <1>4, <2>1, Contributions DEF Used, TypeOK, Counters
  <2>6. Over(g, p, w, d) \in Nat /\ Over(g, p, w, d)' \in Int /\ Limit[p][d] \in Nat
    <3>1. Overrun(g, p, d)' \in Nat
      <4>1. reservation'[g][p].amount[d] \in Nat /\ reservation'[g][p].actual[d] \in Nat
        BY <1>1, RowFacts
      <4> QED
        BY <4>1 DEF Overrun
    <3> QED
      BY <1>8, <2>1, <3>1, Contributions, QuotaAssumption DEF Over, Only
  <2> HIDE DEF old, new
  <2>7. Used(p, w, d)' <= Limit[p][d] + new
    BY <2>2, <2>3, <2>4, <2>5, <2>6
  <2> QED
    BY <2>7 DEF new
<1>9. LimitsRespected'
  BY <1>8 DEF LimitsRespected
<1> QED
  BY <1>4, <1>5, <1>7, <1>9 DEF QuotaInv

-----------------------------------------------------------------------------
\* There are no reservations and all counters are zero.
LEMMA InitInv == Init => QuotaInv
<1> SUFFICES ASSUME Init PROVE QuotaInv
  OBVIOUS
<1>0. Zero \in Amounts /\ Zero \in [Dims -> Int] /\ \A d \in Dims : Zero[d] = 0
  BY DEF Zero, Amounts
<1>1. TypeOK
  BY <1>0, QuotaAssumption
  DEF Init, TypeOK, Windows, Counters, Reservations, NoReservation, States, Phases
<1>2. RowsSound /\ NewHasNoRow
  BY DEF Init, RowsSound, Sound, NewHasNoRow, NoReservation
<1>3. \A p \in Policies, w \in Windows, d \in Dims :
        window[p][w].reserved[d] = 0 /\ window[p][w].settled[d] = 0
  BY <1>0 DEF Init
<1>4. \A p \in Policies, w \in Windows :
        InWindow(p, w, {"active"}) = {} /\ InWindow(p, w, {"settled", "estimated"}) = {}
  BY DEF Init, InWindow, NoReservation
<1>5. LedgerBalances
  BY <1>3, <1>4, SumEmpty DEF LedgerBalances
<1>6. LimitsRespected
  <2> SUFFICES ASSUME NEW p \in Policies, NEW w \in Windows, NEW d \in Dims,
                      Limit[p][d] # NoLimit
               PROVE  Used(p, w, d) <= Limit[p][d]
                        + SumFunctionOnSet(OverrunOf(p, d), InWindow(p, w, States))
    BY DEF LimitsRespected
  <2>1. Used(p, w, d) = 0 /\ Limit[p][d] \in Nat
    BY <1>3, QuotaAssumption DEF Used
  <2>2. IsFiniteSet(InWindow(p, w, States)) /\ InWindow(p, w, States) \subseteq Groups
    BY QuotaAssumption, FS_Subset DEF InWindow
  <2>3. \A h \in Groups : OverrunOf(p, d)[h] \in Nat
    BY <1>1, Contributions DEF OverrunOf
  <2>4. SumFunctionOnSet(OverrunOf(p, d), InWindow(p, w, States)) \in Nat
    BY <2>2, <2>3, SumTyped
  <2> QED
    BY <2>1, <2>4
<1> QED
  BY <1>1, <1>2, <1>5, <1>6 DEF QuotaInv

\* Reserve opens a row under every enabled policy.
LEMMA ReserveInv ==
  ASSUME QuotaInv, NEW g \in Groups, NEW estimate \in Estimates, Reserve(g, estimate)
  PROVE  QuotaInv'
<1>0. TypeOK /\ RowsSound
  BY DEF QuotaInv
<1>1. /\ \A h \in Groups \ {g}, p \in Policies : reservation'[h][p] = reservation[h][p]
      /\ \A p \in Policies : reservation'[g][p] =
           IF p \in enabled
             THEN [state |-> "active", window |-> period[p],
                   amount |-> Amount(p, estimate), actual |-> Zero]
             ELSE NoReservation
      /\ reservation' = [h \in Groups |-> [p \in Policies |-> reservation'[h][p]]]
      /\ window' = [p \in Policies |-> window'[p]]
  BY <1>0 DEF Reserve, TypeOK
<1>2. ASSUME NEW p \in Policies PROVE Flow(g, p)
  <2>1. reservation[g][p].state = "none" /\ reservation[g][p] = NoReservation
    BY <1>0 DEF Reserve, QuotaInv, NewHasNoRow, RowsSound, Sound
  <2>2. CASE p \in enabled
    <3>1. Amount(p, estimate) \in Amounts /\ Amount(p, estimate)["requests"] = 1
      BY AmountFacts
    <3>2. ~ (Overage[p] = "deny" /\ exceeds(p, Amount(p, estimate)))
      BY <2>2 DEF Reserve, Refuses
    <3>3. window'[p] = [window[p] EXCEPT ![period[p]].reserved = Plus(@, Amount(p, estimate))]
      BY <2>2 DEF Reserve
    <3>4. Opens(g, p, Amount(p, estimate))
      BY <1>1, <2>1, <2>2, <3>1, <3>2, <3>3 DEF Opens
    <3> QED
      BY <1>0, <3>1, <3>4, OpensFlow
  <2>3. CASE p \notin enabled
    <3>1. Stays(g, p)
      BY <1>1, <2>1, <2>3 DEF Reserve, Stays
    <3> QED
      BY <1>0, <3>1, StaysFlow
  <2> QED
    BY <2>2, <2>3
<1>3. \A h \in Groups : phase'[h] = "new" => phase[h] = "new" /\ h # g
  BY <1>0 DEF Reserve, TypeOK
<1>4. /\ enabled' \subseteq Policies /\ period' \in [Policies -> Windows]
      /\ expired' \subseteq Groups /\ phase' \in [Groups -> Phases]
  BY <1>0 DEF Reserve, TypeOK, Phases
<1> QED
  BY <1>1, <1>2, <1>3, <1>4, FlowStep

\* Settle closes every open row of its group.
LEMMA SettleInv ==
  ASSUME QuotaInv, NEW g \in Groups, NEW event \in Events, Settle(g, event)
  PROVE  QuotaInv'
<1> DEFINE used(p) == actual(event, reservation[g][p].amount)
<1>0. TypeOK /\ RowsSound
  BY DEF QuotaInv
<1>1. /\ \A h \in Groups \ {g}, p \in Policies : reservation'[h][p] = reservation[h][p]
      /\ \A p \in Policies : reservation'[g][p] =
           IF Open(reservation[g][p])
             THEN [reservation[g][p] EXCEPT !.state = "settled", !.actual = used(p)]
             ELSE reservation[g][p]
      /\ reservation' = [h \in Groups |-> [p \in Policies |-> reservation'[h][p]]]
      /\ window' = [p \in Policies |-> window'[p]]
  BY <1>0, Zenon DEF Settle, TypeOK
<1>2. ASSUME NEW p \in Policies PROVE Flow(g, p)
  <2>1. used(p) \in Amounts /\ used(p)["requests"] = 1
    <3>1. reservation[g][p].amount \in Amounts
      BY <1>0 DEF TypeOK, Reservations
    <3> QED
      BY <3>1, ActualFacts
  <2>2. CASE Open(reservation[g][p])
    <3>1. window'[p] = [window[p] EXCEPT ![reservation[g][p].window] =
                          SettledWindow(@, reservation[g][p], used(p))]
      BY <2>2, Zenon DEF Settle
    <3>2. Closes(g, p, "settled", used(p))
      BY <1>1, <2>1, <2>2, <3>1, Zenon DEF Closes
    <3> HIDE DEF used
    <3> QED
      BY <1>0, <2>1, <3>2, ClosesFlow
  <2>3. CASE ~ Open(reservation[g][p])
    <3>1. Stays(g, p)
      BY <1>1, <2>3, Zenon DEF Settle, Stays
    <3> QED
      BY <1>0, <3>1, StaysFlow
  <2> QED
    BY <2>2, <2>3
<1>3. \A h \in Groups : phase'[h] = "new" => phase[h] = "new" /\ h # g
  BY <1>0, Zenon DEF Settle, TypeOK
<1>4. /\ enabled' \subseteq Policies /\ period' \in [Policies -> Windows]
      /\ expired' \subseteq Groups /\ phase' \in [Groups -> Phases]
  BY <1>0, Zenon DEF Settle, TypeOK, Phases
<1> QED
  BY <1>1, <1>2, <1>3, <1>4, FlowStep, Zenon

\* ReapExpired closes one row at its estimate.
LEMMA ReapInv ==
  ASSUME QuotaInv, NEW g \in Groups, NEW q \in Policies, ReapExpired(g, q)
  PROVE  QuotaInv'
<1> DEFINE r == reservation[g][q]
<1>0. TypeOK /\ RowsSound
  BY DEF QuotaInv
<1>1. /\ r \in Reservations /\ r.amount \in Amounts /\ r.window \in Windows
      /\ r.state = "active" /\ Open(r) /\ r.amount["requests"] = 1
  BY <1>0 DEF ReapExpired, Expired, Open, TypeOK, Reservations, RowsSound, Sound
<1>2. /\ \A h \in Groups \ {g}, p \in Policies : reservation'[h][p] = reservation[h][p]
      /\ \A p \in Policies \ {q} : Stays(g, p)
      /\ reservation'[g][q] = [r EXCEPT !.state = "estimated", !.actual = r.amount]
      /\ window'[q] = [window[q] EXCEPT ![r.window] = ReapedWindow(@, r)]
      /\ reservation' = [h \in Groups |-> [p \in Policies |-> reservation'[h][p]]]
      /\ window' = [p \in Policies |-> window'[p]]
  BY <1>0, <1>1 DEF ReapExpired, Stays, TypeOK
<1>3. ReapedWindow(window[q][r.window], r) = SettledWindow(window[q][r.window], r, r.amount)
  BY <1>1 DEF ReapedWindow, SettledWindow
<1>4. Closes(g, q, "estimated", r.amount)
  BY <1>1, <1>2, <1>3 DEF Closes
<1>5. \A p \in Policies : Flow(g, p)
  <2>1. Flow(g, q)
    BY <1>0, <1>1, <1>4, ClosesFlow
  <2>2. \A p \in Policies \ {q} : Flow(g, p)
    BY <1>0, <1>2, StaysFlow
  <2> QED
    BY <2>1, <2>2
<1>6. \A h \in Groups : phase'[h] = "new" => phase[h] = "new" /\ h # g
  BY <1>1 DEF ReapExpired, QuotaInv, NewHasNoRow
<1>7. /\ enabled' \subseteq Policies /\ period' \in [Policies -> Windows]
      /\ expired' \subseteq Groups /\ phase' \in [Groups -> Phases]
  BY <1>0 DEF ReapExpired, TypeOK
<1> QED
  BY <1>2, <1>5, <1>6, <1>7, FlowStep

\* The other steps touch neither windows nor reservations.
LEMMA OthersInv ==
  ASSUME QuotaInv,
         \/ \E g \in Groups, estimate \in Estimates : ReserveRefused(g, estimate)
         \/ \E g \in Groups : ReserveSkipped(g) \/ SettleLost(g) \/ Expire(g)
         \/ \E p \in Policies : NextPeriod(p) \/ Toggle(p)
         \/ UNCHANGED quotaVars
  PROVE  QuotaInv'
<1>1. UNCHANGED <<window, reservation>>
  BY DEF ReserveRefused, ReserveSkipped, SettleLost, Expire, NextPeriod, Toggle, quotaVars
<1>2. \A h \in Groups : phase'[h] = "new" => phase[h] = "new"
  BY DEF ReserveRefused, ReserveSkipped, SettleLost, Expire, NextPeriod, Toggle, quotaVars, QuotaInv, TypeOK
<1>3. enabled' \subseteq Policies /\ expired' \subseteq Groups /\ phase' \in [Groups -> Phases]
  BY DEF ReserveRefused, ReserveSkipped, SettleLost, Expire, NextPeriod, Toggle, quotaVars, QuotaInv, TypeOK, Phases
<1>4. period' \in [Policies -> Windows]
  <2>1. period \in [Policies -> Windows]
    BY DEF QuotaInv, TypeOK
  <2>2. CASE \E p \in Policies : NextPeriod(p)
    <3>1. PICK p \in Policies : NextPeriod(p)
      BY <2>2
    <3>2. period[p] + 1 \in Windows
      BY <2>1, <3>1, QuotaAssumption DEF NextPeriod, Windows
    <3> QED
      BY <2>1, <3>1, <3>2 DEF NextPeriod
  <2>3. CASE UNCHANGED period
    BY <2>1, <2>3
  <2> QED
    BY <2>2, <2>3 DEF ReserveRefused, ReserveSkipped, SettleLost, Expire, Toggle, quotaVars
<1>5. TypeOK'
  BY <1>1, <1>3, <1>4 DEF QuotaInv, TypeOK
<1>6. RowsSound' /\ NewHasNoRow'
  BY <1>1, <1>2 DEF QuotaInv, RowsSound, NewHasNoRow
<1>7. \A p, w, d, states :
        /\ InWindow(p, w, states)' = InWindow(p, w, states)
        /\ AmountOf(p, d)' = AmountOf(p, d)
        /\ ActualOf(p, d)' = ActualOf(p, d)
        /\ OverrunOf(p, d)' = OverrunOf(p, d)
        /\ Used(p, w, d)' = Used(p, w, d)
  BY <1>1 DEF InWindow, AmountOf, ActualOf, OverrunOf, Overrun, Used
<1>8. LedgerBalances'
  <2> SUFFICES ASSUME NEW p \in Policies, NEW w \in Windows, NEW d \in Dims
               PROVE  /\ window'[p][w].reserved[d] =
                           SumFunctionOnSet(AmountOf(p, d)', InWindow(p, w, {"active"})')
                      /\ window'[p][w].settled[d] =
                           SumFunctionOnSet(ActualOf(p, d)',
                                            InWindow(p, w, {"settled", "estimated"})')
    BY ZenonT(30) DEF LedgerBalances
  <2>1. /\ window[p][w].reserved[d] =
             SumFunctionOnSet(AmountOf(p, d), InWindow(p, w, {"active"}))
        /\ window[p][w].settled[d] =
             SumFunctionOnSet(ActualOf(p, d), InWindow(p, w, {"settled", "estimated"}))
    BY DEF QuotaInv, LedgerBalances
  <2> QED
    BY <1>1, <1>7, <2>1, Zenon
<1>9. LimitsRespected'
  BY <1>7, Zenon DEF QuotaInv, LimitsRespected
<1> QED
  BY <1>5, <1>6, <1>8, <1>9 DEF QuotaInv

\* The inductive invariant holds in every behaviour of the ledger.
THEOREM LedgerInvariance == Spec => []QuotaInv
<1>1. ASSUME QuotaInv, [Next]_quotaVars
      PROVE  QuotaInv'
  <2>1. ASSUME NEW g \in Groups, NEW estimate \in Estimates, Reserve(g, estimate)
        PROVE  QuotaInv'
    BY <1>1, <2>1, ReserveInv
  <2>2. ASSUME NEW g \in Groups, NEW event \in Events, Settle(g, event)
        PROVE  QuotaInv'
    BY <1>1, <2>2, SettleInv
  <2>3. ASSUME NEW g \in Groups, NEW p \in Policies, ReapExpired(g, p)
        PROVE  QuotaInv'
    BY <1>1, <2>3, ReapInv
  <2> QED
    BY <1>1, <2>1, <2>2, <2>3, OthersInv DEF Next
<1> QED
  BY <1>1, InitInv, PTL DEF Spec

-----------------------------------------------------------------------------
\* The counters of every window are the sums of its rows, in requests, tokens and
\* cost: no order of Reserve, Settle, a lost settlement and the reaper charges a
\* request twice or loses a charge.
THEOREM LedgerIsBalanced == Spec => []LedgerBalances
<1>1. QuotaInv => LedgerBalances
  BY DEF QuotaInv
<1> QED
  BY <1>1, LedgerInvariance, PTL

\* A policy that denies is exceeded in tokens or cost at most by what requests used
\* beyond their own estimates, since Reserve counts what is reserved.
THEOREM OverrunBounded == Spec => []OverrunIsUsersOwn
<1>1. QuotaInv => OverrunIsUsersOwn
  BY DEF QuotaInv, LimitsRespected, OverrunIsUsersOwn, Used, Dims
<1> QED
  BY <1>1, LedgerInvariance, PTL

\* A policy that denies never has more requests counted in a window than its limit,
\* whatever the order of Reserve, Settle and ReapExpired: no row counts more
\* requests than the one it reserved.
THEOREM RequestLimit == Spec => []RequestLimitHolds
<1>1. ASSUME QuotaInv PROVE RequestLimitHolds
  <2> SUFFICES ASSUME NEW p \in Policies, NEW w \in Windows,
                      Overage[p] = "deny", Limit[p]["requests"] # NoLimit
               PROVE  Used(p, w, "requests") <= Limit[p]["requests"]
    BY DEF RequestLimitHolds, Used
  <2> DEFINE d == "requests"
             S == InWindow(p, w, States)
  <2>1. d \in Dims /\ Limit[p][d] \in Nat
    BY QuotaAssumption DEF Dims
  <2>2. \A h \in Groups : OverrunOf(p, d)[h] = 0
    <3> TAKE h \in Groups
    <3>1. reservation[h][p] \in Reservations /\ Sound(reservation[h][p])
      BY <1>1 DEF QuotaInv, TypeOK, RowsSound
    <3>2. /\ reservation[h][p].amount[d] \in Nat /\ reservation[h][p].actual[d] \in Nat
          /\ reservation[h][p].actual[d] <= reservation[h][p].amount[d]
      <4>1. CASE reservation[h][p].state = "settled"
        BY <3>1, <4>1 DEF Sound
      <4>2. CASE reservation[h][p].state # "settled"
        BY <2>1, <3>1, <4>2, RowFacts
      <4> QED
        BY <4>1, <4>2
    <3> QED
      BY <3>2 DEF OverrunOf, Overrun
  <2>3. IsFiniteSet(S) /\ S \subseteq Groups
    BY QuotaAssumption, FS_Subset DEF InWindow
  <2>4. SumFunctionOnSet(OverrunOf(p, d), S) \in {0}
    <3>1. 0 \in {0} /\ (\A v, x \in {0} : v + x \in {0}) /\ \A h \in S : OverrunOf(p, d)[h] \in {0}
      BY <2>2, <2>3
    <3> HIDE DEF S
    <3> QED
      BY <2>3, <3>1, SumIn
  <2>5. Used(p, w, d) <= Limit[p][d] + SumFunctionOnSet(OverrunOf(p, d), S)
    BY <1>1, <2>1 DEF QuotaInv, LimitsRespected
  <2> QED
    BY <2>1, <2>4, <2>5
<1> QED
  BY <1>1, LedgerInvariance, PTL
=============================================================================
