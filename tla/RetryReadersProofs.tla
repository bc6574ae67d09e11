------------------------- MODULE RetryReadersProofs -------------------------
(***************************************************************************)
(* Proofs about the reads: that the metrics are those of sound records and *)
(* that the two reports agree, for every set of transactions in the store, *)
(* and that the answers put together from several reads agree although     *)
(* chains and reports go on between them.                                  *)
(***************************************************************************)
EXTENDS RetryReaders, RetryLedgerProofs

-----------------------------------------------------------------------------
(* The metrics of any set of sound records *)

Sound(txns) ==
  /\ IsFiniteSet(DOMAIN txns)
  /\ \A i \in DOMAIN txns : /\ txns[i] \in Transactions
                            /\ RecordOK(txns[i], txns[i].event.id)
                            /\ PaidOK(txns[i])

LEMMA SumFinite == IsFiniteSet(Codes) /\ IsFiniteSet(Processors)
<1>1. ProcessorOrder \in Seq(Processors)
  BY ConstantTypes
<1>2. Len(ProcessorOrder) \in Nat /\ DOMAIN ProcessorOrder = 1..Len(ProcessorOrder)
  BY <1>1
<1>3. IsFiniteSet(DOMAIN ProcessorOrder)
  BY <1>2, FS_Interval
<1>4. ProcessorOrder \in [DOMAIN ProcessorOrder -> Processors]
  BY <1>1
<1>5. \A p \in Processors : \E i \in DOMAIN ProcessorOrder : ProcessorOrder[i] = p
  BY DEF Processors
<1>6. ProcessorOrder \in Surjection(DOMAIN ProcessorOrder, Processors)
  BY <1>4, <1>5 DEF Surjection
<1> QED BY <1>3, <1>6, FS_Surjection, MetricsAssumption

(* Only soft declines recover or are exhausted. *)
LEMMA SoftEnds ==
  ASSUME NEW txns, Sound(txns), NEW i \in DOMAIN txns,
         txns[i].status \in {"RECOVERED", "EXHAUSTED"}
  PROVE  ~IsHard(txns[i].event.code)
BY DEF Sound, RecordOK

LEMMA RatesBounded ==
  ASSUME NEW txns, Sound(txns)
  PROVE  LET m == RecoveryMetrics(txns)
         IN  /\ m.recovered + m.exhausted <= m.soft
             /\ m.rescued <= m.atRisk
             /\ m.hard + m.soft = SumFunction(m.breakdown)
<1> DEFINE all          == DOMAIN txns
           hard         == {i \in all : IsHard(txns[i].event.code)}
           soft         == all \ hard
           With(status) == {i \in all : txns[i].status = status}
           amounts      == [i \in all |-> Amount[txns[i].event.id]]
           breakdown    == [code \in Codes |-> Cardinality({i \in all : txns[i].event.code = code})]
           key          == [i \in all |-> txns[i].event.code]
           m            == RecoveryMetrics(txns)
<1>1. /\ m.recovered = Cardinality(With("RECOVERED"))
      /\ m.exhausted = Cardinality(With("EXHAUSTED"))
      /\ m.hard = Cardinality(hard) /\ m.soft = Cardinality(soft)
      /\ m.rescued = SumFunctionOnSet(amounts, With("RECOVERED"))
      /\ m.atRisk = SumFunctionOnSet(amounts, soft)
      /\ m.breakdown = breakdown
  BY DEF RecoveryMetrics
<1>2. With("RECOVERED") \in SUBSET soft /\ With("EXHAUSTED") \in SUBSET soft
      /\ With("RECOVERED") \cap With("EXHAUSTED") = {}
  BY SoftEnds
<1>3. IsFiniteSet(all)
  BY DEF Sound
<1>4. IsFiniteSet(soft) /\ IsFiniteSet(hard) /\ hard \cap soft = {} /\ hard \cup soft = all
  <2>1. soft \in SUBSET all /\ hard \in SUBSET all
    OBVIOUS
  <2> QED BY <1>3, <2>1, FS_Subset
<1>5. \A i \in all : amounts[i] \in Nat
  <2>1. \A i \in all : txns[i].event.id \in TxnIds
    BY TransactionType DEF Sound
  <2> QED BY <2>1, MetricsAssumption
<1>6. \A i \in all : key[i] \in Codes
  BY TransactionType DEF Sound
<1>7. \A code \in Codes : breakdown[code] = Cardinality(Fibre(all, key, code))
  BY DEF Fibre
<1>8. DOMAIN breakdown = Codes
  OBVIOUS
<1> HIDE DEF m, soft, hard, With, amounts, breakdown, key
<1>9. m.recovered + m.exhausted <= m.soft
  <2> DEFINE ended == With("RECOVERED") \cup With("EXHAUSTED")
  <2>1. IsFiniteSet(With("RECOVERED")) /\ IsFiniteSet(With("EXHAUSTED"))
    BY <1>2, <1>4, FS_Subset
  <2>2. Cardinality(With("RECOVERED")) \in Nat /\ Cardinality(With("EXHAUSTED")) \in Nat
    BY <2>1, FS_CardinalityType
  <2>3. Cardinality(ended) = Cardinality(With("RECOVERED")) + Cardinality(With("EXHAUSTED"))
    BY <1>2, <2>1, <2>2, FS_Union, FS_EmptySet
  <2>4. ended \in SUBSET soft
    BY <1>2
  <2>5. Cardinality(ended) <= Cardinality(soft)
    BY <1>4, <2>4, FS_Subset
  <2> HIDE DEF ended
  <2> QED BY <1>1, <2>3, <2>5
<1>10. m.rescued <= m.atRisk
  <2>1. \A i \in soft : amounts[i] \in Nat
    BY <1>4, <1>5
  <2> QED BY <1>1, <1>2, <1>4, <2>1, SumSubset
<1>11. m.hard + m.soft = SumFunction(m.breakdown)
  <2>1. SumFunctionOnSet(breakdown, Codes) = Cardinality(all)
    BY <1>3, <1>6, <1>7, SumFinite, CardinalityFibres
  <2>2. Cardinality(hard) \in Nat /\ Cardinality(soft) \in Nat
    BY <1>4, FS_CardinalityType
  <2>3. Cardinality(hard \cup soft) = Cardinality(hard) + Cardinality(soft)
    BY <1>4, <2>2, FS_Union, FS_EmptySet
  <2> QED BY <1>1, <1>4, <1>8, <2>1, <2>3 DEF SumFunction
<1> QED BY <1>9, <1>10, <1>11 DEF m

(* The attempts of the records: x is the x[2]-th of the x[1]-th record. *)
OfRecord(txns, x) == txns[x[1]].attempts[x[2]]

LEMMA MadeOf ==
  ASSUME NEW txns, Sound(txns), NEW i \in DOMAIN txns
  PROVE  LET n == Len(txns[i].attempts)
         IN  /\ n \in 0..MaxRetries /\ DOMAIN txns[i].attempts = 1..n
             /\ \A j \in 1..n : /\ txns[i].attempts[j] \in Attempts
                                /\ txns[i].attempts[j].success => j = n /\ txns[i].status = "RECOVERED"
<1>1. txns[i] \in Transactions /\ WholeChain(txns[i])
  BY DEF Sound, RecordOK
<1>2. /\ txns[i].attempts \in Seq(Attempts) /\ txns[i].retryCount \in 0..MaxRetries
      /\ txns[i].status \in Statuses
  BY <1>1, TransactionType
<1>3. MaxRetries \in Nat
  BY ConstantTypes
<1> QED BY <1>1, <1>2, <1>3 DEF WholeChain, Statuses

LEMMA MadeSet ==
  ASSUME NEW txns, Sound(txns)
  PROVE  /\ IsFiniteSet(AttemptsMade(txns))
         /\ \A x \in AttemptsMade(txns) :
              /\ x[1] \in DOMAIN txns /\ x[2] \in 1..Len(txns[x[1]].attempts)
              /\ x = <<x[1], x[2]>> /\ OfRecord(txns, x) \in Attempts
         /\ \A i \in DOMAIN txns : \A j \in 1..Len(txns[i].attempts) :
              <<i, j>> \in AttemptsMade(txns)
<1> DEFINE Of(i) == {i} \X DOMAIN txns[i].attempts
<1>1. AttemptsMade(txns) = UNION {Of(i) : i \in DOMAIN txns}
  BY DEF AttemptsMade
<1>2. \A x : x \in AttemptsMade(txns) <=> \E i \in DOMAIN txns : x \in Of(i)
  BY <1>1
<1>3. ASSUME NEW x \in AttemptsMade(txns)
      PROVE  /\ x[1] \in DOMAIN txns /\ x[2] \in 1..Len(txns[x[1]].attempts)
             /\ x = <<x[1], x[2]>> /\ OfRecord(txns, x) \in Attempts
             /\ x[2] \in 1..MaxRetries
  <2>1. PICK i \in DOMAIN txns : x \in Of(i)
    BY <1>2, <1>3
  <2>2. DOMAIN txns[i].attempts = 1..Len(txns[i].attempts)
        /\ Len(txns[i].attempts) \in 0..MaxRetries
        /\ (\A j \in 1..Len(txns[i].attempts) : txns[i].attempts[j] \in Attempts)
    BY MadeOf
  <2>3. x = <<x[1], x[2]>> /\ x[1] = i /\ x[2] \in 1..Len(txns[i].attempts)
    BY <2>1, <2>2
  <2>4. x[2] \in 1..MaxRetries
    BY <2>2, <2>3, ConstantTypes
  <2> QED BY <2>2, <2>3, <2>4 DEF OfRecord
<1> DEFINE All == (DOMAIN txns) \X (1..MaxRetries)
<1>4. ASSUME NEW x \in AttemptsMade(txns) PROVE x \in All
  <2>1. x = <<x[1], x[2]>> /\ x[1] \in DOMAIN txns /\ x[2] \in 1..MaxRetries
    BY <1>3
  <2> QED BY <2>1
<1>5. IsFiniteSet(DOMAIN txns)
  BY DEF Sound
<1>6. IsFiniteSet(1..MaxRetries)
  BY ConstantTypes, FS_Interval
<1>7. IsFiniteSet(AttemptsMade(txns))
  <2>1. IsFiniteSet(All)
    BY <1>5, <1>6, FS_Product
  <2>2. AttemptsMade(txns) \in SUBSET All
    BY <1>4
  <2> HIDE DEF All
  <2> QED BY <2>1, <2>2, FS_Subset
<1>8. ASSUME NEW i \in DOMAIN txns, NEW j \in 1..Len(txns[i].attempts)
      PROVE  <<i, j>> \in AttemptsMade(txns)
  <2>1. <<i, j>> \in Of(i)
    BY MadeOf
  <2> QED BY <1>2, <2>1
<1> QED BY <1>3, <1>7, <1>8

(* The attempts of one record. *)
LEMMA MadeOfOne ==
  ASSUME NEW txns, Sound(txns), NEW i \in DOMAIN txns
  PROVE  Fibre(AttemptsMade(txns), [x \in AttemptsMade(txns) |-> x[1]], i)
           = {i} \X (1..Len(txns[i].attempts))
<1> DEFINE X == AttemptsMade(txns)
           key == [x \in X |-> x[1]]
           n == Len(txns[i].attempts)
<1>1. \A x \in X : /\ key[x] = x[1] /\ x = <<x[1], x[2]>>
                   /\ x[2] \in 1..Len(txns[x[1]].attempts)
  BY MadeSet
<1>2. \A j \in 1..n : <<i, j>> \in X
  BY MadeSet
<1>3. \A x : x \in Fibre(X, key, i) <=> x \in X /\ key[x] = i
  BY DEF Fibre
<1> HIDE DEF X, key, n
<1>4. ASSUME NEW x \in Fibre(X, key, i) PROVE x \in {i} \X (1..n)
  <2>1. x = <<i, x[2]>> /\ x[2] \in 1..n
    BY <1>1, <1>3 DEF n
  <2> QED BY <2>1
<1>5. ASSUME NEW x \in {i} \X (1..n) PROVE x \in Fibre(X, key, i)
  <2>1. PICK j \in 1..n : x = <<i, j>>
    OBVIOUS
  <2>2. x \in X /\ x[1] = i
    BY <1>2, <2>1
  <2> QED BY <1>1, <1>3, <2>2
<1>6. Fibre(X, key, i) = {i} \X (1..n)
  BY <1>4, <1>5
<1> QED BY <1>6 DEF X, key, n

(* Record by record there are as many attempts as processor by processor. *)
LEMMA AttemptsShared ==
  ASSUME NEW txns, Sound(txns)
  PROVE  SumFunction([p \in Processors |-> Cardinality(AttemptsOn(txns, p))])
           = SumFunction([i \in DOMAIN txns |-> Len(txns[i].attempts)])
<1> DEFINE X   == AttemptsMade(txns)
           on  == [x \in X |-> OfRecord(txns, x).processor]
           rec == [x \in X |-> x[1]]
           f   == [p \in Processors |-> Cardinality(AttemptsOn(txns, p))]
           g   == [i \in DOMAIN txns |-> Len(txns[i].attempts)]
<1>1. IsFiniteSet(X) /\ IsFiniteSet(DOMAIN txns)
  BY MadeSet DEF Sound
<1>2. \A x \in X : on[x] \in Processors
  BY MadeSet, AttemptType
<1>3. \A x \in X : rec[x] \in DOMAIN txns
  BY MadeSet
<1>4. ASSUME NEW p \in Processors PROVE f[p] = Cardinality(Fibre(X, on, p))
  <2>1. AttemptsOn(txns, p) = Fibre(X, on, p)
    BY DEF AttemptsOn, Fibre, OfRecord
  <2> QED BY <2>1
<1>5. ASSUME NEW i \in DOMAIN txns PROVE g[i] = Cardinality(Fibre(X, rec, i))
  <2> DEFINE n == Len(txns[i].attempts)
  <2>1. n \in Nat
    BY MadeOf, ConstantTypes
  <2>2. Fibre(X, rec, i) = {i} \X (1..n)
    BY MadeOfOne
  <2>3. IsFiniteSet({i}) /\ Cardinality({i}) = 1 /\ IsFiniteSet(1..n) /\ Cardinality(1..n) = n
    <3> HIDE DEF n
    <3>1. IsFiniteSet(1..n) /\ Cardinality(1..n) = IF 1 > n THEN 0 ELSE n - 1 + 1
      BY <2>1, FS_Interval
    <3>2. Cardinality(1..n) = n
      BY <2>1, <3>1
    <3> QED BY <3>1, <3>2, FS_Singleton
  <2>4. Cardinality({i} \X (1..n)) = 1 * n
    <3> HIDE DEF n
    <3> QED BY <2>3, FS_Product
  <2>5. g[i] = n
    OBVIOUS
  <2> HIDE DEF n, g, X, rec
  <2> QED BY <2>1, <2>2, <2>4, <2>5
<1>6. DOMAIN f = Processors /\ DOMAIN g = DOMAIN txns
  OBVIOUS
<1> HIDE DEF X, on, rec, f, g
<1>7. SumFunctionOnSet(f, Processors) = Cardinality(X)
  BY <1>1, <1>2, <1>4, SumFinite, CardinalityFibres
<1>8. SumFunctionOnSet(g, DOMAIN txns) = Cardinality(X)
  BY <1>1, <1>3, <1>5, CardinalityFibres
<1>9. SumFunction(f) = SumFunction(g)
  BY <1>6, <1>7, <1>8 DEF SumFunction
<1> QED BY <1>9 DEF f, g

(* What one record was charged is what its attempts cost. *)
LEMMA ChargedFor ==
  ASSUME NEW txns, Sound(txns), NEW i \in DOMAIN txns,
         NEW f, \A x \in AttemptsMade(txns) : f[x] = OfRecord(txns, x).cost
  PROVE  txns[i].totalCost = SumFunctionOnSet(f, {i} \X (1..Len(txns[i].attempts)))
<1> DEFINE n == Len(txns[i].attempts)
           S == {i} \X (1..n)
           key == [x \in S |-> x[2]]
           paid == [j \in DOMAIN txns[i].attempts |-> Cost[txns[i].attempts[j].processor]]
<1>1. n \in Nat /\ DOMAIN txns[i].attempts = 1..n
      /\ (\A j \in 1..n : txns[i].attempts[j] \in Attempts)
  <2>1. n \in Nat
    BY MadeOf, ConstantTypes
  <2> QED BY <2>1, MadeOf
<1>2. PaidOK(txns[i])
  BY DEF Sound
<1>3. txns[i].totalCost = SumFunctionOnSet(paid, 1..n)
  BY <1>1, <1>2 DEF PaidOK, CostOf, SumFunction
<1>4. ASSUME NEW j \in 1..n
      PROVE  /\ <<i, j>> \in AttemptsMade(txns)
             /\ paid[j] = f[<<i, j>>] /\ paid[j] \in Int
             /\ Fibre(S, key, j) = {<<i, j>>}
  <2>1. <<i, j>> \in AttemptsMade(txns)
    BY MadeSet
  <2>2. f[<<i, j>>] = txns[i].attempts[j].cost
    BY <2>1 DEF OfRecord
  <2>3. paid[j] = txns[i].attempts[j].cost
    BY <1>1, <1>2 DEF PaidOK
  <2>4. paid[j] \in Int
    BY <1>1, <2>3, AttemptType
  <2>5. Fibre(S, key, j) = {<<i, j>>}
    BY DEF Fibre
  <2> QED BY <2>1, <2>2, <2>3, <2>4, <2>5
<1>5. ASSUME NEW j \in 1..n PROVE paid[j] = SumFunctionOnSet(f, Fibre(S, key, j))
  <2>1. paid[j] = f[<<i, j>>] /\ paid[j] \in Int /\ Fibre(S, key, j) = {<<i, j>>}
    BY <1>4
  <2> HIDE DEF paid, S, key, n
  <2>2. SumFunctionOnSet(f, {<<i, j>>}) = f[<<i, j>>]
    BY <2>1, SumSingleton
  <2> QED BY <2>1, <2>2
<1>6. ASSUME NEW x \in S PROVE f[x] \in Int /\ key[x] \in 1..n
  <2>1. PICK j \in 1..n : x = <<i, j>>
    OBVIOUS
  <2>2. key[x] = j
    BY <2>1
  <2>3. f[x] \in Int
    <3> HIDE DEF paid, n
    <3> QED BY <1>4, <2>1
  <2> QED BY <2>2, <2>3
<1> DEFINE C == 1..n
<1>7. IsFiniteSet(C)
  <2> HIDE DEF n
  <2> QED BY <1>1, FS_Interval
<1>8. IsFiniteSet(S)
  <2>1. IsFiniteSet({i})
    BY FS_Singleton
  <2> HIDE DEF C
  <2> QED BY <1>7, <2>1, FS_Product DEF C
<1>9. \A j \in C : paid[j] = SumFunctionOnSet(f, Fibre(S, key, j))
  BY <1>5
<1>10. (\A x \in S : f[x] \in Int) /\ (\A x \in S : key[x] \in C)
  BY <1>6
<1> HIDE DEF S, key, paid, C
<1>11. SumFunctionOnSet(paid, C) = SumFunctionOnSet(f, S)
  BY <1>7, <1>8, <1>9, <1>10, SumFibres
<1> QED BY <1>3, <1>11 DEF S, C

(* Record by record as much was charged as processor by processor. *)
LEMMA CostsShared ==
  ASSUME NEW txns, Sound(txns)
  PROVE  SumFunction([p \in Processors |-> ProcessorMetrics(txns, p).cost])
           = SumFunction([i \in DOMAIN txns |-> txns[i].totalCost])
<1> DEFINE X   == AttemptsMade(txns)
           on  == [x \in X |-> OfRecord(txns, x).processor]
           rec == [x \in X |-> x[1]]
           c   == [x \in X |-> OfRecord(txns, x).cost]
           f   == [p \in Processors |-> ProcessorMetrics(txns, p).cost]
           g   == [i \in DOMAIN txns |-> txns[i].totalCost]
<1>1. IsFiniteSet(X) /\ IsFiniteSet(DOMAIN txns)
  BY MadeSet DEF Sound
<1>2. \A x \in X : on[x] \in Processors /\ c[x] \in Int
  BY MadeSet, AttemptType
<1>3. \A x \in X : rec[x] \in DOMAIN txns
  BY MadeSet
<1>4. ASSUME NEW p \in Processors PROVE f[p] = SumFunctionOnSet(c, Fibre(X, on, p))
  <2> DEFINE made == AttemptsOn(txns, p)
             d == [x \in made |-> txns[x[1]].attempts[x[2]].cost]
  <2>1. made = Fibre(X, on, p)
    BY DEF AttemptsOn, Fibre, OfRecord
  <2>2. f[p] = SumFunctionOnSet(d, made)
    BY DEF ProcessorMetrics
  <2>3. made \in SUBSET X
    BY DEF AttemptsOn
  <2>4. IsFiniteSet(made)
    BY <1>1, <2>3, FS_Subset
  <2>5. \A x \in made : d[x] = c[x] /\ d[x] \in Int
    BY <1>2, <2>3 DEF OfRecord
  <2> HIDE DEF made, d, c, f, on, X
  <2>6. SumFunctionOnSet(d, made) = SumFunctionOnSet(c, made)
    BY <2>4, <2>5, SumSame
  <2> QED BY <2>1, <2>2, <2>6
<1>5. ASSUME NEW i \in DOMAIN txns PROVE g[i] = SumFunctionOnSet(c, Fibre(X, rec, i))
  <2>1. Fibre(X, rec, i) = {i} \X (1..Len(txns[i].attempts))
    BY MadeOfOne
  <2>2. \A x \in AttemptsMade(txns) : c[x] = OfRecord(txns, x).cost
    OBVIOUS
  <2> HIDE DEF X, rec, c
  <2>3. txns[i].totalCost = SumFunctionOnSet(c, {i} \X (1..Len(txns[i].attempts)))
    BY <2>2, ChargedFor
  <2> QED BY <2>1, <2>3
<1>6. DOMAIN f = Processors /\ DOMAIN g = DOMAIN txns
  OBVIOUS
<1> HIDE DEF X, on, rec, c, f, g
<1>7. SumFunctionOnSet(f, Processors) = SumFunctionOnSet(c, X)
  BY <1>1, <1>2, <1>4, SumFinite, SumFibres
<1>8. SumFunctionOnSet(g, DOMAIN txns) = SumFunctionOnSet(c, X)
  BY <1>1, <1>2, <1>3, <1>5, SumFibres
<1>9. SumFunction(f) = SumFunction(g)
  BY <1>6, <1>7, <1>8 DEF SumFunction
<1> QED BY <1>9 DEF f, g

(* A record counts as recovered for each of its successful attempts, and it
   has one at most. *)
LEMMA SuccessesShared ==
  ASSUME NEW txns, Sound(txns)
  PROVE  SumFunction([p \in Processors |-> ProcessorMetrics(txns, p).successes])
           <= Cardinality({i \in DOMAIN txns : txns[i].status = "RECOVERED"})
<1> DEFINE X   == {x \in AttemptsMade(txns) : OfRecord(txns, x).success = TRUE}
           R   == {i \in DOMAIN txns : txns[i].status = "RECOVERED"}
           on  == [x \in X |-> OfRecord(txns, x).processor]
           rec == [x \in X |-> x[1]]
           f   == [p \in Processors |-> ProcessorMetrics(txns, p).successes]
<1>1. IsFiniteSet(X) /\ IsFiniteSet(R)
  BY MadeSet, FS_Subset DEF Sound
<1>2. \A x \in X : on[x] \in Processors
  BY MadeSet, AttemptType
<1>3. ASSUME NEW p \in Processors PROVE f[p] = Cardinality(Fibre(X, on, p))
  <2>1. f[p] = Cardinality({x \in AttemptsOn(txns, p) :
                              txns[x[1]].attempts[x[2]].success = TRUE})
    BY DEF ProcessorMetrics
  <2>2. {x \in AttemptsOn(txns, p) : txns[x[1]].attempts[x[2]].success = TRUE} = Fibre(X, on, p)
    BY DEF AttemptsOn, Fibre, OfRecord
  <2> QED BY <2>1, <2>2
<1>4. ASSUME NEW x \in X
      PROVE  x[1] \in R /\ x = <<x[1], Len(txns[x[1]].attempts)>>
  <2>1. /\ x[1] \in DOMAIN txns /\ x[2] \in 1..Len(txns[x[1]].attempts) /\ x = <<x[1], x[2]>>
        /\ txns[x[1]].attempts[x[2]].success
    BY MadeSet DEF OfRecord
  <2>2. x[2] = Len(txns[x[1]].attempts) /\ txns[x[1]].status = "RECOVERED"
    BY <2>1, MadeOf
  <2> QED BY <2>1, <2>2
<1>5. rec \in Injection(X, R)
  <2>1. \A x \in X : rec[x] \in R /\ x = <<rec[x], Len(txns[rec[x]].attempts)>>
    BY <1>4
  <2>2. rec \in [X -> R]
    BY <2>1
  <2> HIDE DEF X, R, rec
  <2>3. \A x, y \in X : rec[x] = rec[y] => x = y
    BY <2>1
  <2> QED BY <2>2, <2>3 DEF Injection, IsInjective
<1>6. DOMAIN f = Processors
  OBVIOUS
<1> HIDE DEF X, R, on, rec, f
<1>7. Cardinality(X) <= Cardinality(R)
  BY <1>1, <1>5, FS_Injection
<1>8. SumFunctionOnSet(f, Processors) = Cardinality(X)
  BY <1>1, <1>2, <1>3, SumFinite, CardinalityFibres
<1>9. SumFunction(f) <= Cardinality(R)
  BY <1>6, <1>7, <1>8 DEF SumFunction
<1> QED BY <1>9 DEF f, R
-----------------------------------------------------------------------------
(* The metrics of the store *)

StoreInv == TypeInv /\ ChainInv /\ RouteInv /\ OrderListsStore

LEMMA StoreInvariant == Spec => []StoreInv
BY TypeInvariant, ChainInvariant, RouteInvariant, OrderComplete, PTL DEF StoreInv

(* What is read of the store: records under their own ids. *)
LEMMA ReadRecords ==
  ASSUME StoreInv, NEW start, NEW end, NEW i \in DOMAIN InRange(start, end)
  PROVE  /\ i \in DOMAIN txOrder /\ txOrder[i] \in TxnIds /\ Exists(txOrder[i])
         /\ InRange(start, end)[i] = transactions[txOrder[i]]
         /\ transactions[txOrder[i]] \in Transactions
         /\ RecordOK(transactions[txOrder[i]], txOrder[i])
         /\ PaidOK(transactions[txOrder[i]])
<1>1. /\ i \in DOMAIN txOrder /\ InRange(start, end)[i] = transactions[txOrder[i]]
  BY DEF InRange, GetAllTransactionsInRange, Created, Stored
<1>2. txOrder[i] \in TxnIds
  BY <1>1 DEF StoreInv, TypeInv, TypeOK, StoreTypeOK
<1>3. Exists(txOrder[i])
  BY <1>1, <1>2 DEF StoreInv, OrderListsStore
<1>4. transactions[txOrder[i]] \in Transactions
  BY <1>2, <1>3 DEF StoreInv, TypeInv, TypeOK, StoreTypeOK, Exists
<1> QED BY <1>1, <1>2, <1>3, <1>4 DEF StoreInv, ChainInv, StoredOK, RouteInv, StorePaidOK

LEMMA InRangeSound ==
  ASSUME StoreInv, NEW start, NEW end PROVE Sound(InRange(start, end))
<1> DEFINE txns == InRange(start, end)
<1>1. IsFiniteSet(DOMAIN txns)
  <2>1. txOrder \in Seq(TxnIds)
    BY DEF StoreInv, TypeInv, TypeOK, StoreTypeOK
  <2>2. DOMAIN txOrder = 1..Len(txOrder) /\ Len(txOrder) \in Nat
    BY <2>1
  <2>3. IsFiniteSet(DOMAIN txOrder)
    BY <2>2, FS_Interval
  <2>4. DOMAIN txns \in SUBSET (DOMAIN txOrder)
    BY ReadRecords
  <2> QED BY <2>3, <2>4, FS_Subset
<1>2. ASSUME NEW i \in DOMAIN txns
      PROVE  /\ txns[i] \in Transactions /\ RecordOK(txns[i], txns[i].event.id) /\ PaidOK(txns[i])
  BY ReadRecords DEF RecordOK
<1> QED BY <1>1, <1>2 DEF Sound

(* The recovery rate and the share of the revenue are at most 1, and every
   transaction is a hard or a soft decline of one code, whatever chains and
   reports are under way when the metrics are read (GetRecoveryMetrics). *)
THEOREM RatesStayRates == Spec => []RecoveryRateAtMostOne
<1>1. StoreInv => RecoveryRateAtMostOne
  BY InRangeSound, RatesBounded DEF RecoveryRateAtMostOne
<1> QED BY <1>1, StoreInvariant, PTL

(* The processors share all the retries and all the cost of the recovery
   metrics, and no transaction has two successful attempts
   (GetProcessorMetrics, GetRecoveryMetrics). *)
THEOREM ReportsAgree == Spec => []ProcessorsShareRetries
<1>1. ASSUME StoreInv, NEW start \in Times, NEW end \in Times
      PROVE  LET txns == InRange(start, end)
                 m    == RecoveryMetrics(txns)
                 p    == [n \in Processors |-> ProcessorMetrics(txns, n)]
             IN  /\ SumFunction([n \in Processors |-> p[n].attempts]) = m.retries
                 /\ SumFunction([n \in Processors |-> p[n].cost]) = m.cost
                 /\ SumFunction([n \in Processors |-> p[n].successes]) <= m.recovered
  <2> DEFINE txns == InRange(start, end)
             m == RecoveryMetrics(txns)
             p == [n \in Processors |-> ProcessorMetrics(txns, n)]
  <2>1. Sound(txns)
    BY <1>1, InRangeSound
  <2> HIDE DEF txns
  <2>2. SumFunction([n \in Processors |-> p[n].attempts]) = m.retries
    <3>1. m.retries = SumFunction([i \in DOMAIN txns |-> Len(txns[i].attempts)])
      BY DEF RecoveryMetrics
    <3>2. [n \in Processors |-> p[n].attempts]
            = [n \in Processors |-> Cardinality(AttemptsOn(txns, n))]
      BY DEF ProcessorMetrics
    <3> QED BY <2>1, <3>1, <3>2, AttemptsShared
  <2>3. SumFunction([n \in Processors |-> p[n].cost]) = m.cost
    <3>1. m.cost = SumFunction([i \in DOMAIN txns |-> txns[i].totalCost])
      BY DEF RecoveryMetrics
    <3>2. [n \in Processors |-> p[n].cost] = [n \in Processors |-> ProcessorMetrics(txns, n).cost]
      OBVIOUS
    <3> QED BY <2>1, <3>1, <3>2, CostsShared
  <2>4. SumFunction([n \in Processors |-> p[n].successes]) <= m.recovered
    <3>1. m.recovered = Cardinality({i \in DOMAIN txns : txns[i].status = "RECOVERED"})
      BY DEF RecoveryMetrics
    <3>2. [n \in Processors |-> p[n].successes]
            = [n \in Processors |-> ProcessorMetrics(txns, n).successes]
      OBVIOUS
    <3> QED BY <2>1, <3>1, <3>2, SuccessesShared
  <2> QED BY <2>2, <2>3, <2>4 DEF txns
<1>2. StoreInv => ProcessorsShareRetries
  BY <1>1 DEF ProcessorsShareRetries
<1> QED BY <1>2, StoreInvariant, PTL
-----------------------------------------------------------------------------
(* Where the attempts of a record come from: the chain of an answered
   submission, which does not change any more *)

Origin(r, id, attempts) ==
  /\ Submitted(r) /\ pc[r] = "done" /\ reply[r] = "created" /\ call[r].event.id = id
  /\ tx[r].attempts = attempts /\ tx[r].retryCount = Len(attempts)

FromChain(id, attempts) == attempts # <<>> => \E r \in Requests : Origin(r, id, attempts)

StoredFromChains == \A id \in TxnIds : Exists(id) => FromChain(id, transactions[id].attempts)

CopyFromChain(r) == pc[r] \in Reporting => FromChain(call[r].id, tx[r].attempts)

OriginInv == StoredFromChains /\ \A r \in Requests : CopyFromChain(r)

(* An answered request stays as it is. *)
LEMMA DoneKept ==
  ASSUME TypeInv, [Next]_vars, NEW r \in Requests, pc[r] = "done"
  PROVE  pc'[r] = pc[r] /\ call'[r] = call[r] /\ tx'[r] = tx[r] /\ reply'[r] = reply[r]
<1>1. CASE UNCHANGED localVars
  BY <1>1 DEF localVars
<1>2. ASSUME NEW q \in Requests, ArriveAny(q) \/ Serve(q)
      PROVE  pc'[r] = pc[r] /\ call'[r] = call[r] /\ tx'[r] = tx[r] /\ reply'[r] = reply[r]
  <2>1. Frame(q)
    BY <1>2, ServeFrame
  <2>2. pc[q] # "done"
    <3>1. CASE ArriveAny(q)
      BY <3>1 DEF ArriveAny, Submit, Report, Reset, Arrive, Goto
    <3>2. CASE Serve(q)
      BY <3>2, InFlightStep DEF InFlight
    <3> QED BY <1>2, <3>1, <3>2
  <2> QED BY <2>1, <2>2 DEF Frame
<1> QED BY <1>1, <1>2 DEF Next, ClockTick, Quiet, vars

LEMMA FromChainKept ==
  ASSUME TypeInv, [Next]_vars, NEW id, NEW attempts, FromChain(id, attempts)
  PROVE  FromChain(id, attempts)'
<1> SUFFICES ASSUME attempts # <<>> PROVE \E r \in Requests : Origin(r, id, attempts)'
  BY DEF FromChain
<1>1. PICK r \in Requests : Origin(r, id, attempts)
  BY DEF FromChain
<1>2. Origin(r, id, attempts)'
  BY <1>1, DoneKept DEF Origin, Submitted
<1> QED BY <1>2

LEMMA StoredFrom ==
  ASSUME TypeInv, StoredFromChains, [Next]_vars, NEW id \in TxnIds, NEW t,
         transactions' = [transactions EXCEPT ![id] = t], FromChain(id, t.attempts)'
  PROVE  StoredFromChains'
<1> SUFFICES ASSUME NEW other \in TxnIds, transactions'[other] # Nil
             PROVE  FromChain(other, transactions[other].attempts)'
  BY DEF StoredFromChains, Exists
<1>1. CASE other = id
  <2>1. transactions'[other] = t
    BY <1>1 DEF TypeInv, TypeOK, StoreTypeOK
  <2> QED BY <1>1, <2>1
<1>2. CASE other # id
  <2>1. PICK u : u = transactions[other]
    OBVIOUS
  <2>2. transactions'[other] = u
    BY <1>2, <2>1 DEF TypeInv, TypeOK, StoreTypeOK
  <2>3. FromChain(other, u.attempts)
    BY <2>1, <2>2 DEF StoredFromChains, Exists
  <2>4. FromChain(other, u.attempts)'
    BY <2>3, FromChainKept
  <2> QED BY <2>2, <2>4
<1> QED BY <1>1, <1>2

LEMMA NextStored ==
  ASSUME TypeInv, ChainInv, PathInv, OriginInv, [Next]_vars PROVE StoredFromChains'
<1> USE DEF OriginInv
<1>1. CASE UNCHANGED transactions
  <2> SUFFICES ASSUME NEW id \in TxnIds, transactions'[id] # Nil
               PROVE  FromChain(id, transactions[id].attempts)'
    BY DEF StoredFromChains, Exists
  <2>1. PICK u : u = transactions[id]
    OBVIOUS
  <2>2. FromChain(id, u.attempts)
    BY <1>1, <2>1 DEF StoredFromChains, Exists
  <2>3. FromChain(id, u.attempts)'
    BY <2>2, FromChainKept
  <2> QED BY <1>1, <2>1, <2>3
<1>2. ASSUME NEW r \in Requests, SaveHard(r) \/ SaveSoft(r) PROVE StoredFromChains'
  <2>1. call[r] \in Submissions /\ call[r].event.id \in TxnIds
    BY <1>2, EventType DEF SaveHard, SaveSoft, Answer, Goto, TypeInv, StageOK
  <2>2. PICK id, t : /\ id = call[r].event.id /\ t = tx'[r]
    OBVIOUS
  <2>3. transactions' = [transactions EXCEPT ![id] = t] /\ t.attempts = <<>>
    BY <1>2, <2>2 DEF SaveHard, SaveSoft, SaveTransaction, NewTransaction, TypeInv, TypeOK, RequestTypeOK
  <2>4. FromChain(id, t.attempts)'
    BY <2>3 DEF FromChain
  <2> QED BY <2>1, <2>2, <2>3, <2>4, StoredFrom
<1>3. ASSUME NEW r \in Requests, FinishChain(r), ~(UNCHANGED transactions) PROVE StoredFromChains'
  <2>1. /\ pc[r] = "update" /\ pc'[r] = "done" /\ reply'[r] = "created"
        /\ UNCHANGED <<call, tx>>
    BY <1>3 DEF FinishChain, Answer, Goto, TypeInv, TypeOK, RequestTypeOK
  <2>2. /\ call[r] \in Submissions /\ tx[r] \in Transactions /\ tx[r].event = call[r].event
        /\ call[r].event.id \in TxnIds /\ tx[r].retryCount = Len(tx[r].attempts)
    BY <2>1, EventType DEF TypeInv, StageOK, InChain, ChainInv, WorkOK
  <2>3. PICK id, t : id = tx[r].event.id /\ t = tx[r]
    OBVIOUS
  <2>4. transactions' = [transactions EXCEPT ![id] = t]
    BY <1>3, <2>3 DEF FinishChain, UpdateTransaction
  <2>5. Origin(r, id, t.attempts)'
    BY <2>1, <2>2, <2>3, CallKinds DEF Origin, Submitted
  <2>6. FromChain(id, t.attempts)'
    BY <2>5 DEF FromChain
  <2> QED BY <2>2, <2>3, <2>4, <2>6, StoredFrom
<1>4. ASSUME NEW r \in Requests, ReportUpdate(r), ~(UNCHANGED transactions) PROVE StoredFromChains'
  <2>1. PICK id, t : id = call[r].id /\ t = tx[r]
    OBVIOUS
  <2>2. transactions' = [transactions EXCEPT ![id] = t]
    BY <1>4, <2>1 DEF ReportUpdate, UpdateTransaction
  <2>3. pc[r] = "reportUpdate" /\ id \in TxnIds
    BY <1>4, <2>1 DEF ReportUpdate, Answer, Goto, TypeInv, StageOK, Reporting, Reports
  <2>4. FromChain(id, t.attempts)
    BY <2>1, <2>3 DEF CopyFromChain, Reporting
  <2>5. FromChain(id, t.attempts)'
    BY <2>4, FromChainKept
  <2> QED BY <2>2, <2>3, <2>5, StoredFrom
<1>5. ASSUME NEW r \in Requests, ResetStore(r) PROVE StoredFromChains'
  BY <1>5 DEF ResetStore, StoreReset, StoredFromChains, Exists
<1>6. ASSUME NEW r \in Requests, ArriveAny(r) \/ Serve(r)
      PROVE  \/ UNCHANGED transactions \/ SaveHard(r) \/ SaveSoft(r) \/ FinishChain(r)
             \/ ReportUpdate(r) \/ ResetStore(r)
  BY <1>6 DEF ArriveAny, Submit, Report, Reset, Arrive, Serve, ProcessFailureStep,
         RecordRetryOutcomeStep, ResetStep, RecordFailure, RejectDuplicate, PlanAttempt, ScanHealth,
         ScanAdaptive, SelectTarget, Simulate, RecordHealth, LearnOutcome, LogDecision,
         SaveDecisionLog, FetchUnknown, Fetch, ReportHealth, ReportAdaptive, ResetHealth,
         sharedVars, storeVars
<1> QED BY <1>1, <1>2, <1>3, <1>4, <1>5, <1>6 DEF Next, ClockTick, Quiet, vars, sharedVars, storeVars

LEMMA NextCopy ==
  ASSUME TypeInv, OriginInv, [Next]_vars, NEW r \in Requests PROVE CopyFromChain(r)'
<1>1. SUFFICES ASSUME pc'[r] \in Reporting PROVE FromChain(call[r].id, tx[r].attempts)'
  BY DEF CopyFromChain
<1>2. ASSUME pc[r] \in Reporting, call'[r] = call[r], tx'[r].attempts = tx[r].attempts
      PROVE  FromChain(call[r].id, tx[r].attempts)'
  <2>1. PICK id, a : id = call[r].id /\ a = tx[r].attempts
    OBVIOUS
  <2>2. FromChain(id, a)
    BY <1>2, <2>1 DEF OriginInv, CopyFromChain
  <2>3. FromChain(id, a)'
    BY <2>2, FromChainKept
  <2> QED BY <1>2, <2>1, <2>3
<1>3. CASE UNCHANGED localVars
  BY <1>1, <1>2, <1>3 DEF localVars
<1>4. ASSUME NEW q \in Requests \ {r}, ArriveAny(q) \/ Serve(q)
      PROVE  FromChain(call[r].id, tx[r].attempts)'
  BY <1>1, <1>2, <1>4, ServeFrame DEF Frame
<1>5. CASE ReportHealth(r)
  BY <1>2, <1>5 DEF ReportHealth, Goto, Reporting
<1>6. CASE ReportAdaptive(r)
  <2>1. pc[r] = "reportAdaptive" /\ tx[r] \in Transactions /\ call'[r] = call[r]
        /\ tx'[r] = [tx[r] EXCEPT !.status = StatusAfterReport(r)]
    BY <1>6 DEF ReportAdaptive, Goto, TypeInv, TypeOK, RequestTypeOK, StageOK, Reporting
  <2>2. tx'[r].attempts = tx[r].attempts
    BY <2>1 DEF Transactions
  <2> QED BY <1>2, <2>1, <2>2 DEF Reporting
<1>7. CASE Fetch(r)
  <2>1. PICK id, a : id = call[r].id /\ a = transactions[id].attempts
    OBVIOUS
  <2>2. id \in TxnIds /\ Exists(id) /\ call'[r].id = id /\ tx'[r].attempts = a
    BY <1>7, <2>1 DEF Fetch, Goto, TypeInv, TypeOK, RequestTypeOK, StageOK, Reports
  <2>3. FromChain(id, a)
    BY <2>1, <2>2 DEF OriginInv, StoredFromChains
  <2>4. FromChain(id, a)'
    BY <2>3, FromChainKept
  <2> QED BY <2>2, <2>4
<1>8. ASSUME ArriveAny(r) \/ Serve(r) PROVE ReportHealth(r) \/ ReportAdaptive(r) \/ Fetch(r)
  <2>1. CASE ArriveAny(r)
    BY <1>1, <2>1 DEF ArriveAny, Submit, Report, Reset, Arrive, Goto, TypeInv, TypeOK,
                      RequestTypeOK, Reporting
  <2>2. CASE ProcessFailureStep(r) /\ ~SelectTarget(r)
    BY <1>1, <2>2 DEF ProcessFailureStep, RecordFailure, RejectDuplicate, SaveHard, SaveSoft,
                      PlanAttempt, ScanHealth, ScanAdaptive, Simulate, RecordHealth,
                      LearnOutcome, LogDecision, FinishChain, Answer, Goto, TypeInv, TypeOK,
                      RequestTypeOK, Reporting
  <2>3. CASE SelectTarget(r)
    BY <1>1, <2>3, SelectTargetRoutes DEF Reporting
  <2>4. CASE RecordRetryOutcomeStep(r) \/ ResetStep(r)
    BY <1>1, <2>4 DEF RecordRetryOutcomeStep, ResetStep, FetchUnknown, ReportUpdate, ResetStore,
                      ResetHealth, Answer, Goto, TypeInv, TypeOK, RequestTypeOK, Reporting
  <2> QED BY <1>8, <2>1, <2>2, <2>3, <2>4 DEF Serve
<1> QED BY <1>3, <1>4, <1>5, <1>6, <1>7, <1>8 DEF Next, ClockTick, Quiet, vars

LEMMA InitOrigin == Init => OriginInv
BY DEF Init, StoreInit, OriginInv, StoredFromChains, Exists, CopyFromChain, Reporting

(* Every attempt in the store, and in the copy a report will write back, was
   made by a chain that is over (executeRetryChain, RecordRetryOutcome). *)
THEOREM OriginInvariant == Spec => []OriginInv
<1>1. TypeInv /\ ChainInv /\ PathInv /\ OriginInv /\ [Next]_vars => OriginInv'
  BY NextStored, NextCopy DEF OriginInv
<1> QED BY <1>1, TypeInvariant, ChainInvariant, PathInvariant, InitOrigin, PTL DEF Spec
-----------------------------------------------------------------------------
(* The readers change nothing *)

ReaderStages == {"idle", "notFound", "log", "history", "health", "metrics", "walk", "walked"}

ReadersTypeOK == /\ stage \in [Readers -> ReaderStages]
                 /\ view = [q \in Readers |-> view[q]]

LEMMA ReadersRefine == ReadersSpec => Spec
<1>1. ReadersInit => Init
  BY DEF ReadersInit
<1>2. [ReadersNext]_allVars => [Next]_vars
  BY DEF ReadersNext, ReaderStep, NotFound, FindTransaction, ReadLog, CollectAttempts,
         CollectHealth, ReportMetrics, StartWalk, NextPage, Read, allVars
<1> QED BY <1>1, <1>2, PTL DEF ReadersSpec, Spec

LEMMA ReadTypes ==
  ASSUME ReadersTypeOK, NEW q \in Readers, NEW from, NEW to \in ReaderStages, NEW seen,
         Read(q, from, to, seen)
  PROVE  /\ ReadersTypeOK' /\ stage[q] = from /\ stage'[q] = to /\ view'[q] = seen
         /\ \A p \in Readers \ {q} : stage'[p] = stage[p] /\ view'[p] = view[p]
BY DEF ReadersTypeOK, Read

(* One read request takes a step, the others and the orchestrator do not. *)
ReaderFrame(q) == /\ ReadersTypeOK' /\ UNCHANGED vars
                  /\ \A p \in Readers \ {q} : stage'[p] = stage[p] /\ view'[p] = view[p]

LEMMA ReaderFrames ==
  ASSUME ReadersTypeOK, NEW q \in Readers, ReaderStep(q)
  PROVE  /\ ReaderFrame(q)
         /\ stage'[q] = "log" => FindTransaction(q)
         /\ stage'[q] = "history" => ReadLog(q)
         /\ stage'[q] = "health" => CollectAttempts(q) \/ CollectHealth(q)
         /\ stage'[q] = "metrics" => ReportMetrics(q)
         /\ stage'[q] = "walk" => StartWalk(q) \/ NextPage(q)
         /\ stage'[q] = "walked" => NextPage(q)
<1> USE DEF ReaderStages, ReaderFrame
<1>1. CASE NotFound(q)
  <2>1. Read(q, "idle", "notFound", Nil)
    BY <1>1 DEF NotFound
  <2>2. stage'[q] = "notFound" /\ UNCHANGED vars
    BY <2>1, ReadTypes DEF Read
  <2> QED BY <2>1, <2>2, ReadTypes
<1>2. CASE FindTransaction(q)
  <2>1. PICK seen : Read(q, "idle", "log", seen)
    BY <1>2 DEF FindTransaction
  <2>2. stage'[q] = "log" /\ UNCHANGED vars
    BY <2>1, ReadTypes DEF Read
  <2> QED BY <1>2, <2>1, <2>2, ReadTypes
<1>3. CASE ReadLog(q)
  <2>1. PICK seen : Read(q, "log", "history", seen)
    BY <1>3 DEF ReadLog
  <2>2. stage'[q] = "history" /\ UNCHANGED vars
    BY <2>1, ReadTypes DEF Read
  <2> QED BY <1>3, <2>1, <2>2, ReadTypes
<1>4. CASE CollectAttempts(q)
  <2>1. PICK seen : Read(q, "idle", "health", seen)
    BY <1>4 DEF CollectAttempts
  <2>2. stage'[q] = "health" /\ UNCHANGED vars
    BY <2>1, ReadTypes DEF Read
  <2> QED BY <1>4, <2>1, <2>2, ReadTypes
<1>5. CASE CollectHealth(q)
  <2>1. PICK seen : Read(q, "health", "health", seen)
    BY <1>5 DEF CollectHealth
  <2>2. stage'[q] = "health" /\ UNCHANGED vars
    BY <2>1, ReadTypes DEF Read
  <2> QED BY <1>5, <2>1, <2>2, ReadTypes
<1>6. CASE ReportMetrics(q)
  <2>1. PICK seen : Read(q, "health", "metrics", seen)
    BY <1>6 DEF ReportMetrics
  <2>2. stage'[q] = "metrics" /\ UNCHANGED vars
    BY <2>1, ReadTypes DEF Read
  <2> QED BY <1>6, <2>1, <2>2, ReadTypes
<1>7. CASE StartWalk(q)
  <2>1. PICK seen : Read(q, "idle", "walk", seen)
    BY <1>7 DEF StartWalk
  <2>2. stage'[q] = "walk" /\ UNCHANGED vars
    BY <2>1, ReadTypes DEF Read
  <2> QED BY <1>7, <2>1, <2>2, ReadTypes
<1>8. CASE NextPage(q)
  <2>1. PICK to \in {"walk", "walked"} : \E seen : Read(q, "walk", to, seen)
    BY <1>8 DEF NextPage
  <2>2. PICK seen : Read(q, "walk", to, seen)
    BY <2>1
  <2>3. to \in ReaderStages
    OBVIOUS
  <2>4. stage'[q] = to /\ ReaderFrame(q)
    BY <2>2, <2>3, ReadTypes DEF Read
  <2> QED BY <1>8, <2>4
<1> QED BY <1>1, <1>2, <1>3, <1>4, <1>5, <1>6, <1>7, <1>8 DEF ReaderStep

LEMMA ReadersTypeInvariant == ReadersSpec => []ReadersTypeOK
<1>1. ReadersInit => ReadersTypeOK
  BY DEF ReadersInit, ReadersTypeOK, ReaderStages
<1>2. ReadersTypeOK /\ [ReadersNext]_allVars => ReadersTypeOK'
  <2>1. ASSUME ReadersTypeOK, UNCHANGED readerVars PROVE ReadersTypeOK'
    BY <2>1 DEF ReadersTypeOK, readerVars
  <2>2. ASSUME ReadersTypeOK, NEW q \in Readers, ReaderStep(q) PROVE ReadersTypeOK'
    BY <2>2, ReaderFrames DEF ReaderFrame
  <2> QED BY <2>1, <2>2 DEF ReadersNext, allVars
<1> QED BY <1>1, <1>2, PTL DEF ReadersSpec
-----------------------------------------------------------------------------
(* The retry history *)

Numbered(attempts) == \A i \in DOMAIN attempts : attempts[i].number = i

(* The attempts a reader has read before it reads the log: those of a chain
   that is over. *)
FoundOK(q) == stage[q] = "log" =>
  \E id \in TxnIds, a \in Seq(Attempts) :
    /\ view[q] = [id |-> id, attempts |-> a, decisions |-> <<>>]
    /\ Numbered(a) /\ FromChain(id, a)

HistoryOK(q) == stage[q] = "history" =>
  \A i \in DOMAIN view[q].attempts :
    /\ i <= Len(view[q].decisions)
    /\ view[q].decisions[i].number = view[q].attempts[i].number
    /\ view[q].decisions[i].target = view[q].attempts[i].processor

HistoryInv == \A q \in Readers : FoundOK(q) /\ HistoryOK(q)

LEMMA FoundKept ==
  ASSUME TypeInv, [Next]_vars, NEW q \in Readers, FoundOK(q), HistoryOK(q),
         stage'[q] = stage[q], view'[q] = view[q]
  PROVE  FoundOK(q)' /\ HistoryOK(q)'
<1>1. FoundOK(q)'
  <2> SUFFICES ASSUME stage[q] = "log"
               PROVE  \E id \in TxnIds, a \in Seq(Attempts) :
                        /\ view'[q] = [id |-> id, attempts |-> a, decisions |-> <<>>]
                        /\ Numbered(a) /\ FromChain(id, a)'
    BY DEF FoundOK, Numbered
  <2>1. PICK id \in TxnIds, a \in Seq(Attempts) :
          /\ view[q] = [id |-> id, attempts |-> a, decisions |-> <<>>]
          /\ Numbered(a) /\ FromChain(id, a)
    BY DEF FoundOK
  <2>2. FromChain(id, a)'
    BY <2>1, FromChainKept
  <2> QED BY <2>1, <2>2
<1> QED BY <1>1 DEF HistoryOK

(* The attempts of a stored record are numbered and those of a chain. *)
LEMMA FindTransactionHistory ==
  ASSUME TypeInv, ChainInv, OriginInv, ReadersTypeOK, NEW q \in Readers, FindTransaction(q)
  PROVE  FoundOK(q)'
<1>1. PICK id \in TxnIds : /\ Exists(id)
                           /\ Read(q, "idle", "log", ReadPart(HistoryReads[1], NothingRead(id)))
  BY DEF FindTransaction
<1>2. PICK a : a = transactions[id].attempts
  OBVIOUS
<1>3. ReadPart(HistoryReads[1], NothingRead(id)) = [id |-> id, attempts |-> a, decisions |-> <<>>]
  <2>1. HistoryReads[1] = "attempts"
    BY DEF HistoryReads
  <2>2. NothingRead(id).id = id /\ LookUp("attempts", id) = a
    BY <1>2 DEF NothingRead, LookUp
  <2>3. ReadPart("attempts", NothingRead(id)) = [NothingRead(id) EXCEPT !["attempts"] = a]
    BY <2>2 DEF ReadPart
  <2>4. [NothingRead(id) EXCEPT !["attempts"] = a] = [id |-> id, attempts |-> a, decisions |-> <<>>]
    BY DEF NothingRead
  <2> QED BY <2>1, <2>3, <2>4
<1>4. view'[q] = [id |-> id, attempts |-> a, decisions |-> <<>>] /\ [Next]_vars
  BY <1>1, <1>3, ReadTypes DEF Read, ReaderStages
<1>5. a \in Seq(Attempts) /\ Numbered(a)
  <2>1. transactions[id] \in Transactions /\ WholeChain(transactions[id])
    BY <1>1 DEF TypeInv, TypeOK, StoreTypeOK, Exists, ChainInv, StoredOK, RecordOK
  <2>2. a \in Seq(Attempts)
    BY <1>2, <2>1, TransactionType
  <2> QED BY <1>2, <2>1, <2>2 DEF WholeChain, Numbered
<1>6. FromChain(id, a)'
  <2>1. FromChain(id, a)
    BY <1>1, <1>2 DEF OriginInv, StoredFromChains
  <2> QED BY <1>4, <2>1, FromChainKept
<1> QED BY <1>4, <1>5, <1>6 DEF FoundOK, Numbered

(* The log of a transaction whose chain is over lists all its attempts. *)
LEMMA ReadLogHistory ==
  ASSUME AuditInv, HistoryInv, ReadersTypeOK, NEW q \in Readers, ReadLog(q)
  PROVE  HistoryOK(q)'
<1>1. PICK id \in TxnIds, a \in Seq(Attempts) :
        /\ view[q] = [id |-> id, attempts |-> a, decisions |-> <<>>]
        /\ Numbered(a) /\ FromChain(id, a)
  BY DEF HistoryInv, FoundOK, ReadLog, Read
<1>2. ReadPart(HistoryReads[2], view[q]) = [id |-> id, attempts |-> a, decisions |-> decisions[id]]
  <2>1. HistoryReads[2] = "decisions"
    BY DEF HistoryReads
  <2>2. view[q].id = id /\ LookUp("decisions", id) = decisions[id]
    BY <1>1 DEF LookUp, GetDecisionLogs
  <2>3. ReadPart("decisions", view[q]) = [view[q] EXCEPT !["decisions"] = decisions[id]]
    BY <2>2 DEF ReadPart
  <2>4. [view[q] EXCEPT !["decisions"] = decisions[id]]
          = [id |-> id, attempts |-> a, decisions |-> decisions[id]]
    BY <1>1
  <2> QED BY <2>1, <2>3, <2>4
<1>3. view'[q] = [id |-> id, attempts |-> a, decisions |-> decisions[id]]
  <2>1. PICK seen : seen = [id |-> id, attempts |-> a, decisions |-> decisions[id]]
    OBVIOUS
  <2>2. Read(q, "log", "history", seen)
    BY <1>2, <2>1 DEF ReadLog
  <2>3. view'[q] = seen
    BY <2>2 DEF Read, ReadersTypeOK
  <2> QED BY <2>1, <2>3
<1>4. view'[q].attempts = a /\ view'[q].decisions = decisions[id]
  BY <1>3
<1>5. ASSUME NEW i \in DOMAIN a
      PROVE  /\ i <= Len(decisions[id])
             /\ decisions[id][i].number = a[i].number
             /\ decisions[id][i].target = a[i].processor
  <2>1. a # <<>> /\ i \in 1..Len(a)
    BY <1>5
  <2>2. PICK r \in Requests : Origin(r, id, a)
    BY <1>1, <2>1 DEF FromChain
  <2>3. Accepted(r) /\ Logged(r) = Len(a)
    BY <2>2 DEF Origin, Accepted, Logged
  <2>4. decisions[id] = [j \in 1..Len(a) |-> [number |-> j,
                                              source |-> call[r].event.processor,
                                              target |-> a[j].processor]]
    BY <2>2, <2>3 DEF AuditInv, AuditOK, Trail, Origin
  <2>5. Len(decisions[id]) = Len(a)
    BY <2>4
  <2>6. a[i].number = i
    BY <1>1 DEF Numbered
  <2> QED BY <2>1, <2>4, <2>5, <2>6
<1> QED BY <1>4, <1>5 DEF HistoryOK

(* Every attempt of a retry history is explained by a decision with its number
   and its processor, although the transaction and its log are read under two
   locks and chains and reports go on between them (getRetryHistory, while
   nothing is reset). *)
THEOREM HistoryExplained ==
  ASSUME "reset" \notin Operations
  PROVE  ReadersSpec => []HistoryIsExplained
<1> DEFINE I == TypeInv /\ ChainInv /\ OriginInv /\ AuditInv /\ ReadersTypeOK
<1>1. ReadersSpec => []I
  BY ReadersRefine, ReadersTypeInvariant, TypeInvariant, ChainInvariant, OriginInvariant,
     AuditInvariant, PTL
<1>2. ReadersInit => HistoryInv
  BY DEF ReadersInit, HistoryInv, FoundOK, HistoryOK
<1>3. I /\ HistoryInv /\ [ReadersNext]_allVars => HistoryInv'
  <2>1. ASSUME I, HistoryInv, [Next]_vars, UNCHANGED readerVars PROVE HistoryInv'
    BY <2>1, FoundKept DEF HistoryInv, readerVars
  <2>2. ASSUME I, HistoryInv, NEW q \in Readers, ReaderStep(q) PROVE HistoryInv'
    <3>1. ReaderFrame(q) /\ [Next]_vars
      BY <2>2, ReaderFrames DEF ReaderFrame
    <3>2. \A p \in Readers \ {q} : FoundOK(p)' /\ HistoryOK(p)'
      BY <2>2, <3>1, FoundKept DEF HistoryInv, ReaderFrame
    <3>3. FoundOK(q)'
      <4>1. CASE stage'[q] = "log"
        BY <2>2, <4>1, ReaderFrames, FindTransactionHistory
      <4> QED BY <4>1 DEF FoundOK
    <3>4. HistoryOK(q)'
      <4>1. CASE stage'[q] = "history"
        BY <2>2, <4>1, ReaderFrames, ReadLogHistory
      <4> QED BY <4>1 DEF HistoryOK
    <3> QED BY <3>2, <3>3, <3>4 DEF HistoryInv
  <2> QED BY <2>1, <2>2 DEF ReadersNext, allVars, vars
<1>4. HistoryInv => HistoryIsExplained
  BY DEF HistoryInv, HistoryOK, HistoryIsExplained
<1> HIDE DEF I
<1> QED BY <1>1, <1>2, <1>3, <1>4, PTL DEF ReadersSpec
-----------------------------------------------------------------------------
(* The metrics next to the health, while nothing expires and nobody resets *)

Recorded(p) == Count(windows[p], FALSE) + Count(windows[p], TRUE)

Snapshots == [state : HealthStates, total : Nat, rate : Int \X Int]

LEMMA CountIsTally ==
  ASSUME HealthLedgerSum, NEW p \in Names, NEW success \in BOOLEAN
  PROVE  Count(windows[p], success) \in Nat
BY TallyFinite DEF HealthLedgerSum

LEMMA RecordedType == ASSUME HealthLedgerSum, NEW p \in Names PROVE Recorded(p) \in Nat
<1>1. PICK f, s : f = Count(windows[p], FALSE) /\ s = Count(windows[p], TRUE)
  OBVIOUS
<1>2. f \in Nat /\ s \in Nat
  BY <1>1, CountIsTally
<1>3. Recorded(p) = f + s
  BY <1>1 DEF Recorded
<1> QED BY <1>2, <1>3

(* A snapshot counts all that was recorded. *)
LEMMA HealthShowsAll ==
  ASSUME Lasting, HealthTypeOK, HealthLedgerSum, NEW p \in Names
  PROVE  GetHealth(p) \in Snapshots /\ GetHealth(p).total = Recorded(p)
<1>1. InWindow(windows[p]) = windows[p]
  <2>1. windows[p] \in [Outcomes -> Nat]
    BY DEF HealthTypeOK
  <2>2. ASSUME NEW x \in Outcomes PROVE x.ts >= Cutoff
    <3>1. x.ts \in Times /\ x.ts \in Int /\ MaxTime \in Int /\ Window \in Int /\ now \in Int
          /\ now <= MaxTime
      BY TimeType, HealthAssumption DEF Outcomes, HealthTypeOK
    <3> QED BY <3>1 DEF Lasting, Cutoff
  <2>3. {x \in Outcomes : x.ts >= Cutoff} = Outcomes
    BY <2>2
  <2>4. InWindow(windows[p]) = [x \in Outcomes |-> windows[p][x]]
    BY <2>3 DEF InWindow
  <2> QED BY <2>1, <2>4
<1>2. PICK failures, successes : /\ failures = Count(windows[p], FALSE)
                                 /\ successes = Count(windows[p], TRUE)
  OBVIOUS
<1>3. failures \in Nat /\ successes \in Nat
  BY <1>2, CountIsTally
<1>4. GetHealth(p) = [state |-> StateOf(failures, failures + successes),
                      total |-> failures + successes,
                      rate  |-> IF failures + successes < MinSamples THEN <<0, 1>>
                                ELSE <<failures, failures + successes>>]
  BY <1>1, <1>2 DEF GetHealth, Snapshot
<1>5. StateOf(failures, failures + successes) \in HealthStates
  BY DEF StateOf, HealthStates
<1>6. Recorded(p) = failures + successes
  BY <1>2 DEF Recorded
<1>7. failures + successes \in Nat
  BY <1>3
<1>8. (IF failures + successes < MinSamples THEN <<0, 1>> ELSE <<failures, failures + successes>>)
        \in Int \X Int
  BY <1>3, <1>7
<1> QED BY <1>4, <1>5, <1>6, <1>7, <1>8 DEF Snapshots

(* What was recorded stays recorded. *)
LEMMA CountGrows ==
  ASSUME Lasting, "reset" \notin Operations, TypeInv, ChainInv, PathInv, HealthLedgerSum,
         [Next]_vars, NEW p \in Names, NEW success \in BOOLEAN
  PROVE  /\ Count(windows'[p], success) \in Nat
         /\ Count(windows[p], success) <= Count(windows'[p], success)
<1>1. CASE UNCHANGED windows
  BY <1>1, CountIsTally
<1>2. ASSUME NEW p0 \in Names, NEW s0 \in BOOLEAN, NEW ts \in Times, RecordOutcome(p0, s0, ts)
      PROVE  /\ Count(windows'[p], success) \in Nat
             /\ Count(windows[p], success) <= Count(windows'[p], success)
  <2>1. Count(windows'[p], success) \in {Count(windows[p], success), Count(windows[p], success) + 1}
    BY <1>2, RecordCounts DEF TypeInv, TypeOK
  <2> QED BY <2>1, CountIsTally
<1>3. ASSUME NEW r \in Requests, ArriveAny(r) \/ Serve(r)
      PROVE  \/ UNCHANGED windows
             \/ \E p0 \in Names, s0 \in BOOLEAN, ts \in Times : RecordOutcome(p0, s0, ts)
  <2>1. StageOK(r)
    BY DEF TypeInv
  <2>2. CASE RecordFailure(r)
    BY <2>1, <2>2, EventType DEF RecordFailure, Goto, StageOK
  <2>3. CASE RecordHealth(r)
    BY <2>1, <2>3, AttemptType DEF RecordHealth, Goto, StageOK, Attempting
  <2>4. CASE ReportHealth(r)
    BY <2>1, <2>4, ReportedOutcomeType DEF ReportHealth, Goto, StageOK
  <2> QED BY <1>3, <2>2, <2>3, <2>4, SilentTally
<1> QED BY <1>1, <1>2, <1>3 DEF Next, ClockTick, Tick, Quiet, vars, sharedVars

LEMMA RecordedGrows ==
  ASSUME Lasting, "reset" \notin Operations, TypeInv, ChainInv, PathInv, HealthLedgerSum,
         [Next]_vars, NEW p \in Names
  PROVE  Recorded(p)' \in Nat /\ Recorded(p) <= Recorded(p)'
<1>1. PICK f, s, g, t : /\ f = Count(windows[p], FALSE) /\ s = Count(windows[p], TRUE)
                        /\ g = Count(windows'[p], FALSE) /\ t = Count(windows'[p], TRUE)
  OBVIOUS
<1>2. f \in Nat /\ s \in Nat /\ g \in Nat /\ t \in Nat /\ f <= g /\ s <= t
  BY <1>1, CountIsTally, CountGrows
<1>3. Recorded(p) = f + s /\ Recorded(p)' = g + t
  BY <1>1 DEF Recorded
<1> QED BY <1>2, <1>3

(* The attempts the store shows on a processor. *)
LEMMA ShownOn ==
  ASSUME StoreInv, NEW start, NEW end, NEW p, NEW x \in AttemptsOn(InRange(start, end), p)
  PROVE  LET id == txOrder[x[1]]
             a  == transactions[id].attempts
         IN  /\ x[1] \in DOMAIN txOrder /\ x = <<x[1], x[2]>> /\ x[2] \in 1..Len(a)
             /\ id \in TxnIds /\ Exists(id) /\ Len(a) \in 0..MaxRetries /\ a # <<>>
             /\ a[x[2]].processor = p /\ a[x[2]].success \in BOOLEAN
<1> DEFINE txns == InRange(start, end)
<1>1. Sound(txns)
  BY InRangeSound
<1>2. x \in AttemptsMade(txns) /\ txns[x[1]].attempts[x[2]].processor = p
  BY DEF AttemptsOn
<1>3. /\ x[1] \in DOMAIN txns /\ x[2] \in 1..Len(txns[x[1]].attempts)
      /\ x = <<x[1], x[2]>> /\ txns[x[1]].attempts[x[2]] \in Attempts
  <2> HIDE DEF txns
  <2> QED BY <1>1, <1>2, MadeSet DEF OfRecord
<1>4. /\ x[1] \in DOMAIN txOrder /\ txOrder[x[1]] \in TxnIds /\ Exists(txOrder[x[1]])
      /\ txns[x[1]] = transactions[txOrder[x[1]]]
  BY <1>3, ReadRecords
<1>5. Len(txns[x[1]].attempts) \in 0..MaxRetries
  <2> HIDE DEF txns
  <2> QED BY <1>1, <1>3, MadeOf
<1>6. txns[x[1]].attempts[x[2]].success \in BOOLEAN
  BY <1>3, AttemptType
<1>7. txns[x[1]].attempts # <<>>
  <2>1. Len(<<>>) = 0
    OBVIOUS
  <2> QED BY <1>3, <2>1
<1> QED BY <1>2, <1>3, <1>4, <1>5, <1>6, <1>7

(* Each of them is one that its chain has entered in the tracker. *)
LEMMA ShownFelt ==
  ASSUME StoreInv, PathInv, OriginInv, NEW p, NEW id \in TxnIds, Exists(id),
         NEW a, a = transactions[id].attempts, a # <<>>, Len(a) \in 0..MaxRetries,
         NEW j \in 1..Len(a), a[j].processor = p, a[j].success \in BOOLEAN
  PROVE  \E r \in Requests : /\ Origin(r, id, a) /\ <<r, j>> \in FeltSet(p, a[j].success)
<1>1. PICK r \in Requests : Origin(r, id, a)
  BY DEF OriginInv, StoredFromChains, FromChain
<1>2. call[r] \in Submissions /\ tx[r] \in Transactions
  BY <1>1 DEF Origin, PathInv, PathOK
<1>3. tx[r] # Nil /\ call[r].event.code \in Codes
  BY <1>2, EventType, NilAssumption
<1>4. j \in 1..MaxRetries /\ j \in 0..MaxRetries /\ j <= Assessed(r)
  <2>1. Assessed(r) = Len(a)
    BY <1>1 DEF Origin, Assessed
  <2>2. MaxRetries \in Nat
    BY ConstantTypes
  <2> QED BY <2>1, <2>2
<1>5. Felt(r, j, p, a[j].success)
  BY <1>1, <1>3, <1>4 DEF Felt, Origin
<1>6. <<r, j>> \in FeltSet(p, a[j].success)
  BY <1>4, <1>5 DEF FeltSet
<1> QED BY <1>1, <1>6

(* So the store never shows more attempts than the tracker has counted: a
   chain records each of them before it stores them. *)
LEMMA ShownWereRecorded ==
  ASSUME StoreInv, PathInv, OriginInv, HealthLedgerSum, NEW start, NEW end, NEW p \in Names
  PROVE  /\ Cardinality(AttemptsOn(InRange(start, end), p)) \in Nat
         /\ Cardinality(AttemptsOn(InRange(start, end), p)) <= Recorded(p)
<1> DEFINE X == AttemptsOn(InRange(start, end), p)
           T == FeltSet(p, TRUE)
           F == FeltSet(p, FALSE)
           maker(x) == CHOOSE r \in Requests :
                         /\ Origin(r, txOrder[x[1]], transactions[txOrder[x[1]]].attempts)
                         /\ <<r, x[2]>> \in T \cup F
           entry == [x \in X |-> <<maker(x), x[2]>>]
<1>1. ASSUME NEW x \in X
      PROVE  /\ Origin(maker(x), txOrder[x[1]], transactions[txOrder[x[1]]].attempts)
             /\ <<maker(x), x[2]>> \in T \cup F
             /\ x = <<x[1], x[2]>> /\ x[1] \in DOMAIN txOrder
  <2>1. PICK id, a, j : id = txOrder[x[1]] /\ a = transactions[id].attempts /\ j = x[2]
    OBVIOUS
  <2>2. /\ x[1] \in DOMAIN txOrder /\ x = <<x[1], x[2]>> /\ j \in 1..Len(a)
        /\ id \in TxnIds /\ Exists(id) /\ Len(a) \in 0..MaxRetries /\ a # <<>>
        /\ a[j].processor = p /\ a[j].success \in BOOLEAN
    BY <2>1, ShownOn
  <2>3. \E r \in Requests : Origin(r, id, a) /\ <<r, j>> \in FeltSet(p, a[j].success)
    BY <2>1, <2>2, ShownFelt
  <2>4. \E r \in Requests : Origin(r, id, a) /\ <<r, j>> \in T \cup F
    BY <2>2, <2>3
  <2> QED BY <2>1, <2>2, <2>4
<1>2. entry \in Injection(X, T \cup F)
  <2>1. entry \in [X -> T \cup F]
    BY <1>1
  <2>2. ASSUME NEW x \in X, NEW y \in X, entry[x] = entry[y] PROVE x = y
    <3> HIDE DEF maker
    <3>1. maker(x) = maker(y) /\ x[2] = y[2]
      <4>1. entry[x] = <<maker(x), x[2]>> /\ entry[y] = <<maker(y), y[2]>>
        OBVIOUS
      <4>2. PICK u, v : u = maker(x) /\ v = maker(y)
        OBVIOUS
      <4>3. PICK i, k : i = x[2] /\ k = y[2]
        OBVIOUS
      <4> HIDE DEF entry
      <4>4. <<u, i>> = <<v, k>>
        BY <2>2, <4>1, <4>2, <4>3
      <4>5. u = v /\ i = k
        BY <4>4
      <4> QED BY <4>2, <4>3, <4>5
    <3>2. txOrder[x[1]] = call[maker(x)].event.id /\ txOrder[y[1]] = call[maker(y)].event.id
      BY <1>1 DEF Origin
    <3>3. x[1] = y[1]
      <4>1. PICK i \in DOMAIN txOrder, k \in DOMAIN txOrder : i = x[1] /\ k = y[1]
        BY <1>1
      <4>2. txOrder[i] = txOrder[k]
        BY <3>1, <3>2, <4>1
      <4> QED BY <4>1, <4>2 DEF StoreInv, OrderListsStore
    <3> QED BY <1>1, <3>1, <3>3
  <2> HIDE DEF entry, X, T, F
  <2> QED BY <2>1, <2>2 DEF Injection, IsInjective
<1>3. IsFiniteSet(X)
  <2>1. X \in SUBSET AttemptsMade(InRange(start, end))
    BY DEF AttemptsOn
  <2> QED BY <2>1, InRangeSound, MadeSet, FS_Subset
<1>4. IsFiniteSet(T) /\ IsFiniteSet(F) /\ Cardinality(T) \in Nat /\ Cardinality(F) \in Nat
      /\ Cardinality(BlamedSet(p)) \in Nat
  BY TallyFinite
<1>5. Count(windows[p], TRUE) = Cardinality(T)
      /\ Count(windows[p], FALSE) = Cardinality(BlamedSet(p)) + Cardinality(F)
  <2>1. Tally(p, TRUE) = 0 + Cardinality(T) /\ Tally(p, FALSE) = Cardinality(BlamedSet(p)) + Cardinality(F)
    BY DEF Tally
  <2>2. Count(windows[p], TRUE) = Tally(p, TRUE) /\ Count(windows[p], FALSE) = Tally(p, FALSE)
    BY DEF HealthLedgerSum
  <2> HIDE DEF T, F
  <2>3. PICK t : t = Cardinality(T)
    OBVIOUS
  <2>4. 0 + t = t
    BY <1>4, <2>3
  <2> QED BY <2>1, <2>2, <2>3, <2>4
<1> HIDE DEF entry, X, T, F
<1>6. IsFiniteSet(T \cup F) /\ Cardinality(T \cup F) <= Cardinality(T) + Cardinality(F)
  <2>1. IsFiniteSet(T \cap F)
    <3>1. T \cap F \in SUBSET T
      OBVIOUS
    <3> QED BY <1>4, <3>1, FS_Subset
  <2>2. Cardinality(T \cap F) \in Nat
    BY <2>1, FS_CardinalityType
  <2>3. /\ IsFiniteSet(T \cup F)
        /\ Cardinality(T \cup F) = Cardinality(T) + Cardinality(F) - Cardinality(T \cap F)
    BY <1>4, FS_Union
  <2> QED BY <1>4, <2>2, <2>3
<1>7. Cardinality(X) <= Cardinality(T \cup F) /\ Cardinality(X) \in Nat
      /\ Cardinality(T \cup F) \in Nat
  BY <1>2, <1>3, <1>6, FS_Injection, FS_CardinalityType
<1>8. Recorded(p) = (Cardinality(BlamedSet(p)) + Cardinality(F)) + Cardinality(T)
  BY <1>5 DEF Recorded
<1>9. Cardinality(X) <= Recorded(p)
  BY <1>4, <1>6, <1>7, <1>8
<1> QED BY <1>7, <1>9 DEF X

(* What a reader of the metrics has read so far is in what the tracker has
   counted, and in the health it has read. *)
InTracker(made) ==
  \A p \in Processors : made[p].attempts \in Nat /\ made[p].attempts <= Recorded(p)

Covers(health, made) ==
  \A i \in 1..Len(health) : made[ProcessorOrder[i]].attempts <= health[i].total

CollectedOK(q) == stage[q] = "health" =>
  \E h \in Seq(Snapshots) : \E m :
    /\ view[q] = [made |-> m, health |-> h]
    /\ Len(h) <= Len(ProcessorOrder) /\ InTracker(m) /\ Covers(h, m)

MetricsOK(q) == stage[q] = "metrics" =>
  \A i \in DOMAIN ProcessorOrder :
    view[q].made[ProcessorOrder[i]].attempts <= view[q].health[i].total

MetricsInv == \A q \in Readers : CollectedOK(q) /\ MetricsOK(q)

(* All that the last theorem rests on. *)
LedgerInv == /\ StoreInv /\ PathInv /\ OriginInv /\ HealthLedgerSum /\ ReadersTypeOK

LEMMA OrderTypes ==
  /\ Len(ProcessorOrder) \in Nat /\ DOMAIN ProcessorOrder = 1..Len(ProcessorOrder)
  /\ \A i \in DOMAIN ProcessorOrder : ProcessorOrder[i] \in Processors /\ ProcessorOrder[i] \in Names
BY ConstantTypes

LEMMA InTrackerKept ==
  ASSUME Lasting, "reset" \notin Operations, LedgerInv, [Next]_vars, NEW m, InTracker(m)
  PROVE  InTracker(m)'
<1> SUFFICES ASSUME NEW p \in Processors
             PROVE  m[p].attempts \in Nat /\ m[p].attempts <= Recorded(p)'
  BY DEF InTracker
<1>1. p \in Names
  BY ConstantTypes
<1>2. Recorded(p) \in Nat
  BY <1>1, RecordedType DEF LedgerInv
<1>3. Recorded(p)' \in Nat /\ Recorded(p) <= Recorded(p)'
  BY <1>1, RecordedGrows DEF LedgerInv, StoreInv
<1>4. m[p].attempts \in Nat /\ m[p].attempts <= Recorded(p)
  BY DEF InTracker
<1> QED BY <1>2, <1>3, <1>4

LEMMA MetricsKept ==
  ASSUME Lasting, "reset" \notin Operations, LedgerInv, [Next]_vars, NEW q \in Readers,
         CollectedOK(q), MetricsOK(q), stage'[q] = stage[q], view'[q] = view[q]
  PROVE  CollectedOK(q)' /\ MetricsOK(q)'
<1>1. CollectedOK(q)'
  <2> SUFFICES ASSUME stage[q] = "health"
               PROVE  \E h \in Seq(Snapshots) : \E m :
                        /\ view'[q] = [made |-> m, health |-> h]
                        /\ Len(h) <= Len(ProcessorOrder) /\ InTracker(m)' /\ Covers(h, m)
    BY DEF CollectedOK, Covers
  <2>1. PICK h \in Seq(Snapshots) : \E m :
          /\ view[q] = [made |-> m, health |-> h]
          /\ Len(h) <= Len(ProcessorOrder) /\ InTracker(m) /\ Covers(h, m)
    BY DEF CollectedOK
  <2>2. PICK m : /\ view[q] = [made |-> m, health |-> h]
                 /\ Len(h) <= Len(ProcessorOrder) /\ InTracker(m) /\ Covers(h, m)
    BY <2>1
  <2>3. InTracker(m)'
    BY <2>2, InTrackerKept
  <2> QED BY <2>2, <2>3
<1> QED BY <1>1 DEF MetricsOK

LEMMA CollectAttemptsMetrics ==
  ASSUME LedgerInv, NEW q \in Readers, CollectAttempts(q) PROVE CollectedOK(q)'
<1>1. PICK m : m = Made
  OBVIOUS
<1>2. view'[q] = [made |-> m, health |-> <<>>]
  <2>1. PICK seen : seen = [made |-> Made, health |-> <<>>]
    OBVIOUS
  <2>2. Read(q, "idle", "health", seen)
    BY <2>1 DEF CollectAttempts
  <2>3. view'[q] = seen
    BY <2>2 DEF Read, LedgerInv, ReadersTypeOK
  <2> QED BY <1>1, <2>1, <2>3
<1>3. ASSUME NEW p \in Processors
      PROVE  m[p].attempts \in Nat /\ m[p].attempts <= Recorded(p)
  <2> DEFINE range == TimeRange(Nil, Nil)
  <2>1. m[p].attempts = Cardinality(AttemptsOn(InRange(range.start, range.end), p))
    BY <1>1 DEF Made, InRange, ProcessorMetrics
  <2> HIDE DEF range
  <2> QED BY <2>1, ConstantTypes, ShownWereRecorded DEF LedgerInv
<1>4. \A p \in Names : Recorded(p)' = Recorded(p)
  BY DEF CollectAttempts, Read, vars, sharedVars, Recorded
<1>5. InTracker(m)'
  BY <1>3, <1>4, ConstantTypes DEF InTracker
<1>6. <<>> \in Seq(Snapshots) /\ Len(<<>>) <= Len(ProcessorOrder) /\ Covers(<<>>, m)
  BY OrderTypes DEF Covers
<1>7. \E h \in Seq(Snapshots) : \E k :
        /\ view'[q] = [made |-> k, health |-> h]
        /\ Len(h) <= Len(ProcessorOrder) /\ InTracker(k)' /\ Covers(h, k)
  BY <1>2, <1>5, <1>6
<1> QED BY <1>7 DEF CollectedOK, Covers

LEMMA CollectHealthMetrics ==
  ASSUME Lasting, LedgerInv, MetricsInv, NEW q \in Readers, CollectHealth(q)
  PROVE  CollectedOK(q)'
<1>1. stage[q] = "health" /\ CollectedOK(q)
  BY DEF CollectHealth, MetricsInv
<1>0. PICK h \in Seq(Snapshots) : \E m :
        /\ view[q] = [made |-> m, health |-> h]
        /\ Len(h) <= Len(ProcessorOrder) /\ InTracker(m) /\ Covers(h, m)
  BY <1>1 DEF CollectedOK
<1>2. PICK m :
        /\ view[q] = [made |-> m, health |-> h]
        /\ Len(h) <= Len(ProcessorOrder) /\ InTracker(m) /\ Covers(h, m)
  BY <1>0
<1> DEFINE n == Len(h) + 1
           p == ProcessorOrder[n]
<1>3. Len(h) < Len(ProcessorOrder) /\ view[q].health = h
  BY <1>2 DEF CollectHealth
<1>4. n \in DOMAIN ProcessorOrder /\ n \in Nat /\ p \in Processors /\ p \in Names
  BY <1>3, OrderTypes
<1>5. PICK s : s = GetHealth(p)
  OBVIOUS
<1>6. s \in Snapshots /\ s.total = Recorded(p)
  BY <1>4, <1>5, HealthShowsAll DEF LedgerInv, StoreInv, TypeInv, TypeOK
<1>7. PICK k : k = Append(h, s)
  OBVIOUS
<1>8. view'[q] = [made |-> m, health |-> k]
  <2>1. PICK seen : seen = [view[q] EXCEPT !.health = k]
    OBVIOUS
  <2>2. Read(q, "health", "health", seen)
    BY <1>3, <1>5, <1>7, <2>1 DEF CollectHealth
  <2>3. view'[q] = seen
    BY <2>2 DEF Read, LedgerInv, ReadersTypeOK
  <2>4. seen = [made |-> m, health |-> k]
    BY <1>2, <2>1
  <2> QED BY <2>3, <2>4
<1>9. k \in Seq(Snapshots) /\ Len(k) = n /\ k[n] = s /\ \A i \in 1..Len(h) : k[i] = h[i]
  BY <1>6, <1>7
<1>10. Len(k) <= Len(ProcessorOrder)
  BY <1>4, <1>9, OrderTypes
<1>11. Covers(k, m)
  <2>1. ASSUME NEW i \in 1..n PROVE m[ProcessorOrder[i]].attempts <= k[i].total
    <3>1. CASE i = n
      BY <1>2, <1>4, <1>6, <1>9, <3>1 DEF InTracker
    <3>2. CASE i # n
      <4>1. i \in 1..Len(h)
        BY <3>2
      <4> QED BY <1>2, <1>9, <4>1 DEF Covers
    <3> QED BY <3>1, <3>2
  <2> QED BY <1>9, <2>1 DEF Covers
<1>12. InTracker(m)'
  <2>1. \A x \in Names : Recorded(x)' = Recorded(x)
    BY DEF CollectHealth, Read, vars, sharedVars, Recorded
  <2> QED BY <1>2, <2>1, ConstantTypes DEF InTracker
<1> HIDE DEF n, p
<1>13. \E g \in Seq(Snapshots) : \E o :
         /\ view'[q] = [made |-> o, health |-> g]
         /\ Len(g) <= Len(ProcessorOrder) /\ InTracker(o)' /\ Covers(g, o)
  BY <1>8, <1>9, <1>10, <1>11, <1>12
<1> QED BY <1>13 DEF CollectedOK, Covers

LEMMA ReportMetricsMetrics ==
  ASSUME LedgerInv, MetricsInv, NEW q \in Readers, ReportMetrics(q) PROVE MetricsOK(q)'
<1>1. /\ stage[q] = "health" /\ CollectedOK(q) /\ Len(view[q].health) = Len(ProcessorOrder)
      /\ view'[q] = view[q]
  BY DEF ReportMetrics, MetricsInv, Read, LedgerInv, ReadersTypeOK
<1>0. PICK h \in Seq(Snapshots) : \E m :
        /\ view[q] = [made |-> m, health |-> h]
        /\ Len(h) <= Len(ProcessorOrder) /\ InTracker(m) /\ Covers(h, m)
  BY <1>1 DEF CollectedOK
<1>2. PICK m : /\ view[q] = [made |-> m, health |-> h] /\ Covers(h, m)
  BY <1>0
<1>3. view'[q].made = m /\ view'[q].health = h /\ Len(h) = Len(ProcessorOrder)
  BY <1>1, <1>2
<1> QED BY <1>2, <1>3, OrderTypes DEF MetricsOK, Covers

(* While outcomes do not expire and nobody resets, the attempts the metrics
   show for a processor are all in the health they show next to them, although
   the store and each processor's health are read one after the other while
   chains, reports and submissions go on (getProcessorMetrics). *)
THEOREM MetricsCovered ==
  ASSUME Lasting, "reset" \notin Operations
  PROVE  ReadersSpec => []MetricsInHealth
<1>1. Init => HealthLedgerSum
  BY InitHealthLedger
<1>2. TypeInv /\ ChainInv /\ PathInv /\ HealthLedgerSum /\ [Next]_vars => HealthLedgerSum'
  BY NextHealthLedger
<1>3. ReadersSpec => []LedgerInv
  <2>1. Spec => []HealthLedgerSum
    BY <1>1, <1>2, TypeInvariant, ChainInvariant, PathInvariant, PTL DEF Spec
  <2> QED BY <2>1, ReadersRefine, ReadersTypeInvariant, StoreInvariant, PathInvariant,
             OriginInvariant, PTL DEF LedgerInv
<1>4. ReadersInit => MetricsInv
  BY DEF ReadersInit, MetricsInv, CollectedOK, MetricsOK
<1>5. LedgerInv /\ MetricsInv /\ [ReadersNext]_allVars => MetricsInv'
  <2>1. ASSUME LedgerInv, MetricsInv, [Next]_vars, UNCHANGED readerVars PROVE MetricsInv'
    BY <2>1, MetricsKept DEF MetricsInv, readerVars
  <2>2. ASSUME LedgerInv, MetricsInv, NEW q \in Readers, ReaderStep(q) PROVE MetricsInv'
    <3>1. ReadersTypeOK
      BY <2>2 DEF LedgerInv
    <3>2. ReaderFrame(q) /\ [Next]_vars
      BY <2>2, <3>1, ReaderFrames DEF ReaderFrame
    <3>3. \A p \in Readers \ {q} : CollectedOK(p)' /\ MetricsOK(p)'
      BY <2>2, <3>2, MetricsKept DEF MetricsInv, ReaderFrame
    <3>4. CollectedOK(q)'
      <4>1. CASE stage'[q] = "health"
        BY <2>2, <3>1, <4>1, ReaderFrames, CollectAttemptsMetrics, CollectHealthMetrics
      <4> QED BY <4>1 DEF CollectedOK
    <3>5. MetricsOK(q)'
      <4>1. CASE stage'[q] = "metrics"
        BY <2>2, <3>1, <4>1, ReaderFrames, ReportMetricsMetrics
      <4> QED BY <4>1 DEF MetricsOK
    <3> QED BY <3>3, <3>4, <3>5 DEF MetricsInv
  <2> QED BY <2>1, <2>2 DEF ReadersNext, allVars, vars
<1>6. MetricsInv => MetricsInHealth
  BY DEF MetricsInv, MetricsOK, MetricsInHealth
<1> QED BY <1>3, <1>4, <1>5, <1>6, PTL DEF ReadersSpec
-----------------------------------------------------------------------------
(* The list of transactions.  What the loop of ListTransactions has kept of a
   sequence of transactions s after its first n. *)

KeptOf(s, filter, k) ==
  k = [n \in 0..Len(s) |->
         IF n = 0 THEN <<>>
         ELSE IF Matches(s[n], filter) THEN Append(k[n - 1], s[n]) ELSE k[n - 1]]

Kept(s, filter) == CHOOSE k : KeptOf(s, filter, k)

LEMMA MatchingKept ==
  ASSUME NEW filter PROVE Matching(filter) = Kept(Stored, filter)[Len(Stored)]
BY DEF Matching, Kept, KeptOf

(* The function exists: a solution for the first n extends to the next. *)
LEMMA KeptExists ==
  ASSUME NEW s, Len(s) \in Nat, NEW filter
  PROVE  \E k : KeptOf(s, filter, k)
<1> DEFINE Next1(k, i) == IF i = 0 THEN <<>>
                          ELSE IF Matches(s[i], filter) THEN Append(k[i - 1], s[i]) ELSE k[i - 1]
           Solves(k, n) == k = [i \in 0..n |-> Next1(k, i)]
           Good == {n \in Nat : \E k : Solves(k, n)}
<1>1. 0 \in Good
  <2> DEFINE k == [i \in 0..0 |-> <<>>]
  <2>1. Solves(k, 0)
    OBVIOUS
  <2> QED BY <2>1
<1>2. ASSUME NEW n \in Good PROVE n + 1 \in Good
  <2>1. PICK k : Solves(k, n)
    BY <1>2
  <2>2. n \in Nat
    BY <1>2
  <2> DEFINE h == [i \in 0..n+1 |-> IF i = n + 1 THEN Next1(k, n + 1) ELSE k[i]]
  <2>3. ASSUME NEW i \in 0..n PROVE h[i] = k[i] /\ k[i] = Next1(k, i)
    <3>1. k[i] = Next1(k, i)
      <4> HIDE DEF Next1
      <4> QED BY <2>1
    <3>2. i \in 0..n+1 /\ i # n + 1
      BY <2>2
    <3> HIDE DEF Next1
    <3> QED BY <3>1, <3>2
  <2>4. ASSUME NEW i \in 0..n+1 PROVE h[i] = Next1(h, i)
    <3>1. CASE i = 0
      <4>1. 0 \in 0..n /\ Next1(k, 0) = <<>> /\ Next1(h, 0) = <<>>
        BY <2>2
      <4> HIDE DEF Next1, h
      <4> QED BY <2>3, <3>1, <4>1
    <3>2. CASE i # 0
      <4>1. i - 1 \in 0..n /\ h[i - 1] = k[i - 1]
        BY <2>2, <2>3, <3>2
      <4>2. Next1(h, i) = Next1(k, i)
        BY <4>1
      <4>3. CASE i = n + 1
        BY <4>2, <4>3
      <4>4. CASE i # n + 1
        <5>1. i \in 0..n
          BY <2>2, <4>4
        <5> QED BY <2>3, <4>2, <5>1
      <4> QED BY <4>3, <4>4
    <3> QED BY <3>1, <3>2
  <2>5. Solves(h, n + 1)
    <3> HIDE DEF Next1
    <3> QED BY <2>4
  <2>6. n + 1 \in Nat
    BY <2>2
  <2> HIDE DEF Solves, h
  <2> QED BY <2>5, <2>6
<1>3. Good = Nat
  <2> HIDE DEF Solves
  <2> QED BY <1>1, <1>2, NatInductive
<1>4. PICK k : Solves(k, Len(s))
  BY <1>3
<1> QED BY <1>4 DEF KeptOf

LEMMA KeptSteps ==
  ASSUME NEW s, Len(s) \in Nat, NEW filter
  PROVE  /\ Kept(s, filter)[0] = <<>>
         /\ \A n \in 0..Len(s)-1 :
              Kept(s, filter)[n + 1] = IF Matches(s[n + 1], filter)
                                         THEN Append(Kept(s, filter)[n], s[n + 1])
                                         ELSE Kept(s, filter)[n]
<1>1. PICK k : k = Kept(s, filter)
  OBVIOUS
<1>2. KeptOf(s, filter, k)
  BY <1>1, KeptExists DEF Kept
<1>3. \A n \in 0..Len(s) :
        k[n] = IF n = 0 THEN <<>>
               ELSE IF Matches(s[n], filter) THEN Append(k[n - 1], s[n]) ELSE k[n - 1]
  BY <1>2 DEF KeptOf
<1>4. k[0] = <<>>
  BY <1>3
<1>5. ASSUME NEW n \in 0..Len(s)-1
      PROVE  k[n + 1] = IF Matches(s[n + 1], filter) THEN Append(k[n], s[n + 1]) ELSE k[n]
  <2>1. n + 1 \in 0..Len(s) /\ n + 1 # 0 /\ (n + 1) - 1 = n
    OBVIOUS
  <2> QED BY <1>3, <2>1
<1> QED BY <1>1, <1>4, <1>5

(* It keeps transactions that match, all that match, and each once. *)
MatchesOnly(s, filter, m, n) == \A i \in 1..Len(m) : \E j \in 1..n : m[i] = s[j] /\ Matches(s[j], filter)
AllMatches(s, filter, m, n)  == \A j \in 1..n : Matches(s[j], filter) => \E i \in 1..Len(m) : m[i] = s[j]
IdsDiffer(s, n) == \A i, j \in 1..n : s[i].event.id = s[j].event.id => i = j

LEMMA KeptSelects ==
  ASSUME NEW T, NEW s \in Seq(T), NEW filter, IdsDiffer(s, Len(s)), NEW n \in 0..Len(s)
  PROVE  LET m == Kept(s, filter)[n]
         IN  m \in Seq(T) /\ MatchesOnly(s, filter, m, n) /\ AllMatches(s, filter, m, n)
             /\ IdsDiffer(m, Len(m))
<1> DEFINE Selects(m, i) == /\ m \in Seq(T) /\ MatchesOnly(s, filter, m, i)
                            /\ AllMatches(s, filter, m, i) /\ IdsDiffer(m, Len(m))
           k == Kept(s, filter)
           Good == {i \in Nat : i <= Len(s) => Selects(k[i], i)}
<1>0. Len(s) \in Nat /\ \A i \in 1..Len(s) : s[i] \in T
  OBVIOUS
<1>1. 0 \in Good
  <2>1. k[0] = <<>>
    BY <1>0, KeptSteps
  <2>2. Selects(<<>>, 0)
    BY DEF MatchesOnly, AllMatches, IdsDiffer
  <2> QED BY <2>1, <2>2
<1>2. ASSUME NEW i \in Good PROVE i + 1 \in Good
  <2>1. SUFFICES ASSUME i + 1 <= Len(s) PROVE Selects(k[i + 1], i + 1)
    OBVIOUS
  <2>2. i \in 0..Len(s)-1 /\ i + 1 \in 1..Len(s) /\ i \in Nat
    BY <1>0, <2>1
  <2>3. PICK m : m = k[i]
    OBVIOUS
  <2>4. Selects(m, i)
    BY <1>0, <2>2, <2>3
  <2>5. PICK t \in T : t = s[i + 1]
    BY <1>0, <2>2
  <2>6. k[i + 1] = IF Matches(t, filter) THEN Append(m, t) ELSE m
    BY <1>0, <2>2, <2>3, <2>5, KeptSteps
  <2>7. \A j \in 1..i+1 : j \in 1..i \/ j = i + 1
    BY <2>2
  <2>8. 1..i \subseteq 1..i+1 /\ i + 1 \in 1..i+1
    BY <2>2
  <2> HIDE DEF k, Good
  <2>9. CASE ~Matches(t, filter)
    <3>1. MatchesOnly(s, filter, m, i + 1)
      BY <2>4, <2>8 DEF MatchesOnly
    <3>2. AllMatches(s, filter, m, i + 1)
      BY <2>4, <2>5, <2>7, <2>9 DEF AllMatches
    <3> QED BY <2>4, <2>6, <2>9, <3>1, <3>2
  <2>10. CASE Matches(t, filter)
    <3>1. PICK u : u = Append(m, t)
      OBVIOUS
    <3>2. /\ Len(m) \in Nat /\ u \in Seq(T) /\ Len(u) = Len(m) + 1 /\ u[Len(m) + 1] = t
          /\ \A j \in 1..Len(m) : u[j] = m[j] /\ j \in 1..Len(u)
          /\ Len(m) + 1 \in 1..Len(u)
          /\ \A j \in 1..Len(u) : j \in 1..Len(m) \/ j = Len(m) + 1
      BY <2>4, <3>1
    <3>3. MatchesOnly(s, filter, u, i + 1)
      BY <2>4, <2>5, <2>8, <2>10, <3>2 DEF MatchesOnly
    <3>4. AllMatches(s, filter, u, i + 1)
      BY <2>4, <2>5, <2>7, <3>2 DEF AllMatches
    <3>5. ASSUME NEW j \in 1..Len(m) PROVE u[j].event.id # t.event.id
      <4>1. PICK x \in 1..i : m[j] = s[x]
        BY <2>4 DEF MatchesOnly
      <4>2. x \in 1..Len(s) /\ x # i + 1
        BY <1>0, <2>1, <2>2
      <4> QED BY <2>2, <2>5, <3>2, <4>1, <4>2 DEF IdsDiffer
    <3>6. IdsDiffer(u, Len(u))
      BY <2>4, <3>2, <3>5 DEF IdsDiffer
    <3> QED BY <2>6, <2>10, <3>1, <3>2, <3>3, <3>4, <3>6
  <2> QED BY <2>9, <2>10
<1>3. Good = Nat
  <2> HIDE DEF Good
  <2> QED BY <1>1, <1>2, NatInductive DEF Good
<1>4. n \in Nat /\ n <= Len(s)
  BY <1>0
<1>5. Selects(k[n], n)
  BY <1>3, <1>4
<1> QED BY <1>5

(* Of two sequences with the same events the same is kept, as long as the
   filter does not look at the status. *)
SameEvents(m, w, n) == \A i \in 1..n : m[i].event = w[i].event

SameChoice(f, g) == f.status = Nil /\ g.status = Nil /\ f.processor = g.processor

LEMMA KeptAgrees ==
  ASSUME NEW T, NEW s \in Seq(T), NEW u \in Seq(T), Len(s) <= Len(u), SameEvents(s, u, Len(s)),
         NEW filter, NEW later, SameChoice(filter, later)
  PROVE  LET m == Kept(s, filter)[Len(s)]
             w == Kept(u, later)[Len(s)]
         IN  m \in Seq(T) /\ w \in Seq(T) /\ Len(m) = Len(w) /\ SameEvents(m, w, Len(m))
<1> DEFINE Agree(m, w) == m \in Seq(T) /\ w \in Seq(T) /\ Len(m) = Len(w) /\ SameEvents(m, w, Len(m))
           k == Kept(s, filter)
           h == Kept(u, later)
           Good == {i \in Nat : i <= Len(s) => Agree(k[i], h[i])}
<1>0. Len(s) \in Nat /\ Len(u) \in Nat /\ (\A i \in 1..Len(s) : s[i] \in T /\ u[i] \in T)
  OBVIOUS
<1>1. 0 \in Good
  <2>1. k[0] = <<>> /\ h[0] = <<>>
    BY <1>0, KeptSteps
  <2>2. Agree(<<>>, <<>>)
    BY DEF SameEvents
  <2> QED BY <2>1, <2>2
<1>2. ASSUME NEW i \in Good PROVE i + 1 \in Good
  <2>1. SUFFICES ASSUME i + 1 <= Len(s) PROVE Agree(k[i + 1], h[i + 1])
    OBVIOUS
  <2>2. i \in 0..Len(s)-1 /\ i + 1 \in 1..Len(s) /\ i \in 0..Len(u)-1
    BY <1>0, <2>1
  <2>3. PICK m, w : m = k[i] /\ w = h[i]
    OBVIOUS
  <2>4. Agree(m, w)
    BY <1>0, <2>2, <2>3
  <2>5. PICK t \in T, v \in T : t = s[i + 1] /\ v = u[i + 1]
    BY <1>0, <2>2
  <2>6. k[i + 1] = IF Matches(t, filter) THEN Append(m, t) ELSE m
    BY <1>0, <2>2, <2>3, <2>5, KeptSteps
  <2>7. h[i + 1] = IF Matches(v, later) THEN Append(w, v) ELSE w
    BY <1>0, <2>2, <2>3, <2>5, KeptSteps
  <2>8. t.event = v.event
    BY <2>2, <2>5 DEF SameEvents
  <2>9. Matches(t, filter) <=> Matches(v, later)
    BY <2>8 DEF Matches, SameChoice
  <2> HIDE DEF k, h, Good
  <2>10. Agree(Append(m, t), Append(w, v))
    BY <2>4, <2>8 DEF SameEvents
  <2> HIDE DEF Agree
  <2> QED BY <2>4, <2>6, <2>7, <2>9, <2>10
<1>3. Good = Nat
  <2> HIDE DEF Good
  <2> QED BY <1>1, <1>2, NatInductive DEF Good
<1>4. Agree(k[Len(s)], h[Len(s)])
  BY <1>0, <1>3
<1> QED BY <1>4

(* One transaction more in the list, at its end, moves no other. *)
LEMMA KeptGrows ==
  ASSUME NEW T, NEW s \in Seq(T), NEW u \in Seq(T), Len(u) \in {Len(s), Len(s) + 1},
         SameEvents(s, u, Len(s)), NEW filter, NEW later, SameChoice(filter, later)
  PROVE  LET m == Kept(s, filter)[Len(s)]
             w == Kept(u, later)[Len(u)]
         IN  /\ m \in Seq(T) /\ w \in Seq(T)
             /\ Len(m) <= Len(w) /\ SameEvents(m, w, Len(m))
<1>1. Len(s) \in Nat /\ Len(u) \in Nat /\ Len(s) <= Len(u)
  OBVIOUS
<1>2. PICK m, w : m = Kept(s, filter)[Len(s)] /\ w = Kept(u, later)[Len(s)]
  OBVIOUS
<1>3. m \in Seq(T) /\ w \in Seq(T) /\ Len(m) = Len(w) /\ SameEvents(m, w, Len(m))
  BY <1>1, <1>2, KeptAgrees
<1>4. CASE Len(u) = Len(s)
  BY <1>2, <1>3, <1>4
<1>5. CASE Len(u) = Len(s) + 1
  <2>1. PICK t \in T : t = u[Len(s) + 1]
    BY <1>1, <1>5
  <2>2. Len(s) \in 0..Len(u)-1
    BY <1>1, <1>5
  <2>3. Kept(u, later)[Len(s) + 1] = IF Matches(t, later) THEN Append(w, t) ELSE w
    BY <1>1, <1>2, <2>1, <2>2, KeptSteps
  <2>4. PICK v : v = Append(w, t)
    OBVIOUS
  <2>5. v \in Seq(T) /\ Len(m) <= Len(v) /\ SameEvents(m, v, Len(m))
    BY <1>3, <2>4 DEF SameEvents
  <2>6. Len(m) <= Len(w)
    BY <1>3
  <2> QED BY <1>2, <1>3, <1>5, <2>3, <2>4, <2>5, <2>6
<1> QED BY <1>1, <1>4, <1>5

-----------------------------------------------------------------------------
(* As long as nothing is reset, the store only grows *)

(* A request that is going to write its copy of a transaction back holds one
   that is stored with the same event. *)
EventOK(r) == pc[r] \in InChain \cup Reporting =>
  /\ tx[r].event.id \in TxnIds /\ Exists(tx[r].event.id)
  /\ transactions[tx[r].event.id].event = tx[r].event

EventInv == \A r \in Requests : EventOK(r)

EventsStay == \A id \in TxnIds : Exists(id) =>
  transactions'[id] # Nil /\ transactions'[id].event = transactions[id].event

OrderGrows == txOrder' = txOrder \/ \E id \in TxnIds : txOrder' = Append(txOrder, id)

LEMMA UpdateKeepsEvents ==
  ASSUME StoreTypeOK, NEW id \in TxnIds, NEW t \in Transactions, UpdateTransaction(id, t),
         t.event = transactions[id].event
  PROVE  EventsStay /\ OrderGrows
<1>1. txOrder' = txOrder
  BY DEF UpdateTransaction
<1>2. ASSUME NEW other \in TxnIds, Exists(other)
      PROVE  transactions'[other] # Nil /\ transactions'[other].event = transactions[other].event
  <2>1. CASE other = id
    <3>1. transactions'[id] = t
      BY <1>2, <2>1 DEF UpdateTransaction, StoreTypeOK
    <3> QED BY <2>1, <3>1, NilAssumption
  <2>2. CASE other # id
    <3>1. transactions'[other] = transactions[other]
      BY <2>2 DEF UpdateTransaction, StoreTypeOK
    <3> QED BY <1>2, <3>1 DEF Exists
  <2> QED BY <2>1, <2>2
<1> QED BY <1>1, <1>2 DEF EventsStay, OrderGrows

LEMMA SaveKeepsEvents ==
  ASSUME StoreTypeOK, NEW id \in TxnIds, NEW t, ~Exists(id), SaveTransaction(id, t)
  PROVE  EventsStay /\ OrderGrows /\ transactions'[id] = t
<1>1. \A other \in TxnIds \ {id} : transactions'[other] = transactions[other]
  BY DEF SaveTransaction, StoreTypeOK
<1>2. ASSUME NEW other \in TxnIds, Exists(other)
      PROVE  transactions'[other] # Nil /\ transactions'[other].event = transactions[other].event
  <2>1. other # id
    BY <1>2
  <2> QED BY <1>1, <1>2, <2>1 DEF Exists
<1>3. transactions'[id] = t
  BY DEF SaveTransaction, StoreTypeOK
<1> QED BY <1>2, <1>3 DEF EventsStay, OrderGrows, SaveTransaction

(* The steps that write to the store. *)
LEMMA StoreWriters ==
  ASSUME [Next]_vars
  PROVE  \/ UNCHANGED <<transactions, txOrder>>
         \/ \E r \in Requests : SaveHard(r) \/ SaveSoft(r) \/ FinishChain(r) \/ ReportUpdate(r)
                                \/ ResetStore(r)
<1>1. ASSUME NEW r \in Requests, ArriveAny(r) \/ Serve(r)
      PROVE  \/ UNCHANGED <<transactions, txOrder>>
             \/ SaveHard(r) \/ SaveSoft(r) \/ FinishChain(r) \/ ReportUpdate(r) \/ ResetStore(r)
  BY <1>1 DEF ArriveAny, Submit, Report, Reset, Arrive, Serve, ProcessFailureStep,
         RecordRetryOutcomeStep, ResetStep, RecordFailure, RejectDuplicate, PlanAttempt, ScanHealth,
         ScanAdaptive, SelectTarget, Simulate, RecordHealth, LearnOutcome, LogDecision,
         SaveDecisionLog, FetchUnknown, Fetch, ReportHealth, ReportAdaptive, ResetHealth,
         sharedVars, storeVars
<1>2. CASE UNCHANGED vars \/ ClockTick \/ Quiet
  BY <1>2 DEF ClockTick, Quiet, vars, sharedVars, storeVars
<1> QED BY <1>1, <1>2 DEF Next

LEMMA StoreGrows ==
  ASSUME "reset" \notin Operations, TypeInv, ChainInv, PathInv, EventInv, [Next]_vars
  PROVE  EventsStay /\ OrderGrows
<1>0. StoreTypeOK
  BY DEF TypeInv, TypeOK
<1>1. CASE UNCHANGED <<transactions, txOrder>>
  BY <1>1 DEF EventsStay, OrderGrows, Exists
<1>2. ASSUME NEW r \in Requests, SaveHard(r) \/ SaveSoft(r) PROVE EventsStay /\ OrderGrows
  <2>1. call[r] \in Submissions /\ call[r].event.id \in TxnIds
    BY <1>2, EventType DEF SaveHard, SaveSoft, Answer, Goto, TypeInv, StageOK
  <2>2. PICK id, t : id = call[r].event.id /\ t = tx'[r]
    OBVIOUS
  <2>3. ~Exists(id) /\ SaveTransaction(id, t)
    BY <1>2, <2>2 DEF SaveHard, SaveSoft
  <2> QED BY <1>0, <2>1, <2>2, <2>3, SaveKeepsEvents
<1>3. ASSUME NEW r \in Requests, FinishChain(r) PROVE EventsStay /\ OrderGrows
  <2>1. pc[r] \in InChain /\ tx[r] \in Transactions
    BY <1>3 DEF FinishChain, Answer, Goto, TypeInv, StageOK, InChain
  <2>2. tx[r].event.id \in TxnIds /\ tx[r].event = transactions[tx[r].event.id].event
    BY <2>1 DEF EventInv, EventOK
  <2> QED BY <1>0, <1>3, <2>1, <2>2, UpdateKeepsEvents DEF FinishChain
<1>4. ASSUME NEW r \in Requests, ReportUpdate(r) PROVE EventsStay /\ OrderGrows
  <2>1. pc[r] \in Reporting /\ tx[r] \in Transactions /\ tx[r].event.id = call[r].id
    BY <1>4 DEF ReportUpdate, Answer, Goto, TypeInv, StageOK, Reporting, ChainInv, WorkOK, RecordOK
  <2>2. tx[r].event.id \in TxnIds /\ tx[r].event = transactions[tx[r].event.id].event
    BY <2>1 DEF EventInv, EventOK
  <2> QED BY <1>0, <1>4, <2>1, <2>2, UpdateKeepsEvents DEF ReportUpdate
<1>5. \A r \in Requests : ~ResetStore(r)
  BY DEF ResetStore, Goto, PathInv, PathOK
<1> QED BY <1>1, <1>2, <1>3, <1>4, <1>5, StoreWriters

LEMMA EventKept ==
  ASSUME EventsStay, NEW r \in Requests, EventOK(r), pc[r] \in InChain \cup Reporting,
         tx'[r].event = tx[r].event
  PROVE  EventOK(r)'
<1>1. PICK e : e = tx[r].event
  OBVIOUS
<1>2. e.id \in TxnIds /\ Exists(e.id) /\ transactions[e.id].event = e
  BY <1>1 DEF EventOK
<1>3. transactions'[e.id] # Nil /\ transactions'[e.id].event = e
  BY <1>2 DEF EventsStay
<1> QED BY <1>1, <1>3 DEF EventOK, Exists

LEMMA NextEvents ==
  ASSUME "reset" \notin Operations, TypeInv, ChainInv, PathInv, EventInv, [Next]_vars
  PROVE  EventInv'
<1> SUFFICES ASSUME NEW r \in Requests, pc'[r] \in InChain \cup Reporting PROVE EventOK(r)'
  BY DEF EventInv, EventOK
<1>1. EventsStay /\ EventOK(r)
  BY StoreGrows DEF EventInv
<1>2. CASE UNCHANGED localVars
  BY <1>1, <1>2, EventKept DEF localVars
<1>3. ASSUME NEW q \in Requests \ {r}, ArriveAny(q) \/ Serve(q) PROVE EventOK(r)'
  BY <1>1, <1>3, ServeFrame, EventKept DEF Frame
<1>4. CASE SaveSoft(r)
  <2>1. call[r] \in Submissions /\ call[r].event.id \in TxnIds
    BY <1>4, EventType DEF SaveSoft, Goto, TypeInv, StageOK
  <2>2. PICK id, t : id = call[r].event.id /\ t = tx'[r]
    OBVIOUS
  <2>3. ~Exists(id) /\ SaveTransaction(id, t) /\ t = NewTransaction(call[r].event, "RETRYING")
    BY <1>4, <2>2 DEF SaveSoft, TypeInv, TypeOK, RequestTypeOK
  <2>4. transactions'[id] = t
    BY <2>1, <2>2, <2>3, SaveKeepsEvents DEF TypeInv, TypeOK
  <2>5. t \in Transactions /\ t.event.id = id
    <3>1. PICK e \in Events : e = call[r].event
      BY <2>1, EventType
    <3>2. t = NewTransaction(e, "RETRYING") /\ e.id = id
      BY <2>2, <2>3, <3>1
    <3>3. t.event = e
      BY <3>2 DEF NewTransaction
    <3> QED BY <3>2, <3>3, NewTransactionType DEF Statuses
  <2> QED BY <2>1, <2>2, <2>4, <2>5, NilAssumption DEF EventOK, Exists
<1>5. CASE Fetch(r)
  <2>1. PICK id, t : id = call[r].id /\ t = transactions[id]
    OBVIOUS
  <2>2. id \in TxnIds /\ Exists(id) /\ tx'[r] = t /\ transactions' = transactions
    BY <1>5, <2>1 DEF Fetch, Goto, TypeInv, TypeOK, RequestTypeOK, StageOK, Reports,
                      sharedVars
  <2>3. t.event.id = id
    BY <2>1, <2>2 DEF ChainInv, StoredOK, RecordOK
  <2> QED BY <2>1, <2>2, <2>3 DEF EventOK, Exists
<1>6. CASE SelectTarget(r)
  BY <1>1, <1>6, SelectTargetRoutes, EventKept DEF InChain
<1>7. CASE Simulate(r) \/ LogDecision(r) \/ ReportAdaptive(r)
  <2>1. pc[r] \in InChain \cup Reporting /\ tx[r] \in Transactions
    BY <1>7 DEF Simulate, LogDecision, ReportAdaptive, Goto, TypeInv, StageOK, InChain, Reporting
  <2>2. tx'[r].event = tx[r].event
    <3>1. CASE Simulate(r) \/ LogDecision(r)
      <4>1. pc[r] \in InChain /\ pc'[r] \in InChain /\ call'[r] = call[r]
        BY <3>1 DEF Simulate, LogDecision, Goto, InChain, TypeInv, TypeOK, RequestTypeOK
      <4>2. TypeInv'
        BY NextType
      <4> QED BY <4>1, <4>2 DEF TypeInv, StageOK
    <3>2. CASE ReportAdaptive(r)
      <4>1. tx'[r] = [tx[r] EXCEPT !.status = StatusAfterReport(r)]
        BY <3>2 DEF ReportAdaptive, TypeInv, TypeOK, RequestTypeOK
      <4> QED BY <2>1, <4>1 DEF Transactions
    <3> QED BY <1>7, <3>1, <3>2
  <2> QED BY <1>1, <2>1, <2>2, EventKept
<1>8. CASE \/ PlanAttempt(r) \/ ScanHealth(r) \/ ScanAdaptive(r) \/ RecordHealth(r)
           \/ LearnOutcome(r) \/ ReportHealth(r)
  <2>1. pc[r] \in InChain \cup Reporting /\ tx'[r] = tx[r]
    BY <1>8 DEF PlanAttempt, ScanHealth, ScanAdaptive, RecordHealth, LearnOutcome, ReportHealth,
                Goto, InChain, Reporting
  <2> QED BY <1>1, <2>1, EventKept
<1>9. ASSUME ArriveAny(r) \/ Serve(r)
      PROVE  \/ SaveSoft(r) \/ Fetch(r) \/ SelectTarget(r) \/ Simulate(r) \/ LogDecision(r)
             \/ ReportAdaptive(r) \/ PlanAttempt(r) \/ ScanHealth(r) \/ ScanAdaptive(r)
             \/ RecordHealth(r) \/ LearnOutcome(r) \/ ReportHealth(r)
  <2>1. CASE ArriveAny(r)
    BY <2>1 DEF ArriveAny, Submit, Report, Reset, Arrive, Goto, TypeInv, TypeOK,
                RequestTypeOK, InChain, Reporting
  <2>2. CASE RecordFailure(r) \/ RejectDuplicate(r) \/ SaveHard(r) \/ FinishChain(r)
    BY <2>2 DEF RecordFailure, RejectDuplicate, SaveHard, FinishChain, Answer, Goto, TypeInv,
                TypeOK, RequestTypeOK, InChain, Reporting
  <2>3. CASE FetchUnknown(r) \/ ReportUpdate(r) \/ ResetStore(r) \/ ResetHealth(r)
    BY <2>3 DEF FetchUnknown, ReportUpdate, ResetStore, ResetHealth, Answer, Goto, TypeInv,
                TypeOK, RequestTypeOK, InChain, Reporting
  <2> QED BY <1>9, <2>1, <2>2, <2>3 DEF Serve, ProcessFailureStep, RecordRetryOutcomeStep, ResetStep
<1> QED BY <1>2, <1>3, <1>4, <1>5, <1>6, <1>7, <1>8, <1>9 DEF Next, ClockTick, Quiet, vars

(* Without resets what a request is going to write back is stored already,
   with the same event (ProcessFailure, RecordRetryOutcome). *)
LEMMA EventInvariant == ASSUME "reset" \notin Operations PROVE Spec => []EventInv
<1>1. Init => EventInv
  BY DEF Init, EventInv, EventOK, InChain, Reporting
<1>2. TypeInv /\ ChainInv /\ PathInv /\ EventInv /\ [Next]_vars => EventInv'
  BY NextEvents
<1> QED BY <1>1, <1>2, TypeInvariant, ChainInvariant, PathInvariant, PTL DEF Spec

-----------------------------------------------------------------------------
(* A client that walks the pages *)

StoredListOK ==
  /\ txOrder \in Seq(TxnIds) /\ Stored \in Seq(Transactions) /\ Len(Stored) = Len(txOrder)
  /\ \A i \in 1..Len(txOrder) : /\ Stored[i] = transactions[txOrder[i]]
                                /\ txOrder[i] \in TxnIds /\ Exists(txOrder[i])
                                /\ Stored[i].event.id = txOrder[i]
  /\ \A id \in TxnIds : Exists(id) => \E i \in 1..Len(txOrder) : txOrder[i] = id
  /\ IdsDiffer(Stored, Len(Stored))

LEMMA StoredList == StoreInv => StoredListOK
<1> SUFFICES ASSUME StoreInv PROVE StoredListOK
  OBVIOUS
<1>1. txOrder \in Seq(TxnIds) /\ Len(txOrder) \in Nat /\ DOMAIN txOrder = 1..Len(txOrder)
  BY DEF StoreInv, TypeInv, TypeOK, StoreTypeOK
<1>2. ASSUME NEW i \in 1..Len(txOrder)
      PROVE  /\ Stored[i] = transactions[txOrder[i]] /\ Stored[i] \in Transactions
             /\ txOrder[i] \in TxnIds /\ Exists(txOrder[i]) /\ Stored[i].event.id = txOrder[i]
  <2>1. Stored[i] = transactions[txOrder[i]] /\ txOrder[i] \in TxnIds
    BY <1>1 DEF Stored
  <2>2. Exists(txOrder[i])
    BY <1>1, <2>1 DEF StoreInv, OrderListsStore
  <2>3. transactions[txOrder[i]] \in Transactions
    BY <2>1, <2>2 DEF StoreInv, TypeInv, TypeOK, StoreTypeOK, Exists
  <2> QED BY <2>1, <2>2, <2>3 DEF StoreInv, ChainInv, StoredOK, RecordOK
<1>3. Stored \in Seq(Transactions) /\ Len(Stored) = Len(txOrder)
  <2>1. Stored = [i \in 1..Len(txOrder) |-> Stored[i]]
    BY <1>1 DEF Stored
  <2> QED BY <1>1, <1>2, <2>1
<1>4. IdsDiffer(Stored, Len(Stored))
  BY <1>1, <1>2, <1>3 DEF IdsDiffer, StoreInv, OrderListsStore
<1>5. \A id \in TxnIds : Exists(id) => \E i \in 1..Len(txOrder) : txOrder[i] = id
  BY <1>1 DEF StoreInv, OrderListsStore
<1> QED BY <1>1, <1>2, <1>3, <1>4, <1>5 DEF StoredListOK

(* The pages are cut from a list of all that matches, each once. *)
LEMMA MatchingList ==
  ASSUME StoredListOK, NEW filter
  PROVE  LET m == Matching(filter)
         IN  /\ m \in Seq(Transactions) /\ IdsDiffer(m, Len(m))
             /\ \A id \in TxnIds : Exists(id) /\ Matches(transactions[id], filter) =>
                  \E i \in 1..Len(m) : m[i].event.id = id
<1>1. PICK s, m : s = Stored /\ m = Matching(filter)
  OBVIOUS
<1>2. s \in Seq(Transactions) /\ Len(s) \in Nat /\ IdsDiffer(s, Len(s)) /\ m = Kept(s, filter)[Len(s)]
      /\ Len(s) \in 0..Len(s)
  BY <1>1, MatchingKept DEF StoredListOK
<1>3. m \in Seq(Transactions) /\ AllMatches(s, filter, m, Len(s)) /\ IdsDiffer(m, Len(m))
  BY <1>2, KeptSelects
<1>4. ASSUME NEW id \in TxnIds, Exists(id), Matches(transactions[id], filter)
      PROVE  \E i \in 1..Len(m) : m[i].event.id = id
  <2>1. PICK j \in 1..Len(s) : s[j] = transactions[id] /\ s[j].event.id = id
    BY <1>1, <1>4 DEF StoredListOK
  <2> QED BY <1>3, <1>4, <2>1 DEF AllMatches
<1> QED BY <1>1, <1>3, <1>4

(* A step keeps the list a client is walking, or adds to its end. *)
LEMMA MatchingGrows ==
  ASSUME StoredListOK, StoredListOK', EventsStay, OrderGrows,
         NEW filter, NEW later, SameChoice(filter, later)
  PROVE  LET m == Matching(filter)
             w == Matching(later)'
         IN  /\ m \in Seq(Transactions) /\ w \in Seq(Transactions)
             /\ Len(m) <= Len(w) /\ SameEvents(m, w, Len(m))
<1>1. PICK s, u : s = Stored /\ u = Stored'
  OBVIOUS
<1>2. s \in Seq(Transactions) /\ u \in Seq(Transactions) /\ Len(s) \in Nat /\ Len(u) \in Nat
  BY <1>1 DEF StoredListOK
<1>3. Len(s) = Len(txOrder) /\ Len(u) = Len(txOrder') /\ Len(u) \in {Len(s), Len(s) + 1}
      /\ \A i \in 1..Len(s) : i \in 1..Len(u) /\ txOrder'[i] = txOrder[i]
  <2>1. txOrder \in Seq(TxnIds)
    BY DEF StoredListOK
  <2> QED BY <1>1, <1>2, <2>1 DEF StoredListOK, OrderGrows
<1>4. SameEvents(s, u, Len(s))
  <2> SUFFICES ASSUME NEW i \in 1..Len(s) PROVE s[i].event = u[i].event
    BY DEF SameEvents
  <2>1. PICK id \in TxnIds : id = txOrder[i]
    BY <1>3 DEF StoredListOK
  <2>2. s[i] = transactions[id] /\ Exists(id)
    BY <1>1, <1>3, <2>1 DEF StoredListOK
  <2>3. u[i] = transactions'[id]
    BY <1>1, <1>3, <2>1 DEF StoredListOK
  <2> QED BY <2>2, <2>3 DEF EventsStay
<1>5. Matching(filter) = Kept(s, filter)[Len(s)]
  BY <1>1, MatchingKept
<1>6. Matching(later)' = Kept(u, later)[Len(u)]
  BY <1>1 DEF Matching, Kept, KeptOf
<1> QED BY <1>2, <1>3, <1>4, <1>5, <1>6, KeptGrows

(* What a walking client has seen are the first of the transactions its filter
   lets through, and what it knew when it started is still there. *)
SeenOf(S, m) == Len(S) <= Len(m) /\ \A i \in 1..Len(S) : S[i] = m[i].event.id

KnownOf(K, f) == \A id \in K : id \in TxnIds /\ Exists(id) /\ Matches(transactions[id], f)

Filters == [status : {Nil}, processor : Processors \cup {Nil}, limit : Nat \ {0}, offset : Nat]

Walking(f, K, S) == /\ f \in Filters /\ S \in Seq(TxnIds) /\ f.offset = Len(S)
                    /\ SeenOf(S, Matching(f)) /\ KnownOf(K, f)

WalkOK(q) == stage[q] = "walk" =>
  \E f, K, S : view[q] = [filter |-> f, known |-> K, seen |-> S] /\ Walking(f, K, S)

Distinct(S) == \A i, j \in DOMAIN S : S[i] = S[j] => i = j

WalkedOK(q) == stage[q] = "walked" =>
  Distinct(view[q].seen) /\ view[q].known \subseteq ToSet(view[q].seen)

WalkInv == \A q \in Readers : WalkOK(q) /\ WalkedOK(q)

(* All that the theorem rests on. *)
ListInv == /\ TypeInv /\ ChainInv /\ PathInv /\ EventInv /\ StoredListOK /\ ReadersTypeOK

LEMMA KnownKept ==
  ASSUME EventsStay, NEW K, NEW f, f.status = Nil, KnownOf(K, f) PROVE KnownOf(K, f)'
<1> SUFFICES ASSUME NEW id \in K
             PROVE  id \in TxnIds /\ transactions'[id] # Nil /\ Matches(transactions'[id], f)
  BY DEF KnownOf, Exists
<1>1. id \in TxnIds /\ Exists(id) /\ f.processor \in {Nil, transactions[id].event.processor}
  BY DEF KnownOf, Matches
<1>2. transactions'[id] # Nil /\ transactions'[id].event = transactions[id].event
  BY <1>1 DEF EventsStay
<1> QED BY <1>1, <1>2 DEF Matches

LEMMA WalkKept ==
  ASSUME StoredListOK, StoredListOK', EventsStay, OrderGrows, NEW q \in Readers,
         WalkOK(q), WalkedOK(q), stage'[q] = stage[q], view'[q] = view[q]
  PROVE  WalkOK(q)' /\ WalkedOK(q)'
<1>1. WalkOK(q)'
  <2> SUFFICES ASSUME stage[q] = "walk"
               PROVE  \E f, K, S : view'[q] = [filter |-> f, known |-> K, seen |-> S]
                                   /\ Walking(f, K, S)'
    BY DEF WalkOK
  <2>1. PICK f, K, S : view[q] = [filter |-> f, known |-> K, seen |-> S] /\ Walking(f, K, S)
    BY DEF WalkOK
  <2>2. f \in Filters /\ f.status = Nil /\ SameChoice(f, f)
    BY <2>1 DEF Walking, Filters, SameChoice
  <2>3. KnownOf(K, f)'
    BY <2>1, <2>2, KnownKept DEF Walking
  <2>4. PICK m, w : m = Matching(f) /\ w = Matching(f)'
    OBVIOUS
  <2>5. m \in Seq(Transactions) /\ w \in Seq(Transactions)
        /\ Len(m) <= Len(w) /\ SameEvents(m, w, Len(m))
    BY <2>2, <2>4, MatchingGrows
  <2>6. S \in Seq(TxnIds) /\ SeenOf(S, m)
    BY <2>1, <2>4 DEF Walking
  <2>7. SeenOf(S, w)
    BY <2>5, <2>6 DEF SeenOf, SameEvents
  <2>8. Walking(f, K, S)'
    BY <2>1, <2>3, <2>4, <2>7 DEF Walking, SeenOf
  <2> QED BY <2>1, <2>8
<1> QED BY <1>1 DEF WalkedOK, Distinct

LEMMA StartWalkWalk ==
  ASSUME ListInv, NEW q \in Readers, StartWalk(q) PROVE WalkOK(q)'
<1>1. PICK asked \in PageLimits, p \in Processors \cup {Nil} :
        LET filter == [status |-> Nil, processor |-> p, limit |-> Limit(asked), offset |-> 0]
        IN  Read(q, "idle", "walk",
                 [filter |-> filter,
                  known  |-> {id \in TxnIds : Exists(id) /\ Matches(transactions[id], filter)},
                  seen   |-> <<>>])
  BY DEF StartWalk
<1>2. PICK f : f = [status |-> Nil, processor |-> p, limit |-> Limit(asked), offset |-> 0]
  OBVIOUS
<1>3. PICK K : K = {id \in TxnIds : Exists(id) /\ Matches(transactions[id], f)}
  OBVIOUS
<1>4. Read(q, "idle", "walk", [filter |-> f, known |-> K, seen |-> <<>>])
  BY <1>1, <1>2, <1>3
<1>5. view'[q] = [filter |-> f, known |-> K, seen |-> <<>>] /\ UNCHANGED vars
  BY <1>4 DEF Read, ListInv, ReadersTypeOK
<1>6. f \in Filters /\ f.offset = Len(<<>>)
  <2>1. Limit(asked) \in Nat \ {0}
    BY ReadersAssumption DEF Limit
  <2> QED BY <1>2, <2>1 DEF Filters
<1>7. KnownOf(K, f)'
  BY <1>3, <1>5 DEF KnownOf, Exists, vars, sharedVars
<1>8. <<>> \in Seq(TxnIds) /\ SeenOf(<<>>, Matching(f)')
  <2>1. Matching(f)' = Matching(f)
    BY <1>5 DEF Matching, Stored, vars, sharedVars
  <2>2. Len(Matching(f)) \in Nat
    BY MatchingList DEF ListInv
  <2> QED BY <2>1, <2>2 DEF SeenOf
<1>9. Walking(f, K, <<>>)'
  BY <1>6, <1>7, <1>8 DEF Walking, SeenOf
<1> QED BY <1>5, <1>9 DEF WalkOK

LEMMA Cut ==
  ASSUME NEW T, NEW s \in Seq(T), NEW a \in Nat, NEW b \in Nat, a <= b, b <= Len(s)
  PROVE  /\ SubSeq(s, a + 1, b) \in Seq(T) /\ Len(SubSeq(s, a + 1, b)) = b - a
         /\ \A i \in 1..b - a : SubSeq(s, a + 1, b)[i] = s[a + i]
OBVIOUS

(* The page of a filter is the next piece of the list. *)
LEMMA PageCut ==
  ASSUME StoredListOK, NEW f \in Filters, f.offset <= Len(Matching(f))
  PROVE  LET m    == Matching(f)
             page == ListTransactions(f)
         IN  /\ page \in Seq(Transactions) /\ f.offset + Len(page) <= Len(m)
             /\ \A i \in 1..Len(page) : page[i] = m[f.offset + i]
             /\ page = <<>> => f.offset = Len(m)
<1>1. PICK m, page, a, b :
        /\ m = Matching(f) /\ page = ListTransactions(f) /\ a = f.offset
        /\ b = IF a + f.limit < Len(m) THEN a + f.limit ELSE Len(m)
  OBVIOUS
<1>2. page = SubSeq(m, a + 1, b)
  BY <1>1 DEF ListTransactions
<1>3. m \in Seq(Transactions) /\ Len(m) \in Nat
  BY <1>1, MatchingList
<1>4. a \in Nat /\ f.limit \in Nat \ {0} /\ a <= Len(m)
  BY <1>1 DEF Filters
<1>5. b \in Nat /\ a <= b /\ b <= Len(m) /\ (b = a => a = Len(m))
  BY <1>1, <1>3, <1>4
<1>6. /\ SubSeq(m, a + 1, b) \in Seq(Transactions) /\ Len(SubSeq(m, a + 1, b)) = b - a
      /\ \A i \in 1..b - a : SubSeq(m, a + 1, b)[i] = m[a + i]
  BY <1>3, <1>4, <1>5, Cut
<1>7. /\ page \in Seq(Transactions) /\ Len(page) = b - a
      /\ \A i \in 1..Len(page) : page[i] = m[a + i]
  BY <1>2, <1>6, Zenon
<1>8. page = <<>> => a = Len(m)
  <2>1. Len(<<>>) = 0
    OBVIOUS
  <2> QED BY <1>4, <1>5, <1>7, <2>1
<1>9. a + Len(page) <= Len(m)
  BY <1>3, <1>4, <1>5, <1>7
<1> QED BY <1>1, <1>7, <1>8, <1>9

LEMMA Joined ==
  ASSUME NEW T, NEW s \in Seq(T), NEW u \in Seq(T)
  PROVE  /\ s \o u \in Seq(T) /\ Len(s \o u) = Len(s) + Len(u)
         /\ \A i \in 1..Len(s \o u) : (s \o u)[i] = IF i <= Len(s) THEN s[i] ELSE u[i - Len(s)]
OBVIOUS

(* The client's next offset and what it has seen. *)
At(f, n)       == [f EXCEPT !.offset = n]
Turn(v, n, R)  == [v EXCEPT !.filter.offset = n, !.seen = R]
Seen(f, K, S)  == [filter |-> f, known |-> K, seen |-> S]

LEMMA Turned ==
  ASSUME NEW f, NEW K, NEW S, NEW R, NEW n
  PROVE  Turn(Seen(f, K, S), n, R) = Seen(At(f, n), K, R)
<1> SUFFICES ASSUME NEW g, g = [f EXCEPT !.offset = n],
                    NEW v, v = [filter |-> f, known |-> K, seen |-> S]
             PROVE  [v EXCEPT !.filter.offset = n, !.seen = R]
                      = [filter |-> g, known |-> K, seen |-> R]
  BY DEF At, Turn, Seen
<1> DEFINE fields == {"filter", "known", "seen"}
<1>1. v \in [fields -> {f, K, S}] /\ v.filter = f /\ v.known = K
  OBVIOUS
<1>2. PICK w : w = [v EXCEPT !.filter = g, !.seen = R]
  OBVIOUS
<1>3. w = [x \in fields |-> w[x]] /\ w.filter = g /\ w.known = K /\ w.seen = R
  BY <1>1, <1>2
<1>4. PICK u : u = [filter |-> g, known |-> K, seen |-> R]
  OBVIOUS
<1>5. u = [x \in fields |-> u[x]] /\ u.filter = g /\ u.known = K /\ u.seen = R
  BY <1>4
<1>6. w = u
  BY <1>3, <1>5
<1>7. [v EXCEPT !.filter.offset = n, !.seen = R] = [v EXCEPT !.filter = g, !.seen = R]
  BY <1>1
<1> QED BY <1>2, <1>4, <1>6, <1>7

LEMMA NextPageWalk ==
  ASSUME ListInv, NEW q \in Readers, WalkOK(q), NextPage(q)
  PROVE  WalkOK(q)' /\ WalkedOK(q)'
<1>1. stage[q] = "walk"
  BY DEF NextPage, Read
<1>2. PICK f, K, S : view[q] = [filter |-> f, known |-> K, seen |-> S] /\ Walking(f, K, S)
  BY <1>1 DEF WalkOK
<1>3. PICK m, page : m = Matching(f) /\ page = ListTransactions(f)
  OBVIOUS
<1>4. /\ f \in Filters /\ f.offset \in Nat /\ S \in Seq(TxnIds) /\ f.offset = Len(S)
      /\ Len(S) \in Nat /\ Len(S) <= Len(m) /\ \A i \in 1..Len(S) : S[i] = m[i].event.id
  BY <1>2, <1>3 DEF Walking, SeenOf, Filters
<1>5. /\ m \in Seq(Transactions) /\ Len(m) \in Nat /\ IdsDiffer(m, Len(m))
      /\ \A id \in TxnIds : Exists(id) /\ Matches(transactions[id], f) =>
           \E i \in 1..Len(m) : m[i].event.id = id
  BY <1>3, MatchingList DEF ListInv
<1>6. /\ page \in Seq(Transactions) /\ Len(page) \in Nat /\ Len(S) + Len(page) <= Len(m)
      /\ \A i \in 1..Len(page) : page[i] = m[Len(S) + i]
      /\ page = <<>> => Len(S) = Len(m)
  BY <1>3, <1>4, PageCut DEF ListInv
<1>7. PICK g, ids, R : /\ g = [f EXCEPT !.offset = f.offset + Len(page)]
                       /\ ids = Ids(page) /\ R = S \o ids
  OBVIOUS
<1>8. /\ UNCHANGED vars /\ stage'[q] = IF page = <<>> THEN "walked" ELSE "walk"
      /\ view'[q] = [filter |-> g, known |-> K, seen |-> R]
  <2>1. PICK seen, to : /\ seen = [view[q] EXCEPT !.filter.offset = f.offset + Len(page), !.seen = R]
                        /\ to = IF page = <<>> THEN "walked" ELSE "walk"
    OBVIOUS
  <2>2. Read(q, "walk", to, seen)
    BY <1>2, <1>3, <1>7, <2>1 DEF NextPage
  <2>3. seen = [filter |-> g, known |-> K, seen |-> R]
    <3>1. PICK n : n = f.offset + Len(page)
      OBVIOUS
    <3>2. seen = Turn(Seen(f, K, S), n, R)
      BY <1>2, <2>1, <3>1 DEF Turn, Seen
    <3>3. seen = Seen(At(f, n), K, R)
      BY <3>2, Turned
    <3> QED BY <1>7, <3>1, <3>3 DEF At, Seen
  <2>4. UNCHANGED vars /\ stage'[q] = to /\ view'[q] = seen
    BY <2>2 DEF Read, ListInv, ReadersTypeOK
  <2> QED BY <2>1, <2>3, <2>4
<1>9. ids \in Seq(TxnIds) /\ Len(ids) = Len(page) /\ \A i \in 1..Len(page) : ids[i] = page[i].event.id
  <2>1. \A i \in 1..Len(page) : page[i].event.id \in TxnIds
    BY <1>6, TransactionType
  <2>2. ids = [i \in 1..Len(page) |-> page[i].event.id]
    BY <1>6, <1>7 DEF Ids
  <2> QED BY <1>6, <2>1, <2>2
<1>10. R \in Seq(TxnIds) /\ Len(R) = Len(S) + Len(page)
       /\ \A i \in 1..Len(R) : R[i] = IF i <= Len(S) THEN S[i] ELSE ids[i - Len(S)]
  <2>1. /\ S \o ids \in Seq(TxnIds) /\ Len(S \o ids) = Len(S) + Len(ids)
        /\ \A i \in 1..Len(S \o ids) :
             (S \o ids)[i] = IF i <= Len(S) THEN S[i] ELSE ids[i - Len(S)]
    <3>1. S \in Seq(TxnIds) /\ ids \in Seq(TxnIds)
      BY <1>4, <1>9
    <3> QED BY <3>1, Joined, Zenon
  <2> QED BY <1>7, <1>9, <2>1, Zenon
<1>11. SeenOf(R, m)
  <2>1. ASSUME NEW i \in 1..Len(R) PROVE R[i] = m[i].event.id
    <3>1. CASE i <= Len(S)
      BY <1>4, <1>10, <3>1
    <3>2. CASE ~(i <= Len(S))
      <4>1. i - Len(S) \in 1..Len(page) /\ Len(S) + (i - Len(S)) = i
        BY <1>4, <1>6, <1>10, <3>2
      <4>2. R[i] = ids[i - Len(S)]
        BY <1>10, <3>2
      <4>3. page[i - Len(S)] = m[i]
        BY <1>6, <4>1
      <4> QED BY <1>9, <4>1, <4>2, <4>3
    <3> QED BY <3>1, <3>2
  <2>2. Len(R) <= Len(m)
    BY <1>6, <1>10
  <2> QED BY <2>1, <2>2 DEF SeenOf
<1>12. WalkOK(q)'
  <2>1. g \in Filters /\ g.offset = Len(R) /\ SameChoice(f, g)
        /\ g.status = f.status /\ g.processor = f.processor /\ g.status = Nil
    <3>1. PICK n \in Nat : n = f.offset + Len(page) /\ n = Len(R)
      BY <1>4, <1>6, <1>10
    <3>2. g = [f EXCEPT !.offset = n]
      BY <1>7, <3>1
    <3>3. g \in Filters /\ g.offset = n /\ g.status = f.status /\ g.processor = f.processor
          /\ f.status = Nil
      BY <1>4, <3>2 DEF Filters
    <3> QED BY <3>1, <3>3 DEF SameChoice
  <2>2. EventsStay /\ OrderGrows
    BY <1>8 DEF vars, sharedVars, EventsStay, OrderGrows, Exists
  <2>3. StoredListOK /\ StoredListOK'
    BY <1>8 DEF ListInv, StoredListOK, Stored, Exists, vars, sharedVars
  <2>4. PICK w : w = Matching(g)'
    OBVIOUS
  <2>5. w \in Seq(Transactions) /\ Len(m) <= Len(w) /\ SameEvents(m, w, Len(m))
    BY <1>3, <2>1, <2>2, <2>3, <2>4, MatchingGrows
  <2>6. SeenOf(R, w)
    BY <1>5, <1>10, <1>11, <2>5 DEF SeenOf, SameEvents
  <2>7. KnownOf(K, g)'
    <3>1. KnownOf(K, f)'
      BY <1>2, <2>1, <2>2, KnownKept DEF Walking
    <3> QED BY <2>1, <3>1 DEF KnownOf, Matches
  <2>8. Walking(g, K, R)'
    BY <1>10, <2>1, <2>4, <2>6, <2>7 DEF Walking, SeenOf
  <2> QED BY <1>8, <2>8 DEF WalkOK
<1>13. WalkedOK(q)'
  <2> SUFFICES ASSUME page = <<>> PROVE Distinct(R) /\ K \subseteq ToSet(R)
    BY <1>8 DEF WalkedOK, Distinct, ToSet
  <2>1. Len(R) = Len(m) /\ DOMAIN R = 1..Len(R)
    <3>1. Len(<<>>) = 0
      OBVIOUS
    <3> QED BY <1>4, <1>5, <1>6, <1>10, <3>1
  <2>2. \A i \in 1..Len(m) : R[i] = m[i].event.id
    BY <1>11, <2>1 DEF SeenOf
  <2>3. Distinct(R)
    BY <1>5, <2>1, <2>2 DEF Distinct, IdsDiffer
  <2>4. ASSUME NEW id \in K PROVE id \in ToSet(R)
    <3>1. id \in TxnIds /\ Exists(id) /\ Matches(transactions[id], f)
      BY <1>2 DEF Walking, KnownOf
    <3>2. PICK i \in 1..Len(m) : m[i].event.id = id
      BY <1>5, <3>1
    <3> QED BY <2>1, <2>2, <3>2 DEF ToSet
  <2> QED BY <2>3, <2>4
<1> QED BY <1>12, <1>13

LEMMA WalkShows == ListInv /\ WalkInv => WalkSeesEverything
<1> SUFFICES ASSUME ListInv, WalkInv, NEW q \in Readers, stage[q] \in {"walk", "walked"}
             PROVE  /\ \A i, j \in DOMAIN view[q].seen :
                         view[q].seen[i] = view[q].seen[j] => i = j
                    /\ stage[q] = "walked" => view[q].known \subseteq ToSet(view[q].seen)
  BY DEF WalkSeesEverything
<1>1. CASE stage[q] = "walked"
  BY <1>1 DEF WalkInv, WalkedOK, Distinct
<1>2. CASE stage[q] = "walk"
  <2>1. PICK f, K, S : view[q] = [filter |-> f, known |-> K, seen |-> S] /\ Walking(f, K, S)
    BY <1>2 DEF WalkInv, WalkOK
  <2>2. PICK m : m = Matching(f)
    OBVIOUS
  <2>3. m \in Seq(Transactions) /\ IdsDiffer(m, Len(m))
    BY <2>2, MatchingList DEF ListInv
  <2>4. S \in Seq(TxnIds) /\ Len(S) <= Len(m) /\ \A i \in 1..Len(S) : S[i] = m[i].event.id
    BY <2>1, <2>2 DEF Walking, SeenOf
  <2>5. DOMAIN S = 1..Len(S) /\ \A i \in 1..Len(S) : i \in 1..Len(m)
    BY <2>3, <2>4
  <2>6. \A i, j \in DOMAIN S : S[i] = S[j] => i = j
    BY <2>3, <2>4, <2>5 DEF IdsDiffer
  <2>7. view[q].seen = S
    BY <2>1
  <2> QED BY <1>2, <2>6, <2>7
<1> QED BY <1>1, <1>2

(* A client that walks the pages of the list, with whatever limit and whatever
   processor it filters by, sees every transaction that was there when it
   started and none twice, although transactions are saved and updated between
   its pages (listTransactions, ListTransactions); nothing may be reset. *)
THEOREM WalksComplete ==
  ASSUME "reset" \notin Operations
  PROVE  ReadersSpec => []WalkSeesEverything
<1>1. ReadersSpec => []ListInv
  <2>1. Spec => [](TypeInv /\ ChainInv /\ PathInv /\ EventInv /\ StoreInv)
    BY TypeInvariant, ChainInvariant, PathInvariant, EventInvariant, StoreInvariant, PTL
  <2> QED BY <2>1, ReadersRefine, ReadersTypeInvariant, StoredList, PTL DEF ListInv
<1>2. ReadersInit => WalkInv
  BY DEF ReadersInit, WalkInv, WalkOK, WalkedOK
<1>3. ListInv /\ ListInv' /\ WalkInv /\ [ReadersNext]_allVars => WalkInv'
  <2>1. ASSUME ListInv, ListInv', WalkInv, [Next]_vars, UNCHANGED readerVars PROVE WalkInv'
    <3>1. EventsStay /\ OrderGrows
      BY <2>1, StoreGrows DEF ListInv
    <3> QED BY <2>1, <3>1, WalkKept DEF WalkInv, ListInv, readerVars
  <2>2. ASSUME ListInv, ListInv', WalkInv, NEW q \in Readers, ReaderStep(q) PROVE WalkInv'
    <3>1. ReaderFrame(q) /\ [Next]_vars
      BY <2>2, ReaderFrames DEF ReaderFrame, ListInv
    <3>2. EventsStay /\ OrderGrows
      BY <2>2, <3>1, StoreGrows DEF ListInv
    <3>3. \A p \in Readers \ {q} : WalkOK(p)' /\ WalkedOK(p)'
      BY <2>2, <3>1, <3>2, WalkKept DEF WalkInv, ListInv, ReaderFrame
    <3>4. WalkOK(q)'
      <4>1. CASE stage'[q] = "walk"
        BY <2>2, <4>1, ReaderFrames, StartWalkWalk, NextPageWalk DEF WalkInv, ListInv
      <4> QED BY <4>1 DEF WalkOK
    <3>5. WalkedOK(q)'
      <4>1. CASE stage'[q] = "walked"
        BY <2>2, <4>1, ReaderFrames, NextPageWalk DEF WalkInv, ListInv
      <4> QED BY <4>1 DEF WalkedOK
    <3> QED BY <3>3, <3>4, <3>5 DEF WalkInv
  <2> QED BY <2>1, <2>2 DEF ReadersNext, allVars, vars
<1> QED BY <1>1, <1>2, <1>3, WalkShows, PTL DEF ReadersSpec
=============================================================================
