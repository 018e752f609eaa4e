-------------------------- MODULE Operations_proof --------------------------
(* Theorems about what is done to the target databases, besides the gate, the  *)
(* changes and the handlers: dumps and restores, previews, the rules of changes *)
(* and the pages of a table; and about all of them, one at a time.             *)
EXTENDS MCOperations, OperationGate_proof, AuditedChanges_proof, TransferHandlers_proof,
        SequenceTheorems, FunctionTheorems, FiniteSetTheorems, WellFoundedInduction, TLAPS

(* Rounds and ranks *)

LEMMA LeastPlace ==
  ASSUME NEW S, S \subseteq Nat, S # {}
  PROVE  \E n \in S : \A m \in S : n <= m
<1>1. PICK n \in S : \A m \in S : <<m, n>> \notin OpToRel(<, Nat)
  BY WFMin, NatLessThanWellFounded
<1>2. \A m \in S : m < n => <<m, n>> \in OpToRel(<, Nat)
  BY DEF OpToRel
<1>3. \A m \in S : m \in Nat /\ n \in Nat /\ ~(m < n)
  BY <1>1, <1>2
<1> QED BY <1>3

\* Induction over the numbers, for a set.
LEMMA Inductively ==
  ASSUME NEW S, 0 \in S, \A n \in Nat : n \in S => n + 1 \in S
  PROVE  \A n \in Nat : n \in S
<1> SUFFICES ASSUME NEW k \in Nat, k \notin S
             PROVE  FALSE
  OBVIOUS
<1>1. PICK n \in Nat \ S : \A m \in Nat \ S : n <= m
  <2>1. Nat \ S \subseteq Nat /\ Nat \ S # {}
    OBVIOUS
  <2> QED BY <2>1, LeastPlace
<1>2. n - 1 \in Nat /\ ~(n <= n - 1) /\ (n - 1) + 1 = n
  <2>1. n # 0 /\ n \in Nat
    BY <1>1
  <2> QED BY <2>1
<1>3. n - 1 \in S
  BY <1>1, <1>2
<1>4. (n - 1) + 1 \in S
  BY <1>2, <1>3
<1> QED BY <1>1, <1>2, <1>4

\* What is done round by round is a function on the numbers of the rounds.
LEMMA RoundsExist ==
  ASSUME NEW S, NEW start \in S, NEW round \in [S -> S]
  PROVE  \E f \in [Nat -> S] : f[0] = start /\ \A n \in Nat : f[n + 1] = round[f[n]]
<1> DEFINE Runs(n) == {g \in [0..n -> S] : g[0] = start
                                           /\ \A m \in 0..n : m # n => g[m + 1] = round[g[m]]}
<1>1. \A n \in Nat : Runs(n) # {}
  <2> DEFINE V == {n \in Nat : Runs(n) # {}}
  <2>1. 0 \in V
    <3>1. [m \in 0..0 |-> start] \in [0..0 -> S] /\ 0 \in 0..0
      OBVIOUS
    <3>2. \A m \in 0..0 : m = 0
      OBVIOUS
    <3>3. [m \in 0..0 |-> start] \in Runs(0)
      BY <3>1, <3>2
    <3> QED BY <3>3
  <2>2. ASSUME NEW n \in Nat, n \in V
        PROVE  n + 1 \in V
    <3>1. PICK g \in Runs(n) : TRUE
      BY <2>2
    <3> DEFINE h == [m \in 0..(n + 1) |-> IF m = n + 1 THEN round[g[n]] ELSE g[m]]
    <3>2. /\ \A m \in 0..(n + 1) : m # n + 1 => /\ m \in 0..n
                                               /\ (m + 1 # n + 1 => m # n /\ m + 1 \in 0..(n + 1))
                                               /\ (m + 1 = n + 1 => m = n)
          /\ 0 \in 0..(n + 1) /\ 0 # n + 1 /\ n + 1 \in 0..(n + 1) /\ n \in 0..n /\ n + 1 \in Nat
      BY <2>2
    <3>3. h \in [0..(n + 1) -> S]
      BY <3>1, <3>2
    <3>4. h[0] = start
      BY <3>1, <3>2
    <3>5. ASSUME NEW m \in 0..(n + 1), m # n + 1
          PROVE  h[m + 1] = round[h[m]]
      <4>1. h[m] = g[m] /\ m \in 0..n
        BY <3>2, <3>5
      <4>2. CASE m + 1 = n + 1
        BY <3>2, <3>5, <4>1, <4>2
      <4>3. CASE m + 1 # n + 1
        BY <3>1, <3>2, <3>5, <4>1, <4>3
      <4> QED BY <4>2, <4>3
    <3> HIDE DEF h
    <3>6. h \in Runs(n + 1)
      BY <3>3, <3>4, <3>5
    <3> QED BY <3>2, <3>6
  <2> HIDE DEF V
  <2>3. \A n \in Nat : n \in V
    BY <2>1, <2>2, Inductively
  <2> QED BY <2>3 DEF V
<1>2. ASSUME NEW n \in Nat, NEW g \in Runs(n), NEW h \in Runs(n + 1)
      PROVE  \A k \in Nat : k <= n => g[k] = h[k]
  <2> DEFINE V == {k \in Nat : k <= n => g[k] = h[k]}
  <2>1. 0 \in V
    OBVIOUS
  <2>2. ASSUME NEW k \in Nat, k \in V
        PROVE  k + 1 \in V
    <3>1. CASE k + 1 <= n
      <4>1. k \in 0..n /\ k # n /\ k \in 0..(n + 1) /\ k # n + 1 /\ k <= n
        BY <1>2, <2>2, <3>1
      <4>2. g[k + 1] = round[g[k]] /\ h[k + 1] = round[h[k]]
        BY <4>1
      <4> QED BY <2>2, <4>1, <4>2
    <3>2. CASE ~(k + 1 <= n)
      BY <3>2
    <3> QED BY <3>1, <3>2
  <2> HIDE DEF V
  <2>3. \A k \in Nat : k \in V
    BY <2>1, <2>2, Inductively
  <2> QED BY <2>3 DEF V
<1>3. PICK pick : pick = [n \in Nat |-> CHOOSE g \in Runs(n) : TRUE]
  OBVIOUS
<1>4. \A n \in Nat : pick[n] \in Runs(n)
  BY <1>1, <1>3
<1>5. PICK f : f = [n \in Nat |-> pick[n][n]]
  OBVIOUS
<1>6. f \in [Nat -> S]
  <2>1. \A n \in Nat : n \in 0..n
    OBVIOUS
  <2>2. \A n \in Nat : pick[n][n] \in S
    BY <1>4, <2>1
  <2> QED BY <1>5, <2>2
<1>7. f[0] = start
  BY <1>4, <1>5
<1>8. ASSUME NEW n \in Nat
      PROVE  f[n + 1] = round[f[n]]
  <2>1. n + 1 \in Nat /\ n \in 0..(n + 1) /\ n # n + 1 /\ n <= n
    OBVIOUS
  <2>2. pick[n] \in Runs(n) /\ pick[n + 1] \in Runs(n + 1)
    BY <1>4, <2>1
  <2>3. pick[n + 1][n + 1] = round[pick[n + 1][n]]
    BY <2>1, <2>2
  <2>4. pick[n][n] = pick[n + 1][n]
    BY <1>2, <2>1, <2>2
  <2> QED BY <1>5, <2>1, <2>3, <2>4
<1> QED BY <1>6, <1>7, <1>8

\* The members of a finite set in a strict order stand at the places from 1 on.
LEMMA Ranks ==
  ASSUME NEW S, IsFiniteSet(S), NEW less,
         \A s \in S : <<s, s>> \notin less,
         \A s, t, u \in S : <<s, t>> \in less /\ <<t, u>> \in less => <<s, u>> \in less,
         \A s, t \in S : s # t => <<s, t>> \in less \/ <<t, s>> \in less,
         NEW under, \A s \in S : under[s] \subseteq S,
         \A s, t \in S : t \in under[s] <=> <<t, s>> \in less
  PROVE  /\ \A s \in S : Cardinality(under[s]) + 1 \in 1..Cardinality(S)
         /\ \A s, t \in S : <<s, t>> \in less
                              <=> Cardinality(under[s]) + 1 < Cardinality(under[t]) + 1
         /\ \A n \in 1..Cardinality(S) : \E s \in S : Cardinality(under[s]) + 1 = n
<1> DEFINE Under(s) == under[s]
           size == Cardinality(S)
<1> PICK rank : rank = [s \in S |-> Cardinality(under[s]) + 1]
  OBVIOUS
<1>1. \A s \in S : IsFiniteSet(Under(s)) /\ Cardinality(Under(s)) \in Nat
  <2> SUFFICES ASSUME NEW s \in S
               PROVE  IsFiniteSet(Under(s)) /\ Cardinality(Under(s)) \in Nat
    OBVIOUS
  <2>1. IsFiniteSet(Under(s))
    BY FS_Subset
  <2> QED BY <2>1, FS_CardinalityType
<1>2. size \in Nat
  BY FS_CardinalityType
<1>3. ASSUME NEW s \in S
      PROVE  Cardinality(Under(s)) + 1 \in 1..size
  <2>1. Under(s) \in SUBSET S /\ s \notin Under(s)
    OBVIOUS
  <2>2. Cardinality(Under(s)) <= size /\ Cardinality(Under(s)) # size
    BY <2>1, FS_Subset
  <2> QED BY <1>1, <1>2, <2>2
<1>4. ASSUME NEW s \in S, NEW t \in S, <<s, t>> \in less
      PROVE  Cardinality(Under(s)) < Cardinality(Under(t))
  <2>1. Under(s) \in SUBSET Under(t) /\ s \in Under(t) /\ s \notin Under(s)
    BY <1>4
  <2>2. IsFiniteSet(Under(t))
    BY <1>1
  <2>3. Cardinality(Under(s)) <= Cardinality(Under(t)) /\ Cardinality(Under(s)) # Cardinality(Under(t))
    <3>1. Under(s) # Under(t)
      BY <2>1
    <3> HIDE DEF Under
    <3> QED BY <2>1, <2>2, <3>1, FS_Subset
  <2>4. Cardinality(Under(s)) \in Nat /\ Cardinality(Under(t)) \in Nat
    BY <1>1
  <2> HIDE DEF Under
  <2> QED BY <2>3, <2>4
<1>5. \A s \in S : rank[s] = Cardinality(Under(s)) + 1
  OBVIOUS
<1> HIDE DEF Under
<1>6. rank \in [S -> 1..size]
  BY <1>3, <1>5
<1>7. \A s, t \in S : <<s, t>> \in less => rank[s] < rank[t]
  BY <1>1, <1>4, <1>5
<1>8. \A s, t \in S : <<s, t>> \in less <=> rank[s] < rank[t]
  <2> SUFFICES ASSUME NEW s \in S, NEW t \in S, rank[s] < rank[t]
               PROVE  <<s, t>> \in less
    BY <1>7
  <2>1. rank[s] \in Int /\ rank[t] \in Int
    BY <1>6
  <2>2. s # t /\ ~(rank[t] < rank[s])
    BY <2>1
  <2> QED BY <1>7, <2>2
<1>9. rank \in Injection(S, 1..size)
  <2>1. \A s, t \in S : rank[s] = rank[t] => s = t
    <3> SUFFICES ASSUME NEW s \in S, NEW t \in S, rank[s] = rank[t], s # t
                 PROVE  FALSE
      OBVIOUS
    <3>1. rank[s] < rank[t] \/ rank[t] < rank[s]
      BY <1>7
    <3>2. rank[s] \in Int /\ rank[t] \in Int
      BY <1>6
    <3> QED BY <3>1, <3>2
  <2> QED BY <1>6, <2>1, Fun_IsInj
<1>10. rank \in Surjection(S, 1..size)
  <2>1. IsFiniteSet(1..size) /\ Cardinality(1..size) = size
    <3> HIDE DEF size
    <3>1. IsFiniteSet(1..size) /\ Cardinality(1..size) = IF 1 > size THEN 0 ELSE size - 1 + 1
      BY <1>2, FS_Interval
    <3> QED BY <1>2, <3>1
  <2> QED BY <1>9, <2>1, FS_Injection
<1>11. \A n \in 1..size : \E s \in S : rank[s] = n
  BY <1>10 DEF Surjection
<1> QED BY <1>6, <1>8, <1>11

-----------------------------------------------------------------------------
(* What is skipped, and the waves of what is not *)

LEMMA SkipRoundsFacts ==
  ASSUME NEW r
  PROVE  /\ SkipRounds(r)[0] = Unsupported(r)
         /\ \A n \in Nat : SkipRounds(r)[n + 1] =
              SkipRounds(r)[n]
              \cup {i \in manifest.ids : manifest.deps[i] \cap SkipRounds(r)[n] # {}}
<1> DEFINE Adds(X) == {i \in manifest.ids : manifest.deps[i] \cap X # {}}
           Is(g) == g = [n \in Nat |-> IF n = 0 THEN Unsupported(r)
                                       ELSE LET last == g[n - 1] IN last \cup Adds(last)]
           ids == manifest.ids
<1>1. PICK round : round = [X \in SUBSET ids |-> X \cup Adds(X)]
  OBVIOUS
<1>2. round \in [SUBSET ids -> SUBSET ids] /\ Unsupported(r) \in SUBSET ids
  BY <1>1 DEF Unsupported
<1>3. PICK f \in [Nat -> SUBSET ids] : f[0] = Unsupported(r) /\ \A n \in Nat : f[n + 1] = round[f[n]]
  <2>1. PICK S : S = SUBSET ids
    OBVIOUS
  <2>2. round \in [S -> S] /\ Unsupported(r) \in S
    BY <1>2, <2>1
  <2>3. \E f \in [Nat -> S] : f[0] = Unsupported(r) /\ \A n \in Nat : f[n + 1] = round[f[n]]
    BY <2>2, RoundsExist
  <2> QED BY <2>1, <2>3
<1>4. Is(f)
  <2>1. ASSUME NEW n \in Nat
        PROVE  f[n] = IF n = 0 THEN Unsupported(r)
                      ELSE LET last == f[n - 1] IN last \cup Adds(last)
    <3>1. CASE n = 0
      BY <1>3, <3>1
    <3>2. CASE n # 0
      <4>1. n - 1 \in Nat /\ (n - 1) + 1 = n
        BY <3>2
      <4>2. f[n] = round[f[n - 1]] /\ f[n - 1] \in SUBSET ids
        BY <1>3, <4>1
      <4> QED BY <1>1, <3>2, <4>2
    <3> QED BY <3>1, <3>2
  <2>2. f = [n \in Nat |-> f[n]]
    BY <1>3
  <2> HIDE DEF Adds
  <2> QED BY <2>1, <2>2
<1>5. SkipRounds(r) = CHOOSE g : Is(g)
  BY DEF SkipRounds
<1>6. Is(SkipRounds(r))
  <2> HIDE DEF Is
  <2> QED BY <1>4, <1>5
<1>7. PICK out : out = SkipRounds(r)
  OBVIOUS
<1>8. out = [n \in Nat |-> IF n = 0 THEN Unsupported(r)
                           ELSE LET last == out[n - 1] IN last \cup Adds(last)]
  BY <1>6, <1>7
<1> HIDE DEF Adds
<1>9. out[0] = Unsupported(r)
  BY <1>8
<1>10. ASSUME NEW n \in Nat
       PROVE  out[n + 1] = out[n] \cup Adds(out[n])
  <2>1. n + 1 \in Nat /\ n + 1 # 0 /\ (n + 1) - 1 = n
    OBVIOUS
  <2>2. out[n + 1] = LET last == out[(n + 1) - 1] IN last \cup Adds(last)
    BY <1>8, <2>1
  <2> QED BY <2>1, <2>2
<1> QED BY <1>7, <1>9, <1>10 DEF Adds

LEMMA PendingFacts ==
  ASSUME NEW ids
  PROVE  /\ PendingRounds(ids)[0] = ids
         /\ \A n \in Nat : PendingRounds(ids)[n + 1] =
              {i \in PendingRounds(ids)[n] : manifest.deps[i] \cap PendingRounds(ids)[n] # {}}
<1> DEFINE Waits(X) == {i \in X : manifest.deps[i] \cap X # {}}
           Is(g) == g = [n \in Nat |-> IF n = 0 THEN ids
                                       ELSE LET last == g[n - 1] IN Waits(last)]
<1>1. PICK round : round = [X \in SUBSET ids |-> Waits(X)]
  OBVIOUS
<1>2. round \in [SUBSET ids -> SUBSET ids] /\ ids \in SUBSET ids
  BY <1>1
<1>3. PICK f \in [Nat -> SUBSET ids] : f[0] = ids /\ \A n \in Nat : f[n + 1] = round[f[n]]
  <2>1. PICK S : S = SUBSET ids
    OBVIOUS
  <2>2. round \in [S -> S] /\ ids \in S
    BY <1>2, <2>1
  <2>3. \E f \in [Nat -> S] : f[0] = ids /\ \A n \in Nat : f[n + 1] = round[f[n]]
    BY <2>2, RoundsExist
  <2> QED BY <2>1, <2>3
<1>4. Is(f)
  <2>1. ASSUME NEW n \in Nat
        PROVE  f[n] = IF n = 0 THEN ids ELSE LET last == f[n - 1] IN Waits(last)
    <3>1. CASE n = 0
      BY <1>3, <3>1
    <3>2. CASE n # 0
      <4>1. n - 1 \in Nat /\ (n - 1) + 1 = n
        BY <3>2
      <4>2. f[n] = round[f[n - 1]] /\ f[n - 1] \in SUBSET ids
        BY <1>3, <4>1
      <4> QED BY <1>1, <3>2, <4>2
    <3> QED BY <3>1, <3>2
  <2>2. f = [n \in Nat |-> f[n]]
    BY <1>3
  <2> HIDE DEF Waits
  <2> QED BY <2>1, <2>2
<1>5. PendingRounds(ids) = CHOOSE g : Is(g)
  BY DEF PendingRounds
<1>6. Is(PendingRounds(ids))
  <2> HIDE DEF Is
  <2> QED BY <1>4, <1>5
<1>7. PICK out : out = PendingRounds(ids)
  OBVIOUS
<1>8. out = [n \in Nat |-> IF n = 0 THEN ids ELSE LET last == out[n - 1] IN Waits(last)]
  BY <1>6, <1>7
<1> HIDE DEF Waits
<1>9. out[0] = ids
  BY <1>8
<1>10. ASSUME NEW n \in Nat
       PROVE  out[n + 1] = Waits(out[n])
  <2>1. n + 1 \in Nat /\ n + 1 # 0 /\ (n + 1) - 1 = n
    OBVIOUS
  <2>2. out[n + 1] = LET last == out[(n + 1) - 1] IN Waits(last)
    BY <1>8, <2>1
  <2> QED BY <2>1, <2>2
<1> QED BY <1>7, <1>9, <1>10 DEF Waits

\* Where nothing depends on what cannot be made, that is all that is skipped.
LEMMA SkippedFacts ==
  ASSUME NEW r, Cardinality(manifest.ids) \in Nat,
         \A i \in manifest.ids : manifest.deps[i] \cap Unsupported(r) = {}
  PROVE  Skipped(r) = Unsupported(r)
<1>1. PICK out : out = SkipRounds(r)
  OBVIOUS
<1>2. /\ out[0] = Unsupported(r)
      /\ \A n \in Nat : out[n + 1] =
           out[n] \cup {i \in manifest.ids : manifest.deps[i] \cap out[n] # {}}
  BY <1>1, SkipRoundsFacts
<1>3. \A n \in Nat : out[n] = Unsupported(r)
  <2> DEFINE V == {n \in Nat : out[n] = Unsupported(r)}
  <2>1. 0 \in V
    BY <1>2
  <2>2. ASSUME NEW n \in Nat, n \in V
        PROVE  n + 1 \in V
    <3>1. out[n] = Unsupported(r)
      BY <2>2
    <3>2. out[n + 1] = out[n] \cup {i \in manifest.ids : manifest.deps[i] \cap out[n] # {}}
      BY <1>2
    <3>3. {i \in manifest.ids : manifest.deps[i] \cap out[n] # {}} = {}
      BY <3>1
    <3> QED BY <3>1, <3>2, <3>3
  <2> HIDE DEF V
  <2>3. \A n \in Nat : n \in V
    BY <2>1, <2>2, Inductively
  <2> QED BY <2>3 DEF V
<1>4. PICK last : last = CHOOSE n \in 0..Cardinality(manifest.ids) : out[n + 1] = out[n]
  OBVIOUS
<1>5. last \in Nat
  <2>1. 0 \in 0..Cardinality(manifest.ids) /\ 0 + 1 \in Nat /\ 0 \in Nat
    OBVIOUS
  <2>2. out[0 + 1] = out[0]
    BY <1>3, <2>1
  <2>3. last \in 0..Cardinality(manifest.ids)
    BY <1>4, <2>1, <2>2
  <2> QED BY <2>3
<1>6. Skipped(r) = out[last]
  BY <1>1, <1>4 DEF Skipped
<1> QED BY <1>3, <1>5, <1>6

\* An object has a wave, after those of its dependencies.
LEMMA WaveFacts ==
  ASSUME NEW ids, IsFiniteSet(ids), ~Cyclic(ids)
  PROVE  /\ \A i \in ids : Waves(ids)[i] \in Nat
         /\ \A i, d \in ids : d \in manifest.deps[i] => Waves(ids)[d] < Waves(ids)[i]
<1>1. PICK p : p = PendingRounds(ids)
  OBVIOUS
<1>2. /\ p[0] = ids
      /\ \A n \in Nat : p[n + 1] = {i \in p[n] : manifest.deps[i] \cap p[n] # {}}
  BY <1>1, PendingFacts
<1>3. PICK size \in Nat : size = Cardinality(ids)
  BY FS_CardinalityType
<1>4. p[size] = {}
  BY <1>1, <1>3 DEF Cyclic
<1> DEFINE Gone1(i) == {n \in 1..size : i \notin p[n]}
           Leaves(i, n) == i \notin p[n] /\ \A m \in 1..(n - 1) : i \in p[m]
<1>5. ASSUME NEW i \in ids
      PROVE  \E n \in 1..size : Leaves(i, n)
  <2>1. size \in Gone1(i)
    <3>1. size # 0
      BY <1>3, FS_EmptySet
    <3> QED BY <1>4, <3>1
  <2>2. PICK n \in Gone1(i) : \A m \in Gone1(i) : n <= m
    <3>1. Gone1(i) \subseteq Nat /\ Gone1(i) # {}
      BY <2>1
    <3> HIDE DEF Gone1
    <3> QED BY <3>1, LeastPlace
  <2>3. \A m \in 1..(n - 1) : m \in 1..size /\ ~(n <= m)
    BY <1>3, <2>2
  <2> QED BY <2>2, <2>3
<1>6. PICK wave : wave = Waves(ids)
  OBVIOUS
<1>7. \A i \in ids : wave[i] = CHOOSE n \in 1..size : Leaves(i, n)
  BY <1>1, <1>3, <1>6 DEF Waves
<1>8. \A i \in ids : wave[i] \in 1..size /\ Leaves(i, wave[i])
  <2> HIDE DEF Leaves
  <2> QED BY <1>5, <1>7
<1>9. ASSUME NEW i \in ids, NEW d \in ids, d \in manifest.deps[i]
      PROVE  wave[d] < wave[i]
  <2>1. wave[i] \in 1..size /\ wave[d] \in 1..size /\ wave[i] - 1 \in Nat
        /\ (wave[i] - 1) + 1 = wave[i]
    BY <1>8
  <2>2. i \in p[wave[i] - 1]
    <3>1. CASE wave[i] = 1
      BY <1>2, <3>1
    <3>2. CASE wave[i] # 1
      <4>1. wave[i] - 1 \in 1..(wave[i] - 1)
        BY <2>1, <3>2
      <4> QED BY <1>8, <4>1
    <3> QED BY <3>1, <3>2
  <2>3. i \notin p[(wave[i] - 1) + 1]
    BY <1>8, <2>1
  <2>4. d \notin p[wave[i] - 1]
    BY <1>2, <1>9, <2>1, <2>2, <2>3
  <2>5. wave[i] - 1 \notin 1..(wave[d] - 1)
    BY <1>8, <2>4
  <2>6. wave[i] - 1 # 0
    BY <1>2, <2>4
  <2> QED BY <2>1, <2>5, <2>6
<1> QED BY <1>6, <1>8, <1>9

-----------------------------------------------------------------------------
(* The objects of a database and what a dump says they need *)

LEMMA ObjectFacts ==
  ASSUME origin \in Sources
  PROVE  /\ Ids = 1..Len(origin.objects) /\ Len(origin.objects) \in Nat /\ IsFiniteSet(Ids)
         /\ \A i \in Ids : ObjectOK(Object(i), Len(origin.objects))
         /\ origin.engine \in {"mysql", "postgres"}
<1>1. SourceOK(origin)
  BY DumpsAssumption
<1>2. origin.objects \in Seq({origin.objects[i] : i \in DOMAIN origin.objects})
  BY <1>1 DEF SourceOK
<1>3. Len(origin.objects) \in Nat /\ DOMAIN origin.objects = 1..Len(origin.objects)
  BY <1>2
<1>4. IsFiniteSet(1..Len(origin.objects))
  <2>1. PICK n \in Int : n = Len(origin.objects)
    BY <1>3
  <2>2. IsFiniteSet(1..n)
    BY FS_Interval
  <2> QED BY <2>1, <2>2
<1> QED BY <1>1, <1>3, <1>4 DEF SourceOK, Ids, Object

LEMMA ListedFacts ==
  ASSUME NEW sc
  PROVE  Listed(sc) \subseteq Ids
  BY DEF Listed, ListTables, DescribeTables, DescribeSchemas, DescribeSequences, DescribeTypes,
         DescribeViews, DescribeExtensions, DescribeRoutines, DescribeTriggers, DescribeEvents,
         DescribePartitions, Of

\* The kinds that others are said to need, each of which is made before them or waited for.
DependencyKinds ==
  IF IsPostgres THEN {"schema", "sequence", "table", "function"} ELSE {"table", "view"}

LEMMA DependencyFacts ==
  ASSUME origin \in Sources, NEW sc, Dumpable(sc), NEW i \in Listed(sc), NEW d \in Deps(sc, i)
  PROVE  /\ i \in Ids /\ d \in Listed(sc) /\ d \in Ids
         /\ Object(d).kind \in DependencyKinds
         /\ PhaseFor(Object(d).kind) <= PhaseFor(Object(i).kind)
         /\ Object(i).kind = "table" => PhaseFor(Object(d).kind) = 1
         /\ IsPostgres /\ Object(i).kind \in {"procedure", "event"} => Object(d).kind = "schema"
         /\ ~IsPostgres => Object(i).kind \notin {"schema", "type", "domain", "sequence",
                                                 "materialized-view", "extension"}
<1>1. d \in Listed(sc) /\ i \in Ids /\ d \in Ids
  BY ListedFacts DEF Dumpable
<1>2. Object(i).kind \in ObjectKinds /\ d # 0
  BY <1>1, ObjectFacts DEF ObjectOK
<1>3. \A x : d = TableId(x) => Object(d).kind = "table"
  BY <1>2 DEF TableId
<1>4. \A x : d \in TablesOf(x) => Object(d).kind = "table"
  BY <1>3 DEF TablesOf
<1>5. \A x : d \in TableObjectDeps(x) => Object(d).kind = "table"
  BY <1>3, <1>4 DEF TableObjectDeps
<1>6. CASE IsPostgres
  <2>1. d \in PostgresDeps(sc, i)
    BY <1>6 DEF Deps
  <2>2. CASE d \in DescribeSchemas(sc)
    <3>1. Object(d).kind = "schema"
      BY <2>2 DEF DescribeSchemas, Of
    <3> QED BY <1>1, <1>2, <1>6, <3>1 DEF PhaseFor, DependencyKinds, ObjectKinds
  <2>3. CASE d \notin DescribeSchemas(sc)
    <3>1. \/ Object(i).kind = "table" /\ d \in DescribeSequences(sc)
          \/ Object(i).kind \in {"constraint", "index"} /\ d \in TableObjectDeps(i)
          \/ Object(i).kind \in {"view", "materialized-view"} /\ d \in ViewDeps(i)
          \/ Object(i).kind = "trigger" /\ d \in TriggerDeps(i)
          \/ Object(i).kind = "partition" /\ d \in PartitionDeps(i)
      BY <1>2, <2>1, <2>3 DEF PostgresDeps, ObjectKinds
    <3>2. \/ Object(i).kind = "table" /\ Object(d).kind = "sequence"
          \/ /\ Object(i).kind \in {"constraint", "index", "view", "materialized-view", "trigger",
                                    "partition"}
             /\ Object(d).kind = "table"
          \/ Object(i).kind = "trigger" /\ Object(d).kind = "function"
      BY <1>3, <1>4, <1>5, <3>1 DEF ViewDeps, TriggerDeps, PartitionDeps, DescribeSequences, Of
    <3> QED BY <1>1, <1>6, <3>2 DEF PhaseFor, DependencyKinds
  <2> QED BY <2>2, <2>3
<1>7. CASE ~IsPostgres
  <2>1. d \in MysqlDeps(sc, i)
    BY <1>7 DEF Deps
  <2>2. \/ Object(i).kind \in {"constraint", "index"} /\ d \in TableObjectDeps(i)
        \/ Object(i).kind = "view" /\ d \in MysqlViewDeps(sc, i)
        \/ Object(i).kind = "trigger" /\ d \in MysqlTriggerDeps(i)
        \/ Object(i).kind = "partition" /\ d \in PartitionDeps(i)
    BY <1>2, <2>1 DEF MysqlDeps, ObjectKinds
  <2>3. d \in MysqlViewDeps(sc, i) => Object(d).kind \in {"table", "view"}
    BY <1>2, <1>3 DEF MysqlViewDeps, ListTables, TableId, Of
  <2>4. \/ /\ Object(i).kind \in {"constraint", "index", "trigger", "partition"}
           /\ Object(d).kind = "table"
        \/ Object(i).kind = "view" /\ Object(d).kind \in {"table", "view"}
    BY <1>3, <1>5, <2>2, <2>3 DEF MysqlTriggerDeps, PartitionDeps
  <2> QED BY <1>1, <1>7, <2>4 DEF PhaseFor, DependencyKinds
<1> QED BY <1>6, <1>7

ManifestSound ==
  /\ manifest.ids \subseteq Ids /\ manifest.data \in BOOLEAN
  /\ \A i \in manifest.ids : manifest.deps[i] \subseteq manifest.ids
  /\ \A i \in manifest.ids : \A d \in manifest.deps[i] :
       /\ Object(d).kind \in DependencyKinds
       /\ PhaseFor(Object(d).kind) <= PhaseFor(Object(i).kind)
       /\ Object(i).kind = "table" => PhaseFor(Object(d).kind) = 1
       /\ IsPostgres /\ Object(i).kind \in {"procedure", "event"} => Object(d).kind = "schema"
       /\ ~IsPostgres => Object(i).kind \notin {"schema", "type", "domain", "sequence",
                                               "materialized-view", "extension"}

LEMMA DumpIsSound ==
  ASSUME origin \in Sources, NEW sc, Dumpable(sc), NEW data \in BOOLEAN,
         manifest' = [ids |-> Listed(sc), deps |-> [i \in Listed(sc) |-> Deps(sc, i)],
                      data |-> data],
         UNCHANGED origin
  PROVE  ManifestSound'
<1>1. manifest'.ids = Listed(sc) /\ manifest'.data = data
      /\ \A i \in manifest'.ids : manifest'.deps[i] = Deps(sc, i)
  OBVIOUS
<1>2. Listed(sc) \subseteq Ids
  BY ListedFacts
<1> QED BY <1>1, <1>2, DependencyFacts DEF ManifestSound, DependencyKinds, IsPostgres, Ids, Object

\* What the target cannot have is all that is skipped: nothing of a dump needs it.
LEMMA SkippedUnsupported ==
  ASSUME origin \in Sources, ManifestSound, NEW r
  PROVE  /\ Skipped(r) = Unsupported(r) /\ IsFiniteSet(Included(r)) /\ Included(r) \subseteq Ids
         /\ \A i \in Included(r) : manifest.deps[i] \subseteq Included(r)
<1>1. IsFiniteSet(manifest.ids) /\ Cardinality(manifest.ids) \in Nat
  <2>1. IsFiniteSet(manifest.ids)
    BY ObjectFacts, FS_Subset DEF ManifestSound
  <2> QED BY <2>1, FS_CardinalityType
<1>2. ASSUME NEW i \in manifest.ids
      PROVE  manifest.deps[i] \cap Unsupported(r) = {}
  <2>1. DependencyKinds \subseteq SupportedKinds(r)
    BY DEF DependencyKinds, SupportedKinds
  <2> QED BY <2>1 DEF ManifestSound, Unsupported
<1>3. Skipped(r) = Unsupported(r)
  BY <1>1, <1>2, SkippedFacts
<1>4. IsFiniteSet(Included(r))
  BY <1>1, FS_Difference DEF Included
<1> QED BY <1>2, <1>3, <1>4 DEF Included, ManifestSound

-----------------------------------------------------------------------------
(* The script: the steps of a plan in their order *)

LEMMA StepFacts ==
  ASSUME origin \in Sources, NEW existing, NEW included, included \subseteq Ids,
         IsFiniteSet(included), ~Cyclic(included),
         NEW s \in PlanSteps(existing, included)
  PROVE  /\ s.phase \in 0..3 /\ s.id \in included /\ s.id \in Nat /\ s.wave \in Nat
         /\ s.do = "drop" => s.phase = 0 /\ s.wave = Waves(included)[s.id] /\ s.id \in existing
         /\ s.do = "create" => /\ s.phase = PhaseFor(Object(s.id).kind) /\ s.phase \in {1, 3}
                               /\ s.wave = Waves(included)[s.id]
         /\ s.do = "load" => s.phase = 2 /\ s.wave = 0 /\ Object(s.id).kind = "table"
         /\ s.do \in {"drop", "create", "load"}
         /\ s = [phase |-> s.phase, do |-> s.do, id |-> s.id, wave |-> s.wave]
<1>1. \A i \in included : i \in Nat /\ Waves(included)[i] \in Nat
  BY ObjectFacts, WaveFacts
<1>2. CASE \E i \in existing \cap included : s = PlanStep(0, "drop", i, Waves(included)[i])
  BY <1>1, <1>2 DEF PlanStep
<1>3. CASE \E i \in included :
             s = PlanStep(PhaseFor(Object(i).kind), "create", i, Waves(included)[i])
  BY <1>1, <1>3 DEF PlanStep, PhaseFor
<1>4. CASE \E i \in included \cap Of({"table"}) : s = PlanStep(2, "load", i, 0)
  BY <1>1, <1>4 DEF PlanStep, Of
<1> QED BY <1>2, <1>3, <1>4 DEF PlanSteps

\* One step comes before another: the steps are in a strict order.
LEMMA StepsOrdered ==
  ASSUME origin \in Sources, NEW existing, NEW included, included \subseteq Ids,
         IsFiniteSet(included), ~Cyclic(included)
  PROVE  LET all == PlanSteps(existing, included)
         IN /\ \A s \in all : ~Ahead(s, s)
            /\ \A s, t, u \in all : Ahead(s, t) /\ Ahead(t, u) => Ahead(s, u)
            /\ \A s, t \in all : s # t => Ahead(s, t) \/ Ahead(t, s)
<1> DEFINE all == PlanSteps(existing, included)
<1>1. \A s \in all : /\ s.phase \in Int /\ s.id \in Int /\ s.wave \in Int
                     /\ s.phase = 0 <=> s.do = "drop"
  <2> SUFFICES ASSUME NEW s \in all
               PROVE  /\ s.phase \in Int /\ s.id \in Int /\ s.wave \in Int
                      /\ s.phase = 0 <=> s.do = "drop"
    OBVIOUS
  <2>1. /\ s.phase \in 0..3 /\ s.id \in Nat /\ s.wave \in Nat
        /\ s.do = "drop" => s.phase = 0
        /\ s.do = "create" => s.phase \in {1, 3}
        /\ s.do = "load" => s.phase = 2
        /\ s.do \in {"drop", "create", "load"}
    BY StepFacts
  <2> QED BY <2>1
<1>2. \A s, t \in all : s.phase = t.phase /\ s.id = t.id => s = t
  <2> SUFFICES ASSUME NEW s \in all, NEW t \in all, s.phase = t.phase, s.id = t.id
               PROVE  s = t
    OBVIOUS
  <2>1. /\ s.do = "drop" => s.phase = 0 /\ s.wave = Waves(included)[s.id]
        /\ s.do = "create" => s.phase \in {1, 3} /\ s.wave = Waves(included)[s.id]
        /\ s.do = "load" => s.phase = 2 /\ s.wave = 0
        /\ s.do \in {"drop", "create", "load"}
        /\ s = [phase |-> s.phase, do |-> s.do, id |-> s.id, wave |-> s.wave]
    BY StepFacts
  <2>2. /\ t.do = "drop" => t.phase = 0 /\ t.wave = Waves(included)[t.id]
        /\ t.do = "create" => t.phase \in {1, 3} /\ t.wave = Waves(included)[t.id]
        /\ t.do = "load" => t.phase = 2 /\ t.wave = 0
        /\ t.do \in {"drop", "create", "load"}
        /\ t = [phase |-> t.phase, do |-> t.do, id |-> t.id, wave |-> t.wave]
    BY StepFacts
  <2>3. s.do = t.do
    BY <2>1, <2>2
  <2>4. s.wave = t.wave
    BY <2>1, <2>2, <2>3
  <2> QED BY <2>1, <2>2, <2>3, <2>4
<1> HIDE DEF all
<1>3. \A s \in all : ~Ahead(s, s)
  BY <1>1 DEF Ahead, Ordered
<1>4. ASSUME NEW s \in all, NEW t \in all, NEW u \in all, Ahead(s, t), Ahead(t, u)
      PROVE  Ahead(s, u)
  <2>1. /\ s.phase \in Int /\ s.id \in Int /\ s.wave \in Int /\ (s.phase = 0 <=> s.do = "drop")
        /\ t.phase \in Int /\ t.id \in Int /\ t.wave \in Int /\ (t.phase = 0 <=> t.do = "drop")
        /\ u.phase \in Int /\ u.id \in Int /\ u.wave \in Int /\ (u.phase = 0 <=> u.do = "drop")
    BY <1>1
  <2> QED BY <1>4, <2>1 DEF Ahead, Ordered
<1>5. ASSUME NEW s \in all, NEW t \in all, s # t
      PROVE  Ahead(s, t) \/ Ahead(t, s)
  <2>1. /\ s.phase \in Int /\ s.id \in Int /\ s.wave \in Int /\ (s.phase = 0 <=> s.do = "drop")
        /\ t.phase \in Int /\ t.id \in Int /\ t.wave \in Int /\ (t.phase = 0 <=> t.do = "drop")
    BY <1>1
  <2>2. s.phase # t.phase \/ s.id # t.id
    BY <1>2, <1>5
  <2> QED BY <2>1, <2>2 DEF Ahead, Ordered
<1> QED BY <1>3, <1>4, <1>5 DEF all

LEMMA StepsFinite ==
  ASSUME origin \in Sources, NEW existing, NEW included, included \subseteq Ids,
         IsFiniteSet(included), ~Cyclic(included)
  PROVE  IsFiniteSet(PlanSteps(existing, included))
<1> DEFINE all == PlanSteps(existing, included)
           keys == (0..3) \X included
<1>1. PICK f : f = [s \in all |-> <<s.phase, s.id>>]
  OBVIOUS
<1>2. \A s \in all : <<s.phase, s.id>> \in keys
  BY StepFacts
<1>3. \A s, t \in all : f[s] = f[t] => s = t
  <2> SUFFICES ASSUME NEW s \in all, NEW t \in all, s.phase = t.phase, s.id = t.id, s # t
               PROVE  FALSE
    BY <1>1
  <2>1. Ahead(s, t) \/ Ahead(t, s)
    BY StepsOrdered
  <2>2. /\ s.phase \in 0..3 /\ s.id \in Nat /\ s.wave \in Nat
        /\ t.phase \in 0..3 /\ t.id \in Nat /\ t.wave \in Nat
    BY StepFacts
  <2>3. /\ s.do = "drop" => s.phase = 0 /\ s.wave = Waves(included)[s.id]
        /\ s.do = "create" => s.phase \in {1, 3} /\ s.wave = Waves(included)[s.id]
        /\ s.do = "load" => s.phase = 2 /\ s.wave = 0
        /\ s.do \in {"drop", "create", "load"}
        /\ t.do = "drop" => t.phase = 0 /\ t.wave = Waves(included)[t.id]
        /\ t.do = "create" => t.phase \in {1, 3} /\ t.wave = Waves(included)[t.id]
        /\ t.do = "load" => t.phase = 2 /\ t.wave = 0
        /\ t.do \in {"drop", "create", "load"}
    BY StepFacts
  <2>4. s.wave = t.wave
    BY <2>3
  <2> QED BY <2>1, <2>2, <2>4 DEF Ahead, Ordered
<1>4. IsFiniteSet(keys)
  <2>1. IsFiniteSet(0..3)
    <3>1. PICK a \in Int, b \in Int : a = 0 /\ b = 3
      OBVIOUS
    <3>2. IsFiniteSet(a..b)
      BY FS_Interval
    <3> QED BY <3>1, <3>2
  <2> QED BY <2>1, FS_Product
<1> HIDE DEF all, keys
<1>5. f \in [all -> keys]
  BY <1>1, <1>2
<1>6. f \in Injection(all, keys)
  BY <1>3, <1>5, Fun_IsInj
<1>7. IsFiniteSet(all)
  BY <1>4, <1>6, FS_Injection
<1> QED BY <1>7 DEF all

\* Every step of the plan has its place in the script, and no other place.
LEMMA ScriptFacts ==
  ASSUME origin \in Sources, NEW existing, NEW included, included \subseteq Ids,
         IsFiniteSet(included), ~Cyclic(included),
         NEW steps, steps = Script(existing, included)
  PROVE  /\ Len(steps) \in Nat /\ DOMAIN steps = 1..Len(steps)
         /\ \A n \in DOMAIN steps : steps[n] \in PlanSteps(existing, included)
         /\ \A s \in PlanSteps(existing, included) : \E n \in DOMAIN steps : steps[n] = s
         /\ \A m, n \in DOMAIN steps : m < n <=> Ahead(steps[m], steps[n])
<1>1. PICK all : all = PlanSteps(existing, included)
  OBVIOUS
<1>2. PICK less : less = {p \in all \X all : Ahead(p[1], p[2])}
  OBVIOUS
<1>3. \A s, t \in all : <<s, t>> \in less <=> Ahead(s, t)
  BY <1>2
<1>4. PICK under : under = [s \in all |-> {t \in all : Ahead(t, s)}]
  OBVIOUS
<1>5. IsFiniteSet(all)
  BY <1>1, StepsFinite
<1>6. /\ \A s \in all : ~Ahead(s, s)
      /\ \A s, t, u \in all : Ahead(s, t) /\ Ahead(t, u) => Ahead(s, u)
      /\ \A s, t \in all : s # t => Ahead(s, t) \/ Ahead(t, s)
  BY <1>1, StepsOrdered
<1>7. PICK size \in Nat : size = Cardinality(all)
  BY <1>5, FS_CardinalityType
<1>8. PICK rank \in [all -> 1..size] :
        /\ \A s \in all : rank[s] = Cardinality({t \in all : Ahead(t, s)}) + 1
        /\ \A s, t \in all : <<s, t>> \in less <=> rank[s] < rank[t]
        /\ \A n \in 1..size : \E s \in all : rank[s] = n
  <2>1. \A s \in all : <<s, s>> \notin less
    BY <1>3, <1>6
  <2>2. \A s, t, u \in all : <<s, t>> \in less /\ <<t, u>> \in less => <<s, u>> \in less
    BY <1>3, <1>6
  <2>3. \A s, t \in all : s # t => <<s, t>> \in less \/ <<t, s>> \in less
    BY <1>3, <1>6
  <2>4. \A s \in all : under[s] = {t \in all : Ahead(t, s)}
    BY <1>4
  <2>5. \A s, t \in all : t \in under[s] <=> <<t, s>> \in less
    BY <1>3, <2>4
  <2>6. \A s \in all : under[s] \subseteq all
    BY <2>4
  <2>7. /\ \A s \in all : Cardinality(under[s]) + 1 \in 1..Cardinality(all)
        /\ \A s, t \in all : <<s, t>> \in less
                               <=> Cardinality(under[s]) + 1 < Cardinality(under[t]) + 1
        /\ \A n \in 1..Cardinality(all) : \E s \in all : Cardinality(under[s]) + 1 = n
    BY <1>5, <2>1, <2>2, <2>3, <2>5, <2>6, Ranks
  <2>8. PICK rank : rank = [s \in all |-> Cardinality(under[s]) + 1]
    OBVIOUS
  <2>9. \A s \in all : rank[s] = Cardinality(under[s]) + 1
    BY <2>8
  <2>10. rank \in [all -> 1..size]
    BY <1>7, <2>7, <2>8
  <2>11. \A s \in all : rank[s] = Cardinality({t \in all : Ahead(t, s)}) + 1
    BY <2>4, <2>9
  <2> QED BY <1>7, <2>7, <2>9, <2>10, <2>11
<1> DEFINE placed == {<<Cardinality({t \in all : Ahead(t, s)}) + 1, s>> : s \in all}
<1>10. \A n : \A s \in all : <<n, s>> \in placed <=> rank[s] = n
  BY <1>8
<1>11. steps = [n \in 1..size |-> CHOOSE s \in all : <<n, s>> \in placed]
  BY <1>1, <1>7 DEF Script
<1> HIDE DEF placed
<1>12. \A n \in 1..size : steps[n] \in all /\ rank[steps[n]] = n
  <2> SUFFICES ASSUME NEW n \in 1..size
               PROVE  steps[n] \in all /\ rank[steps[n]] = n
    OBVIOUS
  <2>1. \E s \in all : <<n, s>> \in placed
    BY <1>8, <1>10
  <2>2. steps[n] = CHOOSE s \in all : <<n, s>> \in placed
    BY <1>11
  <2>3. steps[n] \in all /\ <<n, steps[n]>> \in placed
    BY <2>1, <2>2
  <2> QED BY <1>10, <2>3
<1>13. DOMAIN steps = 1..size /\ Len(steps) = size
  <2>1. steps \in [1..size -> all]
    BY <1>11, <1>12
  <2> QED BY <2>1
<1>14. \A s \in all : \E n \in 1..size : steps[n] = s
  <2> SUFFICES ASSUME NEW s \in all
               PROVE  \E n \in 1..size : steps[n] = s
    OBVIOUS
  <2>1. PICK n \in 1..size : n = rank[s]
    BY <1>8
  <2>2. steps[n] \in all /\ rank[steps[n]] = rank[s]
    BY <1>12, <2>1
  <2>3. s = steps[n]
    <3>1. ~(rank[s] < rank[steps[n]]) /\ ~(rank[steps[n]] < rank[s])
      BY <1>8, <2>2
    <3> QED BY <1>3, <1>6, <1>8, <2>2, <3>1
  <2> QED BY <2>3
<1>15. \A m, n \in 1..size : m < n <=> Ahead(steps[m], steps[n])
  <2> SUFFICES ASSUME NEW m \in 1..size, NEW n \in 1..size
               PROVE  m < n <=> Ahead(steps[m], steps[n])
    OBVIOUS
  <2>1. steps[m] \in all /\ steps[n] \in all /\ rank[steps[m]] = m /\ rank[steps[n]] = n
    BY <1>12
  <2>2. <<steps[m], steps[n]>> \in less <=> rank[steps[m]] < rank[steps[n]]
    BY <1>8, <2>1
  <2>3. <<steps[m], steps[n]>> \in less <=> Ahead(steps[m], steps[n])
    BY <1>3, <2>1
  <2> QED BY <2>1, <2>2, <2>3
<1> QED BY <1>1, <1>12, <1>13, <1>14, <1>15

-----------------------------------------------------------------------------
(* What the order of a script is good for *)

\* A step that does `do` to i comes before the n-th.
Done(steps, n, do, i) ==
  \E m \in DOMAIN steps : m < n /\ steps[m].do = do /\ steps[m].id = i

StepSound(s) ==
  /\ s.id \in manifest.ids /\ s.do \in {"drop", "create", "load"}
  /\ s.do = "drop" => s.phase = 0
  /\ s.do = "create" => s.phase = PhaseFor(Object(s.id).kind)
  /\ s.do = "load" => s.phase = 2 /\ Object(s.id).kind = "table"

\* What the preview with this request does not see; Unseen says it of the request.
Hidden(r, i) ==
  \/ IF IsPostgres THEN Object(i).kind = "schema" \/ Trait(i, "partitioned") ELSE r.elsewhere
  \/ Trait(i, "implicit")

Grounded(steps, n, r) ==
  /\ steps[n].do = "drop" =>
       \A j \in manifest.ids \cap before :
         steps[n].id \in manifest.deps[j] /\ ~Hidden(r, j) => Done(steps, n, "drop", j)
  /\ steps[n].do \in {"create", "load"} =>
       \A d \in manifest.deps[steps[n].id] : Done(steps, n, "create", d)
  /\ steps[n].do = "create" /\ steps[n].id \in before /\ ~Hidden(r, steps[n].id) =>
       Done(steps, n, "drop", steps[n].id)
  /\ steps[n].do = "load" =>
       /\ Done(steps, n, "create", steps[n].id)
       /\ \A i \in manifest.ids : Object(i).kind = "partition" /\ Object(i).on = steps[n].id
                                    => Done(steps, n, "create", i)

ScriptSound(steps, r) ==
  /\ Len(steps) \in Nat /\ DOMAIN steps = 1..Len(steps)
  /\ \A n \in DOMAIN steps : StepSound(steps[n]) /\ Grounded(steps, n, r)
  /\ \A m, n \in DOMAIN steps : m < n => steps[m].phase <= steps[n].phase
  /\ \A m, n \in DOMAIN steps : steps[m].do = steps[n].do /\ steps[m].id = steps[n].id => m = n

LEMMA PlanIsSound ==
  ASSUME origin \in Sources, ManifestSound, database = before, NEW r \in Requests,
         Restorable(r, Existing(r), Included(r)),
         NEW steps, steps = Script(Existing(r), Included(r))
  PROVE  ScriptSound(steps, r)
<1>1. PICK existing, included : existing = Existing(r) /\ included = Included(r)
  OBVIOUS
<1>2. PICK all : all = PlanSteps(existing, included)
  OBVIOUS
<1>3. /\ Skipped(r) = Unsupported(r) /\ IsFiniteSet(included) /\ included \subseteq Ids
      /\ \A i \in included : manifest.deps[i] \subseteq included
      /\ included = manifest.ids \ Unsupported(r)
  BY <1>1, SkippedUnsupported DEF Included
<1>4. ~Cyclic(included)
  BY <1>1 DEF Restorable
<1>5. PICK waves : waves = Waves(included)
  OBVIOUS
<1>6. /\ \A i \in included : waves[i] \in Nat
      /\ \A i, d \in included : d \in manifest.deps[i] => waves[d] < waves[i]
  BY <1>3, <1>4, <1>5, WaveFacts
<1>7. /\ Len(steps) \in Nat /\ DOMAIN steps = 1..Len(steps)
      /\ \A n \in DOMAIN steps : steps[n] \in all
      /\ \A s \in all : \E n \in DOMAIN steps : steps[n] = s
      /\ \A m, n \in DOMAIN steps : m < n <=> Ahead(steps[m], steps[n])
  <2>1. included \subseteq Ids /\ IsFiniteSet(included) /\ ~Cyclic(included)
        /\ steps = Script(existing, included)
    BY <1>1, <1>3, <1>4
  <2>2. /\ Len(steps) \in Nat /\ DOMAIN steps = 1..Len(steps)
        /\ \A n \in DOMAIN steps : steps[n] \in PlanSteps(existing, included)
        /\ \A s \in PlanSteps(existing, included) : \E n \in DOMAIN steps : steps[n] = s
        /\ \A m, n \in DOMAIN steps : m < n <=> Ahead(steps[m], steps[n])
    BY <2>1, ScriptFacts
  <2> QED BY <1>2, <2>2
<1>8. \A s \in all :
        /\ s.phase \in 0..3 /\ s.id \in included /\ s.id \in Nat /\ s.wave \in Nat
        /\ s.do = "drop" => s.phase = 0 /\ s.wave = waves[s.id] /\ s.id \in existing
        /\ s.do = "create" => /\ s.phase = PhaseFor(Object(s.id).kind) /\ s.phase \in {1, 3}
                              /\ s.wave = waves[s.id]
        /\ s.do = "load" => s.phase = 2 /\ s.wave = 0 /\ Object(s.id).kind = "table"
        /\ s.do \in {"drop", "create", "load"}
        /\ s = [phase |-> s.phase, do |-> s.do, id |-> s.id, wave |-> s.wave]
  BY <1>2, <1>3, <1>4, <1>5, StepFacts
<1>9. \A i \in included : \E m \in DOMAIN steps :
        /\ steps[m].do = "create" /\ steps[m].id = i /\ steps[m].wave = waves[i]
        /\ steps[m].phase = PhaseFor(Object(i).kind)
  <2> SUFFICES ASSUME NEW i \in included
               PROVE  \E m \in DOMAIN steps :
                        /\ steps[m].do = "create" /\ steps[m].id = i /\ steps[m].wave = waves[i]
                        /\ steps[m].phase = PhaseFor(Object(i).kind)
    OBVIOUS
  <2>1. PICK s : s = PlanStep(PhaseFor(Object(i).kind), "create", i, waves[i])
    OBVIOUS
  <2>2. s \in all
    BY <1>2, <1>5, <2>1 DEF PlanSteps
  <2>3. PICK m \in DOMAIN steps : steps[m] = s
    BY <1>7, <2>2
  <2> QED BY <2>1, <2>3 DEF PlanStep
<1>10. \A i \in included \cap existing : \E m \in DOMAIN steps :
         steps[m].do = "drop" /\ steps[m].id = i /\ steps[m].wave = waves[i] /\ steps[m].phase = 0
  <2> SUFFICES ASSUME NEW i \in included \cap existing
               PROVE  \E m \in DOMAIN steps : /\ steps[m].do = "drop" /\ steps[m].id = i
                                              /\ steps[m].wave = waves[i] /\ steps[m].phase = 0
    OBVIOUS
  <2>1. PICK s : s = PlanStep(0, "drop", i, waves[i])
    OBVIOUS
  <2>2. s \in all
    BY <1>2, <1>5, <2>1 DEF PlanSteps
  <2>3. PICK m \in DOMAIN steps : steps[m] = s
    BY <1>7, <2>2
  <2> QED BY <2>1, <2>3 DEF PlanStep
<1>11. \A n \in DOMAIN steps : StepSound(steps[n])
  BY <1>3, <1>7, <1>8 DEF StepSound
<1>12. \A m, n \in DOMAIN steps : m < n => steps[m].phase <= steps[n].phase
  <2> SUFFICES ASSUME NEW m \in DOMAIN steps, NEW n \in DOMAIN steps, m < n
               PROVE  steps[m].phase <= steps[n].phase
    OBVIOUS
  <2>1. Ahead(steps[m], steps[n]) /\ steps[m].phase \in 0..3 /\ steps[n].phase \in 0..3
    BY <1>7, <1>8
  <2> QED BY <2>1 DEF Ahead
<1>13. \A m, n \in DOMAIN steps : steps[m].do = steps[n].do /\ steps[m].id = steps[n].id => m = n
  <2> SUFFICES ASSUME NEW m \in DOMAIN steps, NEW n \in DOMAIN steps,
                      steps[m].do = steps[n].do, steps[m].id = steps[n].id
               PROVE  m = n
    OBVIOUS
  <2>1. steps[m] \in all /\ steps[n] \in all
    BY <1>7
  <2>2. steps[m].phase = steps[n].phase /\ steps[m].wave = steps[n].wave
    BY <1>8, <2>1
  <2>3. steps[m].phase \in Int /\ steps[m].wave \in Int /\ steps[m].id \in Int
    BY <1>8, <2>1
  <2>4. ~Ahead(steps[m], steps[n]) /\ ~Ahead(steps[n], steps[m])
    BY <2>2, <2>3 DEF Ahead, Ordered
  <2>5. m \in Nat /\ n \in Nat /\ ~(m < n) /\ ~(n < m)
    BY <1>7, <2>4
  <2> QED BY <2>5
<1>14. \A m, n \in DOMAIN steps : steps[m].phase < steps[n].phase => m < n
  BY <1>7 DEF Ahead
<1>15. \A i \in Ids : i \in database /\ i \in manifest.ids /\ ~Hidden(r, i) => i \in existing
  BY <1>1 DEF Existing, PostgresExisting, MysqlExisting, Hidden
<1>16. ASSUME NEW n \in DOMAIN steps, steps[n].do = "drop", NEW j \in manifest.ids \cap before,
              steps[n].id \in manifest.deps[j], ~Hidden(r, j)
       PROVE  Done(steps, n, "drop", j)
  <2>1. steps[n] \in all
    BY <1>7
  <2>2. steps[n].id \in included /\ steps[n].id \in existing /\ steps[n].phase = 0
        /\ steps[n].wave = waves[steps[n].id]
    BY <1>8, <1>16, <2>1
  <2>3. j \in existing /\ j \in Ids
    BY <1>15, <1>16 DEF ManifestSound
  <2>4. j \in included
    <3> SUFFICES ASSUME j \in Unsupported(r)
                 PROVE  FALSE
      BY <1>3
    <3>1. Object(j).kind \notin SupportedKinds(r) /\ Object(j).kind \in ObjectKinds
      BY <2>3, ObjectFacts DEF Unsupported, ObjectOK
    <3>2. CASE IsPostgres
      <4>1. Object(j).kind \in {"procedure", "event"}
        BY <3>1, <3>2 DEF SupportedKinds, ObjectKinds
      <4>2. Object(steps[n].id).kind = "schema"
        BY <1>16, <3>2, <4>1 DEF ManifestSound
      <4> QED BY <1>1, <2>2, <3>2, <4>2 DEF Existing, PostgresExisting
    <3>3. CASE ~IsPostgres
      <4>1. Object(j).kind \in {"schema", "type", "domain", "sequence", "materialized-view",
                                "extension"}
        BY <3>1, <3>3 DEF SupportedKinds, ObjectKinds
      <4> QED BY <1>16, <3>3, <4>1 DEF ManifestSound
    <3> QED BY <3>2, <3>3
  <2>5. PICK m \in DOMAIN steps : /\ steps[m].do = "drop" /\ steps[m].id = j
                                  /\ steps[m].wave = waves[j] /\ steps[m].phase = 0
    BY <1>10, <2>3, <2>4
  <2>6. waves[steps[n].id] < waves[j]
    BY <1>6, <1>16, <2>2, <2>4
  <2>7. Ahead(steps[m], steps[n])
    BY <2>2, <2>5, <2>6 DEF Ahead, Ordered
  <2> QED BY <1>7, <2>5, <2>7 DEF Done
<1>17. ASSUME NEW n \in DOMAIN steps, steps[n].do \in {"create", "load"},
              NEW d \in manifest.deps[steps[n].id]
       PROVE  Done(steps, n, "create", d)
  <2>1. steps[n] \in all
    BY <1>7
  <2>2. steps[n].id \in included /\ d \in included /\ steps[n].phase \in 0..3
    BY <1>3, <1>8, <2>1
  <2>3. PICK m \in DOMAIN steps : /\ steps[m].do = "create" /\ steps[m].id = d
                                  /\ steps[m].wave = waves[d]
                                  /\ steps[m].phase = PhaseFor(Object(d).kind)
    BY <1>9, <2>2
  <2>4. /\ PhaseFor(Object(d).kind) <= PhaseFor(Object(steps[n].id).kind)
        /\ Object(steps[n].id).kind = "table" => PhaseFor(Object(d).kind) = 1
    BY <1>3, <2>2 DEF ManifestSound
  <2>5. CASE steps[n].do = "create"
    <3>1. /\ steps[n].phase = PhaseFor(Object(steps[n].id).kind) /\ steps[n].phase \in {1, 3}
          /\ steps[n].wave = waves[steps[n].id]
      BY <1>8, <2>1, <2>5
    <3>2. waves[d] < waves[steps[n].id]
      BY <1>6, <2>2
    <3>3. steps[m].phase \in {1, 3}
      BY <2>3 DEF PhaseFor
    <3>4. Ahead(steps[m], steps[n])
      BY <2>3, <2>4, <3>1, <3>2, <3>3 DEF Ahead, Ordered
    <3> QED BY <1>7, <2>3, <3>4 DEF Done
  <2>6. CASE steps[n].do = "load"
    <3>1. steps[n].phase = 2 /\ steps[m].phase = 1
      BY <1>8, <2>1, <2>3, <2>4, <2>6
    <3>2. m < n
      BY <1>14, <3>1
    <3> QED BY <2>3, <3>2 DEF Done
  <2> QED BY <1>17, <2>5, <2>6
<1>18. ASSUME NEW n \in DOMAIN steps, steps[n].do = "create", steps[n].id \in before,
              ~Hidden(r, steps[n].id)
       PROVE  Done(steps, n, "drop", steps[n].id)
  <2>1. steps[n].id \in included /\ steps[n].phase \in {1, 3}
    BY <1>7, <1>8, <1>18
  <2>2. steps[n].id \in existing
    BY <1>3, <1>15, <1>18, <2>1
  <2>3. PICK m \in DOMAIN steps :
          steps[m].do = "drop" /\ steps[m].id = steps[n].id /\ steps[m].phase = 0
    BY <1>10, <2>1, <2>2
  <2>4. m < n
    BY <1>14, <2>1, <2>3
  <2> QED BY <2>3, <2>4 DEF Done
<1>19. ASSUME NEW n \in DOMAIN steps, steps[n].do = "load", NEW i \in manifest.ids,
              i = steps[n].id \/ Object(i).kind = "partition"
       PROVE  Done(steps, n, "create", i)
  <2>1. steps[n].id \in included /\ steps[n].phase = 2 /\ Object(steps[n].id).kind = "table"
    BY <1>7, <1>8, <1>19
  <2>2. i \in included /\ PhaseFor(Object(i).kind) = 1
    BY <1>3, <1>19, <2>1 DEF Unsupported, SupportedKinds, PhaseFor
  <2>3. PICK m \in DOMAIN steps : steps[m].do = "create" /\ steps[m].id = i /\ steps[m].phase = 1
    BY <1>9, <2>2
  <2>4. m < n
    BY <1>14, <2>1, <2>3
  <2> QED BY <2>3, <2>4 DEF Done
<1>20. \A n \in DOMAIN steps : steps[n].id \in manifest.ids
  BY <1>11 DEF StepSound
<1>21. \A n \in DOMAIN steps : Grounded(steps, n, r)
  BY <1>16, <1>17, <1>18, <1>19, <1>20 DEF Grounded
<1> QED BY <1>7, <1>11, <1>12, <1>13, <1>21 DEF ScriptSound

-----------------------------------------------------------------------------
(* The invariant *)

Attached == {"constraint", "index", "trigger"}

\* Whatever belongs to a table is there only with the table.
Rooted(objects) ==
  \A i \in objects :
    /\ Object(i).kind \in Attached \cup {"partition"}
    /\ Object(i).on # 0 /\ Object(Object(i).on).kind = "table"
    => Object(i).on \in objects

DumpsTyped ==
  /\ origin \in Sources /\ request \in Requests \cup {Nothing}
  /\ database \subseteq Ids /\ loaded \subseteq Ids /\ before \subseteq Ids
  /\ stage \in {"catalog", "undumpable", "dumped", "refused", "restoring", "failed", "restored"}
  /\ Len(script) \in Nat /\ \A n \in DOMAIN script : script[n].id \in Ids
  /\ next \in Nat /\ 1 <= next /\ next <= Len(script) + 1

BeforeRestore ==
  stage \in {"catalog", "undumpable", "dumped", "refused"} =>
    /\ script = <<>> /\ next = 1 /\ loaded = {} /\ database = before

\* What is in the database, and what is loaded, when the steps before n were run.
Progress(n, objects, rows) ==
  /\ \A m \in DOMAIN script : m < n =>
       /\ script[m].do = "create" => script[m].id \in objects
       /\ script[m].do = "drop" => \/ script[m].id \notin objects
                                   \/ Done(script, n, "create", script[m].id)
                                   \/ Trait(script[m].id, "implicit")
       /\ script[m].do = "create" /\ Object(script[m].id).kind = "table" =>
            \A i \in objects : Object(i).kind \in Attached /\ Object(i).on = script[m].id =>
              \E l \in DOMAIN script : l < n /\ script[l].phase = 3
  /\ \A i \in objects :
       i \in before \/ Done(script, n, "create", i) \/ Trait(i, "implicit")
  /\ \A i \in rows : Done(script, n, "load", i)
  /\ Rooted(objects)
RunSound == Progress(next, database, loaded)

DumpsInv ==
  /\ DumpsTyped /\ ManifestSound /\ BeforeRestore /\ Rooted(before)
  /\ stage = "restoring" => ScriptSound(script, request) /\ RunSound

LEMMA DumpsStart == DumpsInit => DumpsInv
<1> SUFFICES ASSUME DumpsInit PROVE DumpsInv
  OBVIOUS
<1>1. Rooted(before)
  <2>1. \A i \in Ids : ObjectOK(Object(i), Len(origin.objects))
    BY ObjectFacts DEF DumpsInit
  <2>2. \A i \in database : i \in Ids /\ Object(i).needs \subseteq database
    BY DEF DumpsInit
  <2>3. \A i \in database : Object(i).kind \in Attached \cup {"partition"} /\ Object(i).on # 0
                              => Object(i).on \in database
    BY <2>1, <2>2 DEF ObjectOK, Attached
  <2> QED BY <2>3 DEF DumpsInit, Rooted
<1>2. DumpsTyped
  <2>1. Len(script) = 0 /\ DOMAIN script = {}
    BY DEF DumpsInit
  <2> QED BY <2>1 DEF DumpsInit, DumpsTyped
<1>3. ManifestSound
  BY DEF DumpsInit, ManifestSound, Nothing
<1> QED BY <1>1, <1>2, <1>3 DEF DumpsInit, DumpsInv, BeforeRestore

LEMMA TakeDumpStep ==
  ASSUME DumpsInv, TakeDump
  PROVE  DumpsInv'
<1>1. stage = "dumped" \/ stage = "undumpable" \/ stage = "catalog"
  BY DEF TakeDump
<1>2. UNCHANGED <<origin, request, script, next, database, loaded, before>>
      /\ stage' \in {"dumped", "undumpable"}
  BY DEF TakeDump
<1>3. ManifestSound'
  <2>1. PICK sc \in Scopes, data \in BOOLEAN :
          IF Dumpable(sc)
          THEN manifest' = [ids |-> Listed(sc), deps |-> [i \in Listed(sc) |-> Deps(sc, i)],
                            data |-> data]
          ELSE UNCHANGED manifest
    BY DEF TakeDump
  <2>2. CASE Dumpable(sc)
    BY <1>2, <2>1, <2>2, DumpIsSound DEF DumpsInv, DumpsTyped
  <2>3. CASE ~Dumpable(sc)
    BY <1>2, <2>1, <2>3
       DEF DumpsInv, ManifestSound, DependencyKinds, IsPostgres, Ids, Object
  <2> QED BY <2>2, <2>3
<1>4. DumpsTyped'
  BY <1>2 DEF DumpsInv, DumpsTyped, Requests, IsPostgres, Ids
<1>5. BeforeRestore'
  BY <1>1, <1>2 DEF DumpsInv, BeforeRestore
<1>6. Rooted(before)'
  BY <1>2 DEF DumpsInv, Rooted, Object
<1> QED BY <1>2, <1>3, <1>4, <1>5, <1>6 DEF DumpsInv

\* What is said of a script does not change while it is run.
LEMMA ScriptStays ==
  ASSUME UNCHANGED <<origin, manifest, before>>, NEW steps, NEW r, ScriptSound(steps, r)
  PROVE  ScriptSound(steps, r)'
<1>1. \A n : StepSound(steps[n]) => StepSound(steps[n])'
  BY DEF StepSound, Object
<1>2. \A n : Grounded(steps, n, r) => Grounded(steps, n, r)'
  BY DEF Grounded, Hidden, Object, Trait, IsPostgres, Done
<1> QED BY <1>1, <1>2 DEF ScriptSound

LEMMA PlanRestoreStep ==
  ASSUME DumpsInv, PlanRestore
  PROVE  DumpsInv'
<1>1. PICK r \in Requests :
        /\ request' = r
        /\ IF Restorable(r, Existing(r), Included(r))
           THEN script' = Script(Existing(r), Included(r)) /\ stage' = "restoring"
           ELSE stage' = "refused" /\ UNCHANGED script
  BY DEF PlanRestore
<1>2. /\ stage = "dumped" /\ UNCHANGED <<origin, manifest, next, database, loaded, before>>
      /\ origin \in Sources /\ ManifestSound /\ DumpsTyped /\ Rooted(before)
      /\ database = before /\ script = <<>> /\ next = 1 /\ loaded = {}
  BY DEF PlanRestore, DumpsInv, BeforeRestore, DumpsTyped
<1>3. ManifestSound' /\ Rooted(before)'
  BY <1>2 DEF ManifestSound, DependencyKinds, IsPostgres, Ids, Object, Rooted
<1>4. r \in Requests' /\ Ids' = Ids
  BY <1>1, <1>2 DEF Requests, IsPostgres, Ids
<1>5. CASE Restorable(r, Existing(r), Included(r))
  <2>1. script' = Script(Existing(r), Included(r)) /\ stage' = "restoring"
    BY <1>1, <1>5
  <2>2. PICK steps : steps = script'
    OBVIOUS
  <2>3. ScriptSound(steps, r)
    BY <1>2, <1>5, <2>1, <2>2, PlanIsSound
  <2>4. ScriptSound(steps, r)'
    BY <1>2, <2>3, ScriptStays
  <2>5. ScriptSound(script, request)'
    BY <1>1, <2>2, <2>4 DEF ScriptSound, Grounded, Hidden, Done
  <2>6. Len(script') \in Nat /\ DOMAIN script' = 1..Len(script')
        /\ \A n \in DOMAIN script' : script'[n].id \in Ids
    BY <1>2, <2>2, <2>3 DEF ScriptSound, StepSound, ManifestSound
  <2>7. DumpsTyped'
    <3>1. next' \in Nat /\ 1 <= next' /\ next' <= Len(script') + 1
      BY <1>2, <2>6
    <3> QED BY <1>1, <1>2, <1>4, <2>1, <2>6, <3>1 DEF DumpsTyped
  <2>8. RunSound'
    <3>1. \A n \in DOMAIN script' : ~(n < next')
      BY <1>2, <2>6
    <3>2. database' = before' /\ loaded' = {} /\ Rooted(database)'
      BY <1>2, <1>3 DEF Rooted
    <3> QED BY <3>1, <3>2 DEF RunSound, Progress
  <2> QED BY <1>3, <2>1, <2>5, <2>7, <2>8 DEF DumpsInv, BeforeRestore
<1>6. CASE ~Restorable(r, Existing(r), Included(r))
  <2>1. stage' = "refused" /\ UNCHANGED script
    BY <1>1, <1>6
  <2>2. DumpsTyped'
    BY <1>1, <1>2, <1>4, <2>1 DEF DumpsTyped
  <2>3. BeforeRestore'
    BY <1>2, <2>1 DEF BeforeRestore
  <2> QED BY <1>3, <2>1, <2>2, <2>3 DEF DumpsInv
<1> QED BY <1>5, <1>6

\* The steps that are run change neither what is dumped nor the plan.
LEMMA RunStays ==
  ASSUME DumpsInv, stage = "restoring", UNCHANGED <<origin, manifest, request, script, before>>,
         stage' \in {"restoring", "failed", "restored"},
         next' \in Nat, 1 <= next', next' <= Len(script) + 1,
         database' \subseteq Ids, loaded' \subseteq Ids,
         stage' = "restoring" => Progress(next', database', loaded')
  PROVE  DumpsInv'
<1>1. ManifestSound' /\ Rooted(before)' /\ Ids' = Ids /\ Requests' = Requests
  BY DEF DumpsInv, ManifestSound, DependencyKinds, IsPostgres, Ids, Object, Rooted, Requests
<1>2. DumpsTyped'
  BY <1>1 DEF DumpsInv, DumpsTyped
<1>3. ScriptSound(script, request)'
  <2>1. PICK steps, r : steps = script /\ r = request
    OBVIOUS
  <2>2. ScriptSound(steps, r)'
    BY <2>1, ScriptStays DEF DumpsInv
  <2>3. script' = steps /\ request' = r
    BY <2>1
  <2> QED BY <2>2, <2>3 DEF ScriptSound, Grounded, Hidden, Done
<1>4. ASSUME stage' = "restoring"
      PROVE  RunSound'
  <2>1. PICK n, objects, rows : n = next' /\ objects = database' /\ rows = loaded'
    OBVIOUS
  <2>2. Progress(n, objects, rows)
    BY <1>4, <2>1
  <2>3. Progress(n, objects, rows)'
    BY <2>2 DEF Progress, Done, Rooted, Object, Trait
  <2> QED BY <2>1, <2>3 DEF RunSound, Progress, Done, Rooted
<1> QED BY <1>1, <1>2, <1>3, <1>4 DEF DumpsInv, BeforeRestore

\* What the next step of a script is, and what came before it.
LEMMA UpcomingFacts ==
  ASSUME DumpsInv, Restoring
  PROVE  /\ next \in DOMAIN script /\ next \in Nat /\ DOMAIN script \subseteq Nat
         /\ Upcoming.id \in manifest.ids /\ Upcoming.id \in Ids /\ Upcoming.id \in Nat \ {0}
         /\ ObjectOK(Object(Upcoming.id), Len(origin.objects))
         /\ StepSound(Upcoming) /\ Grounded(script, next, request)
         /\ \A m \in DOMAIN script : StepSound(script[m])
         /\ \A m \in DOMAIN script : m < next => script[m].phase <= Upcoming.phase
         /\ \A m \in DOMAIN script : m < next + 1 <=> (m < next \/ m = next)
         /\ \A m \in DOMAIN script : m < next =>
              ~(script[m].do = Upcoming.do /\ script[m].id = Upcoming.id)
         /\ \A do, i : Done(script, next + 1, do, i)
                         <=> Done(script, next, do, i) \/ (Upcoming.do = do /\ Upcoming.id = i)
         /\ Progress(next, database, loaded)
         /\ next + 1 \in Nat /\ 1 <= next + 1 /\ next + 1 <= Len(script) + 1
<1>1. ScriptSound(script, request) /\ RunSound /\ ManifestSound /\ DumpsTyped /\ origin \in Sources
  BY DEF DumpsInv, Restoring, DumpsTyped
<1>2. next \in Nat /\ 1 <= next /\ next <= Len(script) /\ Len(script) \in Nat
      /\ DOMAIN script = 1..Len(script)
  BY <1>1 DEF DumpsTyped, ScriptSound, Restoring
<1>3. next \in DOMAIN script /\ DOMAIN script \subseteq Nat
  BY <1>2
<1>4. \A m \in DOMAIN script : StepSound(script[m])
  BY <1>1 DEF ScriptSound
<1>5. Upcoming.id \in manifest.ids /\ Upcoming.id \in Ids
  BY <1>1, <1>3, <1>4 DEF StepSound, Upcoming, ManifestSound
<1>6. Upcoming.id \in Nat \ {0} /\ ObjectOK(Object(Upcoming.id), Len(origin.objects))
  BY <1>1, <1>5, ObjectFacts
<1>7. \A m \in DOMAIN script : m < next + 1 <=> (m < next \/ m = next)
  BY <1>2, <1>3
<1>8. \A m \in DOMAIN script : m < next => script[m].phase <= Upcoming.phase
  BY <1>1, <1>3 DEF ScriptSound, Upcoming
<1>9. \A m \in DOMAIN script : m < next =>
        ~(script[m].do = Upcoming.do /\ script[m].id = Upcoming.id)
  <2>1. ~(next < next)
    BY <1>2
  <2> QED BY <1>1, <1>3, <2>1 DEF ScriptSound, Upcoming
<1>10. \A do, i : Done(script, next + 1, do, i)
                    <=> Done(script, next, do, i) \/ (Upcoming.do = do /\ Upcoming.id = i)
  BY <1>3, <1>7 DEF Done, Upcoming
<1>11. Grounded(script, next, request) /\ Progress(next, database, loaded)
  BY <1>1, <1>3 DEF ScriptSound, RunSound
<1>12. next + 1 \in Nat /\ 1 <= next + 1 /\ next + 1 <= Len(script) + 1
  BY <1>2
<1> QED BY <1>2, <1>3, <1>4, <1>5, <1>6, <1>7, <1>8, <1>9, <1>10, <1>11, <1>12 DEF Upcoming

\* Nothing was made before a drop, and nothing was dropped after what was made.
LEMMA DropsComeFirst ==
  ASSUME DumpsInv, Restoring, Upcoming.do = "drop"
  PROVE  \A m \in DOMAIN script : m < next => script[m].do = "drop"
<1> SUFFICES ASSUME NEW m \in DOMAIN script, m < next
             PROVE  script[m].do = "drop"
  OBVIOUS
<1>1. script[m].phase <= Upcoming.phase /\ StepSound(script[m]) /\ StepSound(Upcoming)
  BY UpcomingFacts
<1>2. Upcoming.phase = 0
  BY <1>1 DEF StepSound
<1> QED BY <1>1, <1>2 DEF StepSound, PhaseFor

LEMMA RunDropStep ==
  ASSUME DumpsInv, RunDrop
  PROVE  DumpsInv'
<1>1. PICK u, n, objects : u = Upcoming.id /\ n = next + 1 /\ objects = database \ Gone(u)
  OBVIOUS
<1>2. /\ Restoring /\ Upcoming.do = "drop" /\ stage = "restoring" /\ next' = n
      /\ UNCHANGED <<origin, manifest, request, script, loaded, before, stage>>
      /\ database' = objects /\ objects \subseteq database /\ u \notin objects
  BY <1>1 DEF RunDrop, Restoring, Gone
<1>3. Rooted(objects)
  <2>1. Rooted(database)
    BY <1>2, UpcomingFacts DEF Progress
  <2>2. ASSUME NEW i \in objects, Object(i).kind \in Attached \cup {"partition"},
               Object(i).on # 0, Object(Object(i).on).kind = "table"
        PROVE  Object(i).on \in objects
    <3>1. i \in database /\ Object(i).on \in database /\ i \notin Gone(u)
      BY <1>1, <2>1, <2>2 DEF Rooted
    <3>2. Object(i).on # u
      BY <2>2, <3>1 DEF Gone, Belongs, Attached
    <3>3. Object(i).on \notin Gone(u)
      BY <2>2, <3>2 DEF Gone, Belongs
    <3> QED BY <1>1, <3>1, <3>3
  <2> QED BY <2>2 DEF Rooted
<1>4. Progress(n, objects, loaded)
  <2>1. Progress(next, database, loaded)
    BY <1>2, UpcomingFacts
  <2>2. \A m \in DOMAIN script : m < n => script[m].do = "drop"
    BY <1>1, <1>2, UpcomingFacts, DropsComeFirst DEF Upcoming
  <2>3. \A do, i : Done(script, next, do, i) => Done(script, n, do, i)
    BY <1>1, <1>2, UpcomingFacts
  <2>4. \A m \in DOMAIN script : m < n => m < next \/ script[m].id = u
    BY <1>1, <1>2, UpcomingFacts DEF Upcoming
  <2>5. \A m \in DOMAIN script : m < n =>
          \/ script[m].id \notin objects
          \/ Done(script, n, "create", script[m].id)
          \/ Trait(script[m].id, "implicit")
    BY <1>2, <2>1, <2>2, <2>3, <2>4 DEF Progress
  <2>6. \A i \in objects : i \in before \/ Done(script, n, "create", i) \/ Trait(i, "implicit")
    BY <1>2, <2>1, <2>3 DEF Progress
  <2>7. \A i \in loaded : Done(script, n, "load", i)
    BY <2>1, <2>3 DEF Progress
  <2> QED BY <1>3, <2>2, <2>5, <2>6, <2>7 DEF Progress
<1>5. n \in Nat /\ 1 <= n /\ n <= Len(script) + 1
  BY <1>1, <1>2, UpcomingFacts
<1>6. objects \subseteq Ids /\ loaded \subseteq Ids
  BY <1>2 DEF DumpsInv, DumpsTyped
<1> QED BY <1>2, <1>4, <1>5, <1>6, RunStays

LEMMA RunCreateStep ==
  ASSUME DumpsInv, RunCreate
  PROVE  DumpsInv'
<1>1. PICK u, n, objects : u = Upcoming.id /\ n = next + 1 /\ objects = database \cup Made(u)
  OBVIOUS
<1>2. /\ Restoring /\ Upcoming.do = "create" /\ stage = "restoring" /\ next' = n
      /\ UNCHANGED <<origin, manifest, request, script, loaded, before, stage>>
      /\ database' = objects /\ database \subseteq objects /\ u \in objects
      /\ u \notin database /\ Object(u).needs \subseteq database
  BY <1>1 DEF RunCreate, Restoring, Made, Creatable
<1>3. /\ u \in Ids /\ u \in Nat \ {0} /\ ObjectOK(Object(u), Len(origin.objects))
      /\ Upcoming.phase = PhaseFor(Object(u).kind)
  BY <1>1, <1>2, UpcomingFacts DEF StepSound
<1>4. Progress(next, database, loaded)
  BY <1>2, UpcomingFacts
\* what is made besides u: indexes of a constraint, on its table
<1>5. ASSUME NEW i \in objects, i \notin database, i # u
      PROVE  /\ Trait(i, "implicit") /\ Object(i).on = Object(u).on /\ i \in Ids
             /\ Object(u).kind = "constraint"
  BY <1>1, <1>3, <1>5 DEF Made, ObjectOK, Trait
<1>6. Object(u).on # 0 /\ Object(u).kind # "sequence" => Object(u).on \in database
  BY <1>2, <1>3 DEF ObjectOK
<1>7. Rooted(objects)
  <2>1. ASSUME NEW i \in objects, Object(i).kind \in Attached \cup {"partition"},
               Object(i).on # 0, Object(Object(i).on).kind = "table"
        PROVE  Object(i).on \in objects
    <3>1. CASE i \in database
      BY <1>2, <1>4, <2>1, <3>1 DEF Progress, Rooted
    <3>2. CASE i = u
      BY <1>2, <1>6, <2>1, <3>2 DEF Attached
    <3>3. CASE i \notin database /\ i # u
      BY <1>2, <1>5, <1>6, <2>1, <3>3
    <3> QED BY <3>1, <3>2, <3>3
  <2> QED BY <2>1 DEF Rooted
<1>8. \A do, i : Done(script, n, do, i)
                   <=> Done(script, next, do, i) \/ (Upcoming.do = do /\ u = i)
  BY <1>1, <1>2, UpcomingFacts
<1>9. \A m \in DOMAIN script : m < n <=> (m < next \/ m = next)
  BY <1>1, <1>2, UpcomingFacts
<1>10. next \in DOMAIN script /\ script[next] = Upcoming
  BY <1>2, UpcomingFacts DEF Upcoming
<1>11. ASSUME NEW m \in DOMAIN script, m < n, script[m].do = "create"
       PROVE  script[m].id \in objects
  BY <1>1, <1>2, <1>4, <1>9, <1>10, <1>11 DEF Progress
<1>12. ASSUME NEW m \in DOMAIN script, m < n, script[m].do = "drop"
       PROVE  \/ script[m].id \notin objects
              \/ Done(script, n, "create", script[m].id)
              \/ Trait(script[m].id, "implicit")
  <2>1. m < next
    BY <1>2, <1>9, <1>10, <1>12
  <2>2. PICK i : i = script[m].id
    OBVIOUS
  <2>3. i \notin database \/ Done(script, next, "create", i) \/ Trait(i, "implicit")
    BY <1>4, <1>12, <2>1, <2>2 DEF Progress
  <2>4. CASE i = u
    BY <1>2, <1>8, <2>2, <2>4
  <2> QED BY <1>5, <1>8, <2>2, <2>3, <2>4
<1>13. ASSUME NEW m \in DOMAIN script, m < n, script[m].do = "create",
              Object(script[m].id).kind = "table",
              NEW i \in objects, Object(i).kind \in Attached, Object(i).on = script[m].id
       PROVE  \E l \in DOMAIN script : l < n /\ script[l].phase = 3
  <2>1. script[m].id # 0
    <3>1. StepSound(script[m])
      BY <1>2, UpcomingFacts
    <3>2. script[m].id \in Ids
      BY <3>1 DEF StepSound, DumpsInv, ManifestSound
    <3> QED BY <3>2, ObjectFacts DEF DumpsInv, DumpsTyped
  <2>2. CASE i \in database
    <3>1. m # next
      <4>1. Object(i).on \in database
        BY <1>4, <1>13, <2>1, <2>2 DEF Progress, Rooted
      <4> QED BY <1>1, <1>2, <1>10, <1>13, <4>1
    <3>2. \E l \in DOMAIN script : l < next /\ script[l].phase = 3
      BY <1>4, <1>9, <1>13, <2>2, <3>1 DEF Progress
    <3> QED BY <1>9, <3>2
  <2>3. CASE i \notin database
    <3>1. PhaseFor(Object(u).kind) = 3
      BY <1>5, <1>13, <2>3 DEF PhaseFor, Attached
    <3> QED BY <1>3, <1>9, <1>10, <3>1
  <2> QED BY <2>2, <2>3
<1>14. ASSUME NEW i \in objects
       PROVE  i \in before \/ Done(script, n, "create", i) \/ Trait(i, "implicit")
  BY <1>2, <1>4, <1>5, <1>8 DEF Progress
<1>15. \A i \in loaded : Done(script, n, "load", i)
  BY <1>4, <1>8 DEF Progress
<1>16. Progress(n, objects, loaded)
  BY <1>7, <1>11, <1>12, <1>13, <1>14, <1>15 DEF Progress
<1>17. n \in Nat /\ 1 <= n /\ n <= Len(script) + 1
  BY <1>1, <1>2, UpcomingFacts
<1>18. objects \subseteq Ids /\ loaded \subseteq Ids
  BY <1>3, <1>5 DEF DumpsInv, DumpsTyped
<1> QED BY <1>2, <1>16, <1>17, <1>18, RunStays

LEMMA RunLoadStep ==
  ASSUME DumpsInv, RunLoad
  PROVE  DumpsInv'
<1>1. PICK u, n, rows : u = Upcoming.id /\ n = next + 1 /\ rows = loaded \cup {u}
  OBVIOUS
<1>2. /\ Restoring /\ Upcoming.do = "load" /\ stage = "restoring" /\ next' = n
      /\ UNCHANGED <<origin, manifest, request, script, database, before, stage>>
      /\ loaded' = rows
  BY <1>1 DEF RunLoad, Restoring
<1>3. Progress(next, database, loaded) /\ u \in Ids
  BY <1>1, <1>2, UpcomingFacts
<1>4. \A do, i : Done(script, n, do, i)
                   <=> Done(script, next, do, i) \/ (Upcoming.do = do /\ u = i)
  BY <1>1, <1>2, UpcomingFacts
<1>5. \A m \in DOMAIN script : m < n <=> (m < next \/ m = next)
  BY <1>1, <1>2, UpcomingFacts
<1>6. \A m \in DOMAIN script : m < n /\ script[m].do # "load" => m < next
  BY <1>2, <1>5 DEF Upcoming
<1>7. \A i \in rows : Done(script, n, "load", i)
  BY <1>1, <1>2, <1>3, <1>4 DEF Progress
<1>8. Progress(n, database, rows)
  <2>1. ASSUME NEW m \in DOMAIN script, m < n
        PROVE  /\ script[m].do = "create" => script[m].id \in database
               /\ script[m].do = "drop" => \/ script[m].id \notin database
                                           \/ Done(script, n, "create", script[m].id)
                                           \/ Trait(script[m].id, "implicit")
               /\ script[m].do = "create" /\ Object(script[m].id).kind = "table" =>
                    \A i \in database :
                      Object(i).kind \in Attached /\ Object(i).on = script[m].id =>
                        \E l \in DOMAIN script : l < n /\ script[l].phase = 3
    <3>1. CASE script[m].do \in {"create", "drop"}
      <4>1. m < next
        BY <1>6, <2>1, <3>1
      <4> QED BY <1>3, <1>4, <1>5, <4>1 DEF Progress
    <3>2. CASE script[m].do \notin {"create", "drop"}
      BY <3>2
    <3> QED BY <3>1, <3>2
  <2>2. \A i \in database : i \in before \/ Done(script, n, "create", i) \/ Trait(i, "implicit")
    BY <1>3, <1>4 DEF Progress
  <2>3. Rooted(database)
    BY <1>3 DEF Progress
  <2> QED BY <1>7, <2>1, <2>2, <2>3 DEF Progress
<1>9. n \in Nat /\ 1 <= n /\ n <= Len(script) + 1
  BY <1>1, <1>2, UpcomingFacts
<1>10. database \subseteq Ids /\ rows \subseteq Ids
  BY <1>1, <1>3 DEF DumpsInv, DumpsTyped
<1> QED BY <1>2, <1>8, <1>9, <1>10, RunStays

LEMMA DumpsStep ==
  ASSUME DumpsInv, [DumpsNext]_dumpVars
  PROVE  DumpsInv'
<1>1. CASE TakeDump
  BY <1>1, TakeDumpStep
<1>2. CASE PlanRestore
  BY <1>2, PlanRestoreStep
<1>3. CASE RunDrop
  BY <1>3, RunDropStep
<1>4. CASE RunCreate
  BY <1>4, RunCreateStep
<1>5. CASE RunLoad
  BY <1>5, RunLoadStep
<1>6. CASE RunFails
  <2>1. stage' = "failed" /\ stage = "restoring"
        /\ UNCHANGED <<origin, manifest, request, script, before, next>>
    BY <1>6 DEF RunFails, Restoring
  <2>2. database' \subseteq Ids /\ loaded' \subseteq Ids
    BY <1>6 DEF RunFails, DumpsInv, DumpsTyped
  <2>3. next' \in Nat /\ 1 <= next' /\ next' <= Len(script) + 1
    BY <2>1 DEF DumpsInv, DumpsTyped
  <2> QED BY <2>1, <2>2, <2>3, RunStays
<1>7. CASE FinishRestore
  <2>1. stage' = "restored" /\ stage = "restoring"
        /\ UNCHANGED <<origin, manifest, request, script, before, next, database, loaded>>
    BY <1>7 DEF FinishRestore
  <2>2. database' \subseteq Ids /\ loaded' \subseteq Ids
        /\ next' \in Nat /\ 1 <= next' /\ next' <= Len(script) + 1
    BY <2>1 DEF DumpsInv, DumpsTyped
  <2> QED BY <2>1, <2>2, RunStays
<1>8. CASE UNCHANGED dumpVars
  <2>1. PICK steps, r : steps = script /\ r = request
    OBVIOUS
  <2>2. UNCHANGED <<origin, manifest, request, script, next, database, loaded, before, stage>>
    BY <1>8 DEF dumpVars
  <2>3. CASE stage = "restoring"
    <3>1. Progress(next', database', loaded')
      BY <2>2, <2>3 DEF DumpsInv, RunSound
    <3>2. database' \subseteq Ids /\ loaded' \subseteq Ids
          /\ next' \in Nat /\ 1 <= next' /\ next' <= Len(script) + 1
      BY <2>2 DEF DumpsInv, DumpsTyped
    <3> QED BY <2>2, <2>3, <3>1, <3>2, RunStays
  <2>4. CASE stage # "restoring"
    <3>1. ManifestSound' /\ Rooted(before)' /\ Ids' = Ids /\ Requests' = Requests
      BY <2>2 DEF DumpsInv, ManifestSound, DependencyKinds, IsPostgres, Ids, Object, Rooted,
                  Requests
    <3>2. DumpsTyped' /\ BeforeRestore'
      BY <2>2, <3>1 DEF DumpsInv, DumpsTyped, BeforeRestore
    <3> QED BY <2>2, <2>4, <3>1, <3>2 DEF DumpsInv
  <2> QED BY <2>3, <2>4
<1> QED BY <1>1, <1>2, <1>3, <1>4, <1>5, <1>6, <1>7, <1>8 DEF DumpsNext

LEMMA DumpsAlways == DumpsSpec => []DumpsInv
<1>1. DumpsInit => DumpsInv
  BY DumpsStart
<1>2. DumpsInv /\ [DumpsNext]_dumpVars => DumpsInv'
  BY DumpsStep
<1> QED BY <1>1, <1>2, PTL DEF DumpsSpec

LEMMA DumpsShape == DumpsInv => DumpsTypeOK
  BY DEF DumpsInv, DumpsTyped, DumpsTypeOK, ManifestSound

-----------------------------------------------------------------------------
(* Theorems *)

\* The variables of a dump and its restore keep their types, for any databases, scopes and
\* versions of servers (sql-restore-plan.ts, sql-dump-restore.ts).
THEOREM DumpsTypesHold == DumpsSpec => []DumpsTypeOK
  BY DumpsShape, DumpsAlways, PTL

\* Whatever the database, the part of it that is dumped, the target, the options and the
\* versions: each statement of a restore finds what the manifest says it needs, and no
\* object is dropped while one that the preview saw depends on it.
THEOREM StatementsAreGrounded == DumpsSpec => []StatementsGrounded
<1>1. DumpsInv => StatementsGrounded
  <2> SUFFICES ASSUME DumpsInv, Restoring
               PROVE  StatementsGrounded
    BY DEF StatementsGrounded
  <2>1. \A i : Unseen(i) <=> Hidden(request, i)
    BY DEF Unseen, Hidden
  <2>2. Grounded(script, next, request) /\ Progress(next, database, loaded) /\ StepSound(Upcoming)
    BY UpcomingFacts
  <2>3. ASSUME Upcoming.do = "drop", NEW j \in manifest.ids \cap database,
               Upcoming.id \in manifest.deps[j], ~Hidden(request, j)
        PROVE  FALSE
    <3>1. \A i : ~Done(script, next, "create", i)
      BY <2>3, DropsComeFirst DEF Done
    <3>2. ~Trait(j, "implicit")
      BY <2>3 DEF Hidden
    <3>3. j \in before
      BY <2>2, <2>3, <3>1, <3>2 DEF Progress
    <3>4. Done(script, next, "drop", j)
      BY <2>2, <2>3, <3>3 DEF Grounded, Upcoming
    <3> QED BY <2>2, <2>3, <3>1, <3>2, <3>4 DEF Done, Progress
  <2>4. ASSUME Upcoming.do \in {"create", "load"}
        PROVE  manifest.deps[Upcoming.id] \subseteq database
    <3>1. \A d \in manifest.deps[Upcoming.id] : Done(script, next, "create", d)
      BY <2>2, <2>4 DEF Grounded, Upcoming
    <3> QED BY <2>2, <3>1 DEF Done, Progress
  <2>5. ASSUME Upcoming.do = "create", Upcoming.id \in database, ~Hidden(request, Upcoming.id)
        PROVE  FALSE
    <3>1. ~Done(script, next, "create", Upcoming.id)
      BY <2>5, UpcomingFacts DEF Done
    <3>2. ~Trait(Upcoming.id, "implicit")
      BY <2>5 DEF Hidden
    <3>3. Upcoming.id \in before
      BY <2>2, <2>5, <3>1, <3>2 DEF Progress
    <3>4. Done(script, next, "drop", Upcoming.id)
      BY <2>2, <2>5, <3>3 DEF Grounded, Upcoming
    <3> QED BY <2>2, <2>5, <3>1, <3>2, <3>4 DEF Done, Progress
  <2>6. Upcoming.do \in {"drop", "create", "load"}
    BY <2>2 DEF StepSound
  <2> QED BY <2>1, <2>3, <2>4, <2>5, <2>6 DEF StatementsGrounded
<1> QED BY <1>1, DumpsAlways, PTL

\* Rows are loaded once, into a table that is there with all the partitions of the dump, and
\* before any constraint, index or trigger of the dump is there
\* that they could violate or fire; for any databases, scopes, targets and options.
THEOREM LoadsAreUndisturbed == DumpsSpec => []LoadsUndisturbed
<1>1. DumpsInv => LoadsUndisturbed
  <2> SUFFICES ASSUME DumpsInv, Restoring, Upcoming.do = "load"
               PROVE  LoadsUndisturbed
    BY DEF LoadsUndisturbed
  <2>1. Grounded(script, next, request) /\ Progress(next, database, loaded) /\ StepSound(Upcoming)
    BY UpcomingFacts
  <2>2. \A i : Done(script, next, "create", i) => i \in database
    BY <2>1 DEF Done, Progress
  <2>3. Done(script, next, "create", Upcoming.id)
    BY <2>1 DEF Grounded, Upcoming
  <2>4. ~Done(script, next, "load", Upcoming.id)
    BY UpcomingFacts DEF Done
  <2>5. Upcoming.id \notin loaded
    BY <2>1, <2>4 DEF Progress
  <2>6. ASSUME NEW i \in manifest.ids, Object(i).on = Upcoming.id, Object(i).kind = "partition"
        PROVE  i \in database
    BY <2>1, <2>2, <2>6 DEF Grounded, Upcoming
  <2>7. ASSUME NEW i \in manifest.ids, Object(i).on = Upcoming.id, Object(i).kind \in Attached
        PROVE  i \notin database
    <3> SUFFICES ASSUME i \in database PROVE FALSE
      OBVIOUS
    <3>1. Object(Upcoming.id).kind = "table" /\ Upcoming.phase = 2
      BY <2>1 DEF StepSound
    <3>2. PICK l \in DOMAIN script : l < next /\ script[l].phase = 3
      BY <2>1, <2>3, <2>7, <3>1 DEF Progress, Done
    <3>3. script[l].phase <= Upcoming.phase
      BY <3>2, UpcomingFacts
    <3> QED BY <3>1, <3>2, <3>3
  <2> QED BY <2>2, <2>3, <2>5, <2>6, <2>7 DEF LoadsUndisturbed, Attached
<1> QED BY <1>1, DumpsAlways, PTL

-----------------------------------------------------------------------------
(* Previews of transfers *)


-----------------------------------------------------------------------------
(* What a stored plan is built again from *)

\* A request with another value in one field, or two.
LEMMA RequestWith ==
  ASSUME NEW w, w = [f \in RequestFields |-> w[f]]
  PROVE  /\ [w EXCEPT !.form = w.form] = w
         /\ [[w EXCEPT !.filters = w.filters, !.raw = w.raw] EXCEPT !.confirmed = w.confirmed] = w
         /\ [w EXCEPT !.scope = w.scope] = w
         /\ [w EXCEPT !.conflict = w.conflict, !.confirmed = w.confirmed] = w
         /\ [w EXCEPT !.filters = w.filters, !.raw = w.raw, !.confirmed = w.confirmed] = w
<1>1. \A f \in RequestFields : [w EXCEPT ![f] = w[f]] = w
  OBVIOUS
<1>2. /\ w.form = w["form"] /\ "form" \in RequestFields
  BY DEF RequestFields
<1> QED BY <1>1 DEF RequestFields

LEMMA PlanForm ==
  ASSUME NEW p, NEW s, NEW w
  PROVE  Plan(p, s, w).form = w.form
  BY DEF Plan, PlanOfImport, DumpPlan, RestorePlan, TablePlan

\* A plan that is no import tells all of its request.
LEMMA SameRequest ==
  ASSUME NEW p, NEW s, NEW w, IsRequest(w), w.form \notin ImportForms
  PROVE  PlanRequest(Plan(p, s, w), w) = w
<1>1. PICK plan : plan = Plan(p, s, w)
  OBVIOUS
<1>2. plan.form = w.form
  BY <1>1, PlanForm
<1>3. w = [f \in RequestFields |-> w[f]]
  BY DEF IsRequest
<1>4. [w EXCEPT !.form = plan.form] = w
  BY <1>2, <1>3, RequestWith
<1>5. CASE w.form = "sql-dump"
  <2>1. plan.scope = w.scope
    BY <1>1, <1>5 DEF Plan, DumpPlan, ImportForms
  <2> QED BY <1>1, <1>2, <1>3, <1>4, <1>5, <2>1, RequestWith DEF PlanRequest, DumpRequest, ImportForms
<1>6. CASE w.form = "sql-restore"
  <2>1. plan.mode = w.conflict /\ plan.confirmed = w.confirmed
    BY <1>1, <1>6 DEF Plan, RestorePlan, ImportForms
  <2> QED BY <1>1, <1>2, <1>3, <1>4, <1>6, <2>1, RequestWith
          DEF PlanRequest, RestoreRequest, ImportForms
<1>7. CASE w.form \notin {"sql-dump", "sql-restore"}
  <2>1. plan.filters = w.filters /\ plan.raw = w.raw /\ plan.confirmed = w.confirmed
    BY <1>1, <1>7 DEF Plan, TablePlan
  <2> QED BY <1>1, <1>2, <1>3, <1>4, <1>7, <2>1, RequestWith DEF PlanRequest, TableRequest
<1> QED BY <1>5, <1>6, <1>7

\* The fields of the request that an import plan is built again from.
LEMMA ImportRequestFields ==
  ASSUME NEW plan, NEW w, IsRequest(w), plan.form = w.form
  PROVE  LET v == ImportRequest(plan, [w EXCEPT !.form = plan.form])
         IN /\ v.form = w.form /\ v.map = Overrides(plan) /\ v.conflict = plan.conflict.conflict
            /\ v.transaction = plan.conflict.transaction
            /\ v.identity = plan.conflict.identity /\ v.resume = plan.conflict.resumed
            /\ v.confirmed = (plan.conflict.conflict = "replace")
            /\ v.filters = w.filters
  BY RequestWith DEF ImportRequest, IsRequest, RequestFields

\* The overrides of a mapping send every column of the package where the mapping does.
LEMMA SameTargets ==
  ASSUME NEW p, NEW s, NEW w, NEW plan, plan.mapping = Mapping(p, s, w),
         NEW v, v.map = Overrides(plan)
  PROVE  /\ DOMAIN v.map = DOMAIN p
         /\ \A c \in DOMAIN p : Target(v, c) = Target(w, c)
<1>1. /\ plan.mapping.ignored = DOMAIN p \ Kept(p, w)
      /\ plan.mapping.mapped = {<<c, Target(w, c), p[c]>> : c \in Kept(p, w)}
  BY DEF Mapping
<1>2. {m[1] : m \in plan.mapping.mapped} = Kept(p, w)
  <2>1. \A m \in plan.mapping.mapped : m[1] \in Kept(p, w)
    BY <1>1
  <2>2. ASSUME NEW c \in Kept(p, w)
        PROVE  \E m \in plan.mapping.mapped : m[1] = c
    <3>1. PICK m : m = <<c, Target(w, c), p[c]>>
      OBVIOUS
    <3>2. m \in plan.mapping.mapped /\ m[1] = c
      BY <1>1, <3>1
    <3> QED BY <3>2
  <2> QED BY <2>1, <2>2
<1>3. Kept(p, w) \subseteq DOMAIN p
  BY DEF Kept
<1>4. DOMAIN v.map = DOMAIN p
  BY <1>1, <1>2, <1>3 DEF Overrides
<1>5. ASSUME NEW c \in DOMAIN p
      PROVE  Target(v, c) = Target(w, c)
  <2>1. Target(v, c) = v.map[c]
    BY <1>4 DEF Target
  <2>2. CASE c \notin Kept(p, w)
    <3>1. v.map[c] = "ignore"
      BY <1>1, <1>2, <2>2 DEF Overrides
    <3> QED BY <2>1, <2>2, <3>1 DEF Kept
  <2>3. CASE c \in Kept(p, w)
    <3>1. v.map[c] = (CHOOSE m \in plan.mapping.mapped : m[1] = c)[2]
      BY <1>1, <1>2, <2>3 DEF Overrides
    <3>2. \A m \in plan.mapping.mapped : m[1] = c => m[2] = Target(w, c)
      BY <1>1
    <3>3. \E m \in plan.mapping.mapped : m[1] = c
      BY <1>2, <2>3
    <3> QED BY <2>1, <3>1, <3>2, <3>3
  <2> QED BY <2>2, <2>3
<1> QED BY <1>4, <1>5

\* An import plan that can be built again is what it is built again to, if the table is
\* still the one it was made for.
LEMMA SameImport ==
  ASSUME NEW p, NEW s, NEW w, IsRequest(w), w.form \in ImportForms, Acceptable(p, s, w),
         NEW plan, plan = Plan(p, s, w), ~Unrepeatable(plan)
  PROVE  /\ Acceptable(p, s, PlanRequest(plan, w))
         /\ Plan(p, s, PlanRequest(plan, w)) = plan
<1>1. /\ plan = PlanOfImport(p, s, w) /\ plan.form = w.form
      /\ plan.mapping = Mapping(p, s, w) /\ plan.table = s
      /\ plan.conflict = ImportPlan(s, w)
  BY DEF Plan, PlanOfImport, ImportForms
<1>2. PICK v : v = PlanRequest(plan, w)
  OBVIOUS
<1>3. v = ImportRequest(plan, [w EXCEPT !.form = plan.form])
  BY <1>1, <1>2 DEF PlanRequest, ImportForms
<1>4. /\ v.form = w.form /\ v.map = Overrides(plan) /\ v.conflict = plan.conflict.conflict
      /\ v.transaction = plan.conflict.transaction
      /\ v.identity = plan.conflict.identity /\ v.resume = plan.conflict.resumed
      /\ v.confirmed = (plan.conflict.conflict = "replace")
      /\ v.filters = w.filters
  BY <1>1, <1>3, ImportRequestFields
<1>5. /\ v.conflict = IF w.resume THEN "skip" ELSE w.conflict
      /\ v.transaction = w.transaction /\ v.resume = w.resume
      /\ v.identity = (w.identity /\ ~w.resume)
      /\ plan.conflict.resumed = w.resume
  BY <1>1, <1>4 DEF ImportPlan
<1>6. w.identity \in BOOLEAN /\ w.resume \in BOOLEAN
  BY DEF IsRequest
<1>7. DOMAIN v.map = DOMAIN p /\ \A c \in DOMAIN p : Target(v, c) = Target(w, c)
  BY <1>1, <1>4, SameTargets
<1>8. Kept(p, v) = Kept(p, w) /\ Left(p, s, v) = Left(p, s, w) /\ Kept(p, w) \subseteq DOMAIN p
  <2>1. Kept(p, v) = Kept(p, w) /\ Kept(p, w) \subseteq DOMAIN p
    BY <1>7 DEF Kept
  <2>2. {Target(v, c) : c \in Kept(p, v)} = {Target(w, c) : c \in Kept(p, w)}
    BY <1>7, <2>1
  <2> QED BY <2>1, <2>2 DEF Left
<1>9. Mapping(p, s, v) = Mapping(p, s, w)
  <2>1. {<<c, Target(v, c), p[c]>> : c \in Kept(p, v)} = {<<c, Target(w, c), p[c]>> : c \in Kept(p, w)}
    BY <1>7, <1>8
  <2> QED BY <1>8, <2>1 DEF Mapping
<1>10. ImportPlan(s, v) = ImportPlan(s, w)
  BY <1>5, <1>6 DEF ImportPlan
<1>11. Plan(p, s, v) = plan
  BY <1>1, <1>4, <1>9, <1>10 DEF Plan, PlanOfImport, ImportForms
<1>12. MappingFits(p, s, w) /\ ImportFits(s, w) /\ TableFits(s, w) /\ ExactFits(s)
  BY DEF Acceptable, Tabular, ImportForms
<1>13. MappingFits(p, s, v)
  <2>1. ASSUME NEW c \in Kept(p, v)
        PROVE  /\ Target(v, c) \in Columns(s) /\ s.columns[Target(v, c)].type = p[c]
               /\ \A d \in Kept(p, v) \ {c} : Target(v, d) # Target(v, c)
    BY <1>7, <1>8, <1>12 DEF MappingFits
  <2>2. ASSUME NEW c \in Kept(p, v), s.columns[Target(v, c)].generated
        PROVE  v.identity
    <3>1. s.columns[Target(w, c)].generated /\ w.identity
      BY <1>7, <1>8, <1>12, <2>2 DEF MappingFits
    <3>2. PICK m \in plan.mapping.mapped : m[2] = Target(w, c)
      <4>1. PICK m : m = <<c, Target(w, c), p[c]>>
        OBVIOUS
      <4>2. m[2] = Target(w, c) /\ m \in plan.mapping.mapped
        BY <1>1, <1>8, <4>1 DEF Mapping
      <4> QED BY <4>2
    <3>3. ~w.resume
      BY <1>1, <1>5, <3>1, <3>2 DEF Unrepeatable
    <3> QED BY <1>5, <3>1, <3>3
  <2>3. \A t \in Left(p, s, v) : s.columns[t].default \/ s.columns[t].nullable
    BY <1>8, <1>12 DEF MappingFits
  <2> QED BY <1>7, <2>1, <2>2, <2>3 DEF MappingFits
<1>14. ImportFits(s, v)
  BY <1>4, <1>5, <1>6, <1>12 DEF ImportFits
<1>15. Acceptable(p, s, v)
  BY <1>4, <1>12, <1>13, <1>14 DEF Acceptable, TableFits, ExactFits, Tabular, ImportForms
<1> QED BY <1>2, <1>11, <1>15

\* Nothing but a resumed import with generated keys refuses to be built again.
LEMMA SamePreview ==
  ASSUME NEW p, NEW s, NEW w, IsRequest(w), Acceptable(p, s, w),
         NEW plan, plan = Plan(p, s, w), ~Unrepeatable(plan)
  PROVE  /\ Acceptable(p, s, PlanRequest(plan, w))
         /\ Plan(p, s, PlanRequest(plan, w)) = plan
  BY SameImport, SameRequest

-----------------------------------------------------------------------------
(* What a fingerprint fixes *)

\* The form of the request a plan is built again from.
LEMMA RequestForm ==
  ASSUME NEW p, NEW s, NEW w, IsRequest(w)
  PROVE  PlanRequest(Plan(p, s, w), w).form = w.form
<1>1. CASE w.form \in ImportForms
  <2>1. PICK plan : plan = Plan(p, s, w)
    OBVIOUS
  <2>2. plan.form = w.form
    BY <2>1, PlanForm
  <2> QED BY <1>1, <2>1, <2>2, ImportRequestFields DEF PlanRequest, ImportForms
<1>2. CASE w.form \notin ImportForms
  BY <1>2, SameRequest
<1> QED BY <1>1, <1>2

\* Two plans of one form with the same fingerprint are the same, if the options that the
\* fingerprint of an exact export does not cover agree.
LEMMA EqualPrints ==
  ASSUME NEW p, NEW s, NEW t, NEW v, NEW w, w.form = v.form,
         v.form \in ImportForms \cup {"friendly-csv", "exact-csv", "json-export", "sql-dump", "sql-restore"},
         v.form = "json-export" => v.raw = w.raw /\ v.confirmed = w.confirmed,
         NEW plan, plan = Plan(p, s, v), NEW other, other = Plan(p, t, w),
         Fingerprint(p, s, plan) = Fingerprint(p, t, other)
  PROVE  plan = other
<1>1. plan.form = v.form /\ other.form = v.form
  BY PlanForm
<1>2. CASE v.form \in ImportForms
  <2>1. ImportPrint(p, other) = ImportPrint(p, plan)
    BY <1>1, <1>2 DEF Fingerprint, ImportForms
  <2>2. /\ other.mapping = plan.mapping /\ other.conflict = plan.conflict
        /\ other.source = plan.source /\ other.table = plan.table
    BY <2>1 DEF ImportPrint, SchemaHash
  <2> QED BY <1>1, <1>2, <2>2 DEF Plan, PlanOfImport, ImportForms
<1>3. CASE v.form = "friendly-csv"
  <2>1. FriendlyPrint(other) = FriendlyPrint(plan)
    BY <1>1, <1>3 DEF Fingerprint, ImportForms
  <2>2. /\ other.table = plan.table /\ other.filters = plan.filters
        /\ other.raw = plan.raw /\ other.confirmed = plan.confirmed
    BY <2>1 DEF FriendlyPrint
  <2> QED BY <1>1, <1>3, <2>2 DEF Plan, TablePlan, ImportForms
<1>4. CASE v.form = "json-export"
  <2>1. JsonPrint(other) = JsonPrint(plan)
    BY <1>1, <1>4 DEF Fingerprint, ImportForms
  <2>2. other.table = plan.table /\ other.filters = plan.filters
    BY <2>1 DEF JsonPrint
  <2> QED BY <1>1, <1>4, <2>2 DEF Plan, TablePlan, ImportForms
<1>5. CASE v.form = "exact-csv"
  BY <1>1, <1>5 DEF Fingerprint, ImportForms, ExactCsvPrint
<1>6. CASE v.form = "sql-dump"
  <2>1. DumpPrint(t, other) = DumpPrint(s, plan)
    BY <1>1, <1>6 DEF Fingerprint, ImportForms
  <2>2. other.scope = plan.scope
    BY <2>1 DEF DumpPrint
  <2> QED BY <1>1, <1>6, <2>2 DEF Plan, DumpPlan, ImportForms
<1>7. CASE v.form = "sql-restore"
  <2>1. RestorePrint(p, t, other) = RestorePrint(p, s, plan)
    BY <1>1, <1>7 DEF Fingerprint, ImportForms
  <2>2. /\ other.mode = plan.mode /\ other.confirmed = plan.confirmed
        /\ (t # NoTable) = (s # NoTable)
    BY <2>1 DEF RestorePrint
  <2> QED BY <1>1, <1>7, <2>2 DEF Plan, RestorePlan, ImportForms
<1> QED BY <1>2, <1>3, <1>4, <1>5, <1>6, <1>7

\* A plan that is built again with the same fingerprint is the plan it was.
LEMMA SamePrint ==
  ASSUME NEW p, NEW s, NEW t, NEW w, IsRequest(w),
         NEW plan, plan = Plan(p, s, w), NEW again, again = Plan(p, t, PlanRequest(plan, w)),
         Fingerprint(p, t, again) = Fingerprint(p, s, plan)
  PROVE  again = plan
<1>1. PICK v : v = PlanRequest(plan, w) /\ v.form = w.form
  BY RequestForm
<1>2. w.form = "json-export" => v = w
  BY <1>1, SameRequest DEF ImportForms
<1>3. w.form \in ImportForms \cup {"friendly-csv", "exact-csv", "json-export", "sql-dump", "sql-restore"}
  BY DEF IsRequest, ImportForms
<1> QED BY <1>1, <1>2, <1>3, EqualPrints

\* The fingerprint of a CSV export tells which of the two it is.
LEMMA CsvPrint ==
  ASSUME NEW p, NEW s, NEW t, NEW plan, NEW other,
         {plan.form, other.form} \subseteq {"friendly-csv", "exact-csv"},
         Fingerprint(p, s, plan) = Fingerprint(p, t, other)
  PROVE  plan.form = other.form
<1>1. \A x, y : FriendlyPrint(x) # ExactCsvPrint(y)
  <2> SUFFICES ASSUME NEW x, NEW y, FriendlyPrint(x) = ExactCsvPrint(y)
               PROVE  FALSE
    OBVIOUS
  <2>1. "whole" \in DOMAIN ExactCsvPrint(y) /\ "whole" \notin DOMAIN FriendlyPrint(x)
    BY DEF ExactCsvPrint, FriendlyPrint
  <2> QED BY <2>1
<1> QED BY <1>1 DEF Fingerprint, ImportForms

\* What the previews of one job can ask for is told apart by its fingerprint.
LEMMA PrintFixesPlan ==
  ASSUME NEW kind \in Transfers, NEW v \in kind.wants, NEW w \in kind.wants,
         NEW p, NEW s, NEW t, NEW plan, plan = Plan(p, s, v), NEW other, other = Plan(p, t, w),
         Fingerprint(p, s, plan) = Fingerprint(p, t, other)
  PROVE  plan = other
<1>1. IsRequest(v) /\ IsRequest(w)
  BY PreviewsAssumption
<1>2. plan.form = v.form /\ other.form = w.form
  BY PlanForm
<1>3. v.form = w.form
  <2>1. CASE \A x \in kind.wants : x.form \in {"friendly-csv", "exact-csv"}
    <3>1. {plan.form, other.form} \subseteq {"friendly-csv", "exact-csv"}
      BY <1>2, <2>1
    <3> QED BY <1>2, <3>1, CsvPrint
  <2>2. CASE \A x, y \in kind.wants : x.form = y.form
    BY <2>2
  <2> QED BY <2>1, <2>2, PreviewsAssumption
<1>4. v.form = "json-export" => v.raw = w.raw /\ v.confirmed = w.confirmed
  BY <1>1, <1>3 DEF IsRequest
<1>5. v.form \in ImportForms \cup {"friendly-csv", "exact-csv", "json-export", "sql-dump", "sql-restore"}
  BY <1>1 DEF IsRequest, ImportForms
<1> QED BY <1>3, <1>4, <1>5, EqualPrints

-----------------------------------------------------------------------------
(* The inductive invariant *)

WorldTyped ==
  /\ transfer \in Transfers /\ table \in transfer.schemas
  /\ job \in [status : {"queued", "previewed", "running", "succeeded", "failed", "cancelled"},
              requested : BOOLEAN]
  /\ allowed \in BOOLEAN /\ rewritten \in BOOLEAN /\ now \in 0..MaxTime /\ edits \in 0..MaxShifts

\* A plan was built for the table that was seen and an acceptable request, and its
\* fingerprint is its own.
Built(x, print) ==
  /\ x.saw \in transfer.schemas /\ x.wants \in transfer.wants
  /\ Acceptable(transfer.package, x.saw, x.wants)
  /\ x.plan = Plan(transfer.package, x.saw, x.wants)
  /\ print = Fingerprint(transfer.package, x.saw, x.plan)

AskFields == {"at", "wants", "plan", "saw", "token"}
AskSound(c) ==
  /\ ask[c].at \in {"idle", "asked", "inspected", "saved", "answered", "refused"}
  /\ ask[c].at = "asked" => ask[c].wants \in transfer.wants
  /\ ask[c].at \in {"inspected", "saved", "answered"} =>
       /\ ask[c] = [f \in AskFields |-> ask[c][f]]
       /\ Built(ask[c], ask[c].token.print)
AsksSound == ask = [c \in Previewers |-> ask[c]] /\ \A c \in Previewers : AskSound(c)

RowSound ==
  row # NoPlan => Built(row, row.print) /\ row.expires \in Lifetime..now + Lifetime

\* No preview is answered before the job is previewed.
OrderSound == \A c \in Previewers : ask[c].at = "answered" => job.status # "queued"

\* The row has the confirmed plan, unless a preview has written it since.
ConfirmSound ==
  /\ confirm # NoPlan => \E c \in Previewers : ask[c].at = "answered"
  /\ confirm # NoPlan /\ ~rewritten /\ row # NoPlan => row.plan = confirm
  /\ job.requested => confirm # NoPlan

AttemptFields == {"at", "why", "token", "form", "issued", "read", "saw"}
IssueSound ==
  /\ Built(attempt.issued, attempt.issued.print)
  /\ attempt.token.print = attempt.issued.print
  /\ attempt.token.expires \in Nat /\ attempt.issued.expires \in Nat
  /\ attempt.issued.expires <= attempt.token.expires
ReadSound ==
  /\ Built(attempt.read, attempt.token.print)
  /\ ~rewritten => attempt.read.plan = confirm
CurrentPlan ==
  Plan(transfer.package, attempt.saw, PlanRequest(attempt.read.plan, attempt.read.wants))
    = attempt.read.plan
AttemptSound ==
  /\ attempt.at \in {"idle", "claimed", "issued", "dispatched", "read", "valid", "running", "refused"}
  /\ attempt.at # "idle" => job.requested /\ attempt = [f \in AttemptFields |-> attempt[f]]
  /\ attempt.at \in {"issued", "dispatched", "read", "valid", "running"} => IssueSound
  /\ attempt.at \in {"dispatched", "read", "valid", "running"} =>
       attempt.form = attempt.issued.plan.form
  /\ attempt.at \in {"read", "valid", "running"} => ReadSound
  /\ attempt.at \in {"valid", "running"} => CurrentPlan
  /\ RefusedOnlyIfChanged

PreviewsInv ==
  WorldTyped /\ AsksSound /\ RowSound /\ OrderSound /\ ConfirmSound /\ AttemptSound

LEMMA PreviewConstants == Lifetime \in Nat \ {0} /\ MaxTime \in Nat /\ MaxShifts \in Nat
  BY PreviewsAssumption

LEMMA PreviewRequests ==
  ASSUME WorldTyped
  PROVE  \A w \in transfer.wants : IsRequest(w)
  BY PreviewsAssumption DEF WorldTyped

-----------------------------------------------------------------------------
(* Steps outside the attempt *)

\* An attempt does not notice them.
LEMMA AttemptStands ==
  ASSUME PreviewsInv, UNCHANGED <<attempt, transfer>>,
         job.requested => job'.requested,
         rewritten => rewritten', job.requested => UNCHANGED confirm
  PROVE  AttemptSound'
<1>1. CASE attempt.at = "idle"
  BY <1>1 DEF PreviewsInv, AttemptSound, RefusedOnlyIfChanged
<1>2. CASE attempt.at # "idle"
  BY <1>2 DEF PreviewsInv, AttemptSound, RefusedOnlyIfChanged, IssueSound, ReadSound,
              CurrentPlan, Built
<1> QED BY <1>1, <1>2

LEMMA BeginPreviewStep ==
  ASSUME PreviewsInv, NEW c \in Previewers, BeginPreview(c)
  PROVE  PreviewsInv'
<1>1. PICK w \in transfer.wants : ask' = [ask EXCEPT ![c] = [at |-> "asked", wants |-> w]]
  BY DEF BeginPreview
<1>2. UNCHANGED <<transfer, job, table, allowed, now, edits, row, confirm, rewritten, attempt>>
  BY DEF BeginPreview
<1>3. job.status = "queued" /\ ask[c].at = "idle"
  BY DEF BeginPreview
<1>4. ask'[c].at = "asked" /\ ask'[c].wants = w /\ \A d \in Previewers \ {c} : ask'[d] = ask[d]
  BY <1>1 DEF PreviewsInv, AsksSound
<1>5. AsksSound'
  BY <1>1, <1>2, <1>4 DEF PreviewsInv, AsksSound, AskSound, Built
<1>6. WorldTyped' /\ RowSound' /\ AttemptSound'
  BY <1>2, AttemptStands DEF PreviewsInv, WorldTyped, RowSound, Built
<1>7. OrderSound'
  BY <1>2, <1>3, <1>4 DEF PreviewsInv, OrderSound
<1>8. ConfirmSound'
  BY <1>2, <1>3, <1>4 DEF PreviewsInv, ConfirmSound
<1> QED BY <1>5, <1>6, <1>7, <1>8 DEF PreviewsInv

LEMMA InspectStep ==
  ASSUME PreviewsInv, NEW c \in Previewers, Inspect(c)
  PROVE  PreviewsInv'
<1>1. UNCHANGED <<transfer, job, table, allowed, now, edits, row, confirm, rewritten, attempt>>
  BY DEF Inspect
<1>2. /\ ask[c].at = "asked" /\ ask[c].wants \in transfer.wants
      /\ \A d \in Previewers \ {c} : ask'[d] = ask[d]
      /\ ask' = [d \in Previewers |-> ask'[d]]
  BY DEF PreviewsInv, AsksSound, AskSound, Inspect
<1>3. PICK w \in transfer.wants : w = ask[c].wants
  BY <1>2
<1>4. PICK plan : plan = Plan(transfer.package, table, w)
  OBVIOUS
<1>5. PICK token : token = Token(Fingerprint(transfer.package, table, plan))
  OBVIOUS
<1>6. \/ ask'[c] = [at |-> "refused"]
      \/ /\ ask'[c] = [at |-> "inspected", wants |-> w, plan |-> plan, saw |-> table,
                       token |-> token]
         /\ Acceptable(transfer.package, table, w)
  BY <1>3, <1>4, <1>5 DEF PreviewsInv, AsksSound, Inspect
<1>7. ask'[c].at \in {"refused", "inspected"}
  BY <1>6
<1>8. AskSound(c)'
  <2>1. CASE ask'[c] = [at |-> "refused"]
    BY <2>1 DEF AskSound
  <2>2. CASE /\ ask'[c] = [at |-> "inspected", wants |-> w, plan |-> plan, saw |-> table,
                           token |-> token]
             /\ Acceptable(transfer.package, table, w)
    <3>1. ask'[c] = [f \in AskFields |-> ask'[c][f]]
      BY <2>2 DEF AskFields
    <3>2. Built(ask'[c], ask'[c].token.print)
      BY <1>4, <1>5, <2>2 DEF Built, Token, PreviewsInv, WorldTyped
    <3> QED BY <1>1, <2>2, <3>1, <3>2 DEF AskSound, Built
  <2> QED BY <1>6, <2>1, <2>2
<1>9. AsksSound'
  BY <1>1, <1>2, <1>8 DEF PreviewsInv, AsksSound, AskSound, Built
<1>10. WorldTyped' /\ RowSound' /\ AttemptSound'
  BY <1>1, AttemptStands DEF PreviewsInv, WorldTyped, RowSound, Built
<1>11. OrderSound'
  BY <1>1, <1>2, <1>7 DEF PreviewsInv, OrderSound
<1>12. ConfirmSound'
  BY <1>1, <1>2, <1>7 DEF PreviewsInv, ConfirmSound
<1> QED BY <1>9, <1>10, <1>11, <1>12 DEF PreviewsInv

LEMMA SavePlanStep ==
  ASSUME PreviewsInv, NEW c \in Previewers, SavePlan(c)
  PROVE  PreviewsInv'
<1>1. UNCHANGED <<transfer, job, table, allowed, now, edits, confirm, attempt>>
      /\ rewritten' = (rewritten \/ confirm # NoPlan)
  BY DEF SavePlan
<1>2. /\ ask[c].at = "inspected" /\ ask[c] = [f \in AskFields |-> ask[c][f]]
      /\ Built(ask[c], ask[c].token.print)
  BY DEF PreviewsInv, AsksSound, AskSound, SavePlan
<1>3. /\ ask'[c] = [ask[c] EXCEPT !.at = "saved"]
      /\ \A d \in Previewers \ {c} : ask'[d] = ask[d]
      /\ ask' = [d \in Previewers |-> ask'[d]]
  BY DEF PreviewsInv, AsksSound, SavePlan
<1>4. /\ ask'[c].at = "saved" /\ ask'[c].plan = ask[c].plan /\ ask'[c].saw = ask[c].saw
      /\ ask'[c].wants = ask[c].wants /\ ask'[c].token = ask[c].token
      /\ ask'[c] = [f \in AskFields |-> ask'[c][f]]
  BY <1>2, <1>3 DEF AskFields
<1>5. AsksSound'
  <2>1. AskSound(c)'
    <3>1. Built(ask[c], ask[c].token.print)'
      BY <1>1, <1>2, <1>4 DEF Built
    <3> QED BY <1>4, <3>1 DEF AskSound
  <2>2. ASSUME NEW d \in Previewers \ {c}
        PROVE  AskSound(d)'
    BY <1>1, <1>3 DEF PreviewsInv, AsksSound, AskSound, Built
  <2> QED BY <1>3, <2>1, <2>2 DEF AsksSound
<1>6. /\ row'.plan = ask[c].plan /\ row'.print = ask[c].token.print /\ row'.saw = ask[c].saw
      /\ row'.wants = ask[c].wants /\ row'.expires = now + Lifetime
  BY DEF SavePlan
<1>7. RowSound'
  <2>1. now + Lifetime \in Lifetime..now + Lifetime
    BY PreviewConstants DEF PreviewsInv, WorldTyped
  <2> QED BY <1>1, <1>2, <1>6, <2>1 DEF RowSound, Built
<1>8. WorldTyped' /\ AttemptSound'
  BY <1>1, AttemptStands DEF PreviewsInv, WorldTyped
<1>9. OrderSound'
  BY <1>1, <1>3, <1>4 DEF PreviewsInv, OrderSound
<1>10. ConfirmSound'
  BY <1>1, <1>2, <1>3, <1>4 DEF PreviewsInv, ConfirmSound
<1> QED BY <1>5, <1>7, <1>8, <1>9, <1>10 DEF PreviewsInv

\* Nothing is requested of a job that is not previewed.
LEMMA QueuedQuiet ==
  ASSUME PreviewsInv, job.status = "queued"
  PROVE  ~job.requested /\ \A c \in Previewers : ask[c].at # "answered"
  BY DEF PreviewsInv, OrderSound, ConfirmSound

LEMMA MarkPreviewedStep ==
  ASSUME PreviewsInv, NEW c \in Previewers, MarkPreviewed(c)
  PROVE  PreviewsInv'
<1>1. UNCHANGED <<transfer, table, allowed, now, edits, row, confirm, rewritten, attempt>>
  BY DEF MarkPreviewed
<1>2. /\ ask[c].at = "saved" /\ ask[c] = [f \in AskFields |-> ask[c][f]]
      /\ Built(ask[c], ask[c].token.print)
  BY DEF PreviewsInv, AsksSound, AskSound, MarkPreviewed
<1>3. /\ \A d \in Previewers \ {c} : ask'[d] = ask[d]
      /\ ask' = [d \in Previewers |-> ask'[d]]
  BY DEF PreviewsInv, AsksSound, MarkPreviewed
<1>4. RowSound'
  BY <1>1 DEF PreviewsInv, RowSound, Built
<1>5. CASE job.status = "queued"
  <2>1. /\ job' = [job EXCEPT !.status = "previewed"]
        /\ ask'[c] = [ask[c] EXCEPT !.at = "answered"]
    BY <1>5 DEF PreviewsInv, AsksSound, MarkPreviewed
  <2>2. /\ ask'[c].at = "answered" /\ ask'[c].plan = ask[c].plan /\ ask'[c].saw = ask[c].saw
        /\ ask'[c].wants = ask[c].wants /\ ask'[c].token = ask[c].token
        /\ ask'[c] = [f \in AskFields |-> ask'[c][f]]
    BY <1>2, <2>1 DEF AskFields
  <2>3. AsksSound'
    BY <1>1, <1>2, <1>3, <2>2 DEF PreviewsInv, AsksSound, AskSound, Built
  <2>4. job'.status = "previewed" /\ job'.requested = job.requested
    BY <2>1 DEF PreviewsInv, WorldTyped
  <2>5. WorldTyped'
    BY <1>1, <2>1 DEF PreviewsInv, WorldTyped
  <2>6. AttemptSound'
    BY <1>1, <1>5, QueuedQuiet, AttemptStands
  <2>7. OrderSound'
    BY <1>3, <2>4 DEF PreviewsInv, OrderSound
  <2>8. ConfirmSound'
    BY <1>1, <1>5, <2>4, QueuedQuiet DEF PreviewsInv, ConfirmSound
  <2> QED BY <1>4, <2>3, <2>5, <2>6, <2>7, <2>8 DEF PreviewsInv
<1>6. CASE job.status # "queued"
  <2>1. ask'[c] = [at |-> "refused"] /\ UNCHANGED job
    BY <1>6 DEF PreviewsInv, AsksSound, MarkPreviewed
  <2>2. AsksSound'
    BY <1>1, <1>3, <2>1 DEF PreviewsInv, AsksSound, AskSound, Built
  <2>3. WorldTyped' /\ AttemptSound'
    BY <1>1, <2>1, AttemptStands DEF PreviewsInv, WorldTyped
  <2>4. OrderSound'
    BY <1>1, <1>2, <1>3, <1>6, <2>1 DEF PreviewsInv, OrderSound
  <2>5. ConfirmSound'
    BY <1>1, <1>2, <1>3, <2>1 DEF PreviewsInv, ConfirmSound
  <2> QED BY <1>4, <2>2, <2>3, <2>4, <2>5 DEF PreviewsInv
<1> QED BY <1>5, <1>6

LEMMA ConfirmPlanStep ==
  ASSUME PreviewsInv, NEW c \in Previewers, ConfirmPlan(c)
  PROVE  PreviewsInv'
<1>1. UNCHANGED <<transfer, job, table, allowed, now, edits, row, ask, rewritten, attempt>>
  BY DEF ConfirmPlan
<1>2. /\ ask[c].at = "answered" /\ ~job.requested /\ confirm' = ask[c].plan
      /\ row # NoPlan /\ row.print = ask[c].token.print
  BY DEF ConfirmPlan, Opens, RowStands, Verified
<1>3. WorldTyped' /\ AsksSound' /\ RowSound' /\ OrderSound'
  BY <1>1 DEF PreviewsInv, WorldTyped, AsksSound, AskSound, RowSound, OrderSound, Built
<1>4. ConfirmSound'
  <2>1. Built(row, row.print) /\ Built(ask[c], ask[c].token.print) /\ transfer \in Transfers
    BY <1>2 DEF PreviewsInv, RowSound, AsksSound, AskSound, WorldTyped
  <2>2. PICK v \in transfer.wants, w \in transfer.wants : v = row.wants /\ w = ask[c].wants
    BY <2>1 DEF Built
  <2>3. PICK plan, other : plan = row.plan /\ other = ask[c].plan
    OBVIOUS
  <2>4. PICK s, t : /\ plan = Plan(transfer.package, s, v)
                    /\ other = Plan(transfer.package, t, w)
                    /\ Fingerprint(transfer.package, s, plan) = Fingerprint(transfer.package, t, other)
    <3>1. PICK s, t : s = row.saw /\ t = ask[c].saw
      OBVIOUS
    <3> QED BY <1>2, <2>1, <2>2, <2>3, <3>1 DEF Built
  <2>5. plan = other
    BY <2>1, <2>4, PrintFixesPlan
  <2> QED BY <1>1, <1>2, <2>3, <2>5 DEF ConfirmSound
<1>5. AttemptSound'
  BY <1>1, <1>2, AttemptStands
<1> QED BY <1>3, <1>4, <1>5 DEF PreviewsInv

LEMMA LaterBound ==
  ASSUME NEW l \in Nat, NEW m \in Nat, NEW n \in Nat, m <= n
  PROVE  l..m + l \subseteq l..n + l
<1>1. m + l <= n + l
  OBVIOUS
<1> QED BY <1>1

\* The job moves on, or the world around it.
LEMMA WorldStep ==
  ASSUME PreviewsInv, WorldTyped',
         UNCHANGED <<transfer, ask, confirm, rewritten, attempt>>,
         row' \in {row, NoPlan}, now <= now',
         job.requested => job'.requested, job'.requested => confirm # NoPlan,
         job'.status = "queued" => job.status = "queued"
  PROVE  PreviewsInv'
<1>1. AttemptSound'
  BY AttemptStands
<1>2. AsksSound'
  BY DEF PreviewsInv, AsksSound, AskSound, Built
<1>3. RowSound'
  <2>1. now \in Nat /\ now' \in Nat /\ Lifetime \in Nat /\ now <= now'
    BY PreviewConstants DEF PreviewsInv, WorldTyped
  <2>2. Lifetime..now + Lifetime \subseteq Lifetime..now' + Lifetime
    BY <2>1, LaterBound
  <2> QED BY <2>2 DEF PreviewsInv, RowSound, Built
<1>4. OrderSound'
  BY DEF PreviewsInv, OrderSound
<1>5. ConfirmSound'
  BY DEF PreviewsInv, ConfirmSound
<1> QED BY <1>1, <1>2, <1>3, <1>4, <1>5 DEF PreviewsInv

LEMMA OutsideStep ==
  ASSUME PreviewsInv,
         RequestExecution \/ CancelJob \/ SweepPlans \/ AlterTable \/ ChangeRights \/ PassTime
  PROVE  PreviewsInv'
<1> USE PreviewConstants
<1>1. CASE RequestExecution
  <2>1. WorldTyped'
    BY <1>1 DEF RequestExecution, PreviewsInv, WorldTyped
  <2>2. job'.requested /\ job'.status = job.status
    BY <1>1 DEF RequestExecution, PreviewsInv, WorldTyped
  <2> QED BY <1>1, <2>1, <2>2, WorldStep DEF RequestExecution, PreviewsInv, WorldTyped
<1>2. CASE CancelJob
  <2>1. WorldTyped'
    BY <1>2 DEF CancelJob, PreviewsInv, WorldTyped
  <2>2. job'.requested = job.requested /\ job'.status = "cancelled"
    BY <1>2 DEF CancelJob, PreviewsInv, WorldTyped
  <2> QED BY <1>2, <2>1, <2>2, WorldStep DEF CancelJob, PreviewsInv, WorldTyped, ConfirmSound
<1>3. CASE SweepPlans
  BY <1>3, WorldStep DEF SweepPlans, PreviewsInv, WorldTyped, ConfirmSound
<1>4. CASE AlterTable
  BY <1>4, WorldStep DEF AlterTable, PreviewsInv, WorldTyped, ConfirmSound
<1>5. CASE ChangeRights
  BY <1>5, WorldStep DEF ChangeRights, PreviewsInv, WorldTyped, ConfirmSound
<1>6. CASE PassTime
  BY <1>6, WorldStep DEF PassTime, PreviewsInv, WorldTyped, ConfirmSound
<1> QED BY <1>1, <1>2, <1>3, <1>4, <1>5, <1>6

-----------------------------------------------------------------------------
(* Steps of the attempt *)

LEMMA OnlyAttempt ==
  ASSUME PreviewsInv, AttemptSound',
         UNCHANGED <<transfer, job, table, allowed, now, edits, row, ask, confirm, rewritten>>
  PROVE  PreviewsInv'
  BY DEF PreviewsInv, WorldTyped, AsksSound, AskSound, RowSound, OrderSound, ConfirmSound, Built

\* An attempt with another value in one field.
LEMMA AttemptWith ==
  ASSUME NEW a, a = [f \in AttemptFields |-> a[f]], NEW g \in AttemptFields, NEW x
  PROVE  LET b == [a EXCEPT ![g] = x]
         IN /\ b = [f \in AttemptFields |-> b[f]]
            /\ b[g] = x /\ \A f \in AttemptFields \ {g} : b[f] = a[f]
  OBVIOUS

\* An attempt that is refused for another reason than a change.
LEMMA RefusedElse ==
  ASSUME PreviewsInv, attempt.at # "idle", NEW why, why \notin {"changed", "invalid"},
         attempt' = Refused(why), UNCHANGED <<transfer, job>>
  PROVE  AttemptSound'
<1>1. attempt = [f \in AttemptFields |-> attempt[f]] /\ job.requested
  BY DEF PreviewsInv, AttemptSound
<1>2. /\ attempt'.at = "refused" /\ attempt'.why = why
      /\ attempt' = [f \in AttemptFields |-> attempt'[f]]
  BY <1>1 DEF Refused, AttemptFields
<1> QED BY <1>1, <1>2 DEF AttemptSound, RefusedOnlyIfChanged

\* A row that does not open with the token of the attempt is not the one it was issued for,
\* unless its time has run out.
LEMMA MisreadSound ==
  ASSUME PreviewsInv, attempt.at \in {"issued", "dispatched"}, ~Opens(attempt.token),
         attempt' = [Refused(Misread) EXCEPT !.read = row],
         UNCHANGED <<transfer, job>>
  PROVE  AttemptSound'
<1>1. attempt = [f \in AttemptFields |-> attempt[f]] /\ job.requested /\ IssueSound
  BY DEF PreviewsInv, AttemptSound
<1>2. /\ attempt'.at = "refused" /\ attempt'.why = Misread /\ attempt'.read = row
      /\ attempt'.issued = attempt.issued
      /\ attempt' = [f \in AttemptFields |-> attempt'[f]]
  BY <1>1 DEF Refused, AttemptFields
<1>3. ASSUME Misread \in {"changed", "invalid"}
      PROVE  row # attempt.issued
  <2>1. row # NoPlan /\ now <= row.expires /\ ~Verified(attempt.token, row.print)
    BY <1>3 DEF Misread, RowStands, Opens
  <2>2. now \in Nat /\ row.expires \in Nat
    BY <2>1, PreviewConstants DEF PreviewsInv, WorldTyped, RowSound
  <2>3. row = attempt.issued => now <= attempt.token.expires
    BY <1>1, <2>1, <2>2 DEF IssueSound
  <2> QED BY <1>1, <2>1, <2>3 DEF Verified, IssueSound
<1> QED BY <1>1, <1>2, <1>3 DEF AttemptSound, RefusedOnlyIfChanged

LEMMA TakeUpStep ==
  ASSUME PreviewsInv, TakeUp
  PROVE  PreviewsInv'
<1>1. /\ attempt' = [at |-> "claimed", why |-> "none", token |-> "none", form |-> "none",
                     issued |-> NoPlan, read |-> NoPlan, saw |-> NoTable]
      /\ job.requested
      /\ UNCHANGED <<transfer, job, table, allowed, now, edits, row, ask, confirm, rewritten>>
  BY DEF TakeUp
<1>2. attempt'.at = "claimed" /\ attempt' = [f \in AttemptFields |-> attempt'[f]]
  BY <1>1 DEF AttemptFields
<1>3. AttemptSound'
  BY <1>1, <1>2 DEF AttemptSound, RefusedOnlyIfChanged
<1> QED BY <1>1, <1>3, OnlyAttempt

LEMMA IssueTokenStep ==
  ASSUME PreviewsInv, IssueToken
  PROVE  PreviewsInv'
<1>1. UNCHANGED <<transfer, job, table, allowed, now, edits, row, ask, confirm, rewritten>>
  BY DEF IssueToken
<1>2. /\ attempt.at = "claimed" /\ attempt = [f \in AttemptFields |-> attempt[f]]
      /\ job.requested
  BY DEF IssueToken, PreviewsInv, AttemptSound
<1>3. CASE attempt' \in {Refused("absent"), Refused("expired")}
  <2>1. AttemptSound'
    BY <1>1, <1>2, <1>3, RefusedElse
  <2> QED BY <1>1, <2>1, OnlyAttempt
<1>4. CASE /\ row # NoPlan
           /\ attempt' = [attempt EXCEPT !.at = "issued", !.issued = row, !.token = Token(row.print)]
  <2>1. /\ attempt'.at = "issued" /\ attempt'.issued = row /\ attempt'.token = Token(row.print)
        /\ attempt' = [f \in AttemptFields |-> attempt'[f]]
    BY <1>2, <1>4 DEF AttemptFields
  <2>2. IssueSound'
    <3>1. Built(row, row.print) /\ row.expires \in Lifetime..now + Lifetime /\ now \in Nat
      BY <1>4 DEF PreviewsInv, RowSound, WorldTyped
    <3>2. /\ Token(row.print).print = row.print /\ Token(row.print).expires = now + Lifetime
      BY DEF Token
    <3>3. /\ now + Lifetime \in Nat /\ row.expires \in Nat /\ row.expires <= now + Lifetime
      BY <3>1, PreviewConstants
    <3> QED BY <1>1, <2>1, <3>1, <3>2, <3>3 DEF IssueSound, Built
  <2>3. AttemptSound'
    BY <1>1, <1>2, <2>1, <2>2 DEF AttemptSound, RefusedOnlyIfChanged
  <2> QED BY <1>1, <2>3, OnlyAttempt
<1> QED BY <1>3, <1>4 DEF IssueToken

LEMMA DispatchStep ==
  ASSUME PreviewsInv, Dispatch
  PROVE  PreviewsInv'
<1>1. UNCHANGED <<transfer, job, table, allowed, now, edits, row, ask, confirm, rewritten>>
  BY DEF Dispatch
<1>2. /\ attempt.at = "issued" /\ attempt = [f \in AttemptFields |-> attempt[f]]
      /\ job.requested /\ IssueSound
  BY DEF Dispatch, PreviewsInv, AttemptSound
<1>3. PICK csv \in BOOLEAN : csv <=> attempt.issued.plan.form \in {"friendly-csv", "exact-csv"}
  OBVIOUS
<1>4. CASE csv /\ ~Opens(attempt.token)
  <2>1. attempt' = [Refused(Misread) EXCEPT !.read = row]
    BY <1>3, <1>4 DEF Dispatch
  <2>2. AttemptSound'
    BY <1>1, <1>2, <1>4, <2>1, MisreadSound
  <2> QED BY <1>1, <2>2, OnlyAttempt
<1>5. CASE csv => Opens(attempt.token)
  <2>1. PICK form :
          /\ attempt' = [attempt EXCEPT !.at = "dispatched", !.form = form]
          /\ form = IF csv THEN row.plan.form ELSE attempt.issued.plan.form
    BY <1>3, <1>5 DEF Dispatch
  <2>2. form = attempt.issued.plan.form
    <3>1. CASE ~csv
      BY <2>1, <3>1
    <3>2. CASE csv
      <4>1. /\ row # NoPlan /\ row.print = attempt.issued.print
            /\ Built(row, row.print) /\ Built(attempt.issued, attempt.issued.print)
        BY <1>2, <1>5, <3>2 DEF Opens, RowStands, Verified, IssueSound, PreviewsInv, RowSound
      <4>2. /\ row.plan.form = row.wants.form
            /\ attempt.issued.plan.form = attempt.issued.wants.form
        BY <4>1, PlanForm DEF Built
      <4>3. row.plan.form \in {"friendly-csv", "exact-csv"}
        BY <1>3, <3>2, <4>1, <4>2, PreviewsAssumption DEF Built, PreviewsInv, WorldTyped
      <4>4. Fingerprint(transfer.package, row.saw, row.plan)
              = Fingerprint(transfer.package, attempt.issued.saw, attempt.issued.plan)
        BY <4>1 DEF Built
      <4>5. row.plan.form = attempt.issued.plan.form
        BY <1>3, <3>2, <4>3, <4>4, CsvPrint
      <4> QED BY <2>1, <3>2, <4>5
    <3> QED BY <3>1, <3>2
  <2>3. /\ attempt'.at = "dispatched" /\ attempt'.form = form
        /\ attempt'.issued = attempt.issued /\ attempt'.token = attempt.token
        /\ attempt' = [f \in AttemptFields |-> attempt'[f]]
    BY <1>2, <2>1 DEF AttemptFields
  <2>4. IssueSound'
    BY <1>1, <1>2, <2>3 DEF IssueSound, Built
  <2>5. AttemptSound'
    BY <1>1, <1>2, <2>2, <2>3, <2>4 DEF AttemptSound, RefusedOnlyIfChanged
  <2> QED BY <1>1, <2>5, OnlyAttempt
<1> QED BY <1>4, <1>5

LEMMA ReadPlanStep ==
  ASSUME PreviewsInv, ReadPlan
  PROVE  PreviewsInv'
<1>1. UNCHANGED <<transfer, job, table, allowed, now, edits, row, ask, confirm, rewritten>>
  BY DEF ReadPlan
<1>2. /\ attempt.at = "dispatched" /\ attempt = [f \in AttemptFields |-> attempt[f]]
      /\ job.requested /\ IssueSound /\ attempt.form = attempt.issued.plan.form
  BY DEF ReadPlan, PreviewsInv, AttemptSound
<1>3. CASE attempt' \in {Refused("forbidden"), Refused("stopped")}
  <2>1. AttemptSound'
    BY <1>1, <1>2, <1>3, RefusedElse
  <2> QED BY <1>1, <2>1, OnlyAttempt
<1>4. CASE ~Opens(attempt.token) /\ attempt' = [Refused(Misread) EXCEPT !.read = row]
  <2>1. AttemptSound'
    BY <1>1, <1>2, <1>4, MisreadSound
  <2> QED BY <1>1, <2>1, OnlyAttempt
<1>5. CASE Opens(attempt.token) /\ attempt' = [attempt EXCEPT !.at = "read", !.read = row]
  <2>1. /\ attempt'.at = "read" /\ attempt'.read = row /\ attempt'.form = attempt.form
        /\ attempt'.issued = attempt.issued /\ attempt'.token = attempt.token
        /\ attempt' = [f \in AttemptFields |-> attempt'[f]]
    BY <1>2, <1>5 DEF AttemptFields
  <2>2. IssueSound'
    BY <1>1, <1>2, <2>1 DEF IssueSound, Built
  <2>3. row # NoPlan /\ attempt.token.print = row.print /\ Built(row, row.print)
    BY <1>5 DEF Opens, RowStands, Verified, PreviewsInv, RowSound
  <2>4. ~rewritten => row.plan = confirm
    BY <1>2, <2>3 DEF PreviewsInv, ConfirmSound, OrderSound
  <2>5. ReadSound'
    BY <1>1, <2>1, <2>3, <2>4 DEF ReadSound, Built
  <2>6. AttemptSound'
    BY <1>1, <1>2, <2>1, <2>2, <2>5 DEF AttemptSound, RefusedOnlyIfChanged
  <2> QED BY <1>1, <2>6, OnlyAttempt
<1> QED BY <1>3, <1>4, <1>5 DEF ReadPlan

\* What Revalidate builds: the same plan, if the row is the one that was issued and the table
\* has not changed, but for a resumed import with generated keys.
LEMMA RebuildSame ==
  ASSUME PreviewsInv, attempt.at = "read", attempt.read = attempt.issued,
         table = attempt.read.saw, ~Unrepeatable(attempt.read.plan)
  PROVE  Rebuild.fits /\ Rebuild.print = attempt.token.print
<1> DEFINE p == transfer.package
           plan == attempt.read.plan
           w == PlanRequest(plan, attempt.read.wants)
<1>1. /\ Built(attempt.read, attempt.token.print) /\ attempt.form = attempt.issued.plan.form
  BY DEF PreviewsInv, AttemptSound, ReadSound
<1>2. IsRequest(attempt.read.wants)
  BY <1>1, PreviewRequests DEF Built, PreviewsInv
<1>3. /\ Acceptable(p, table, attempt.read.wants) /\ plan = Plan(p, table, attempt.read.wants)
      /\ attempt.token.print = Fingerprint(p, table, plan)
  BY <1>1 DEF Built
<1>4. Acceptable(p, table, w) /\ Plan(p, table, w) = plan
  BY <1>2, <1>3, SamePreview
<1>5. plan.form = attempt.form
  BY <1>1
<1> HIDE DEF w
<1>6. Rebuild = [fits |-> plan.form = attempt.form /\ Acceptable(p, table, w),
                 print |-> IF plan.form = attempt.form /\ Acceptable(p, table, w)
                           THEN Fingerprint(p, table, Plan(p, table, w)) ELSE "none"]
  BY DEF Rebuild, w
<1> QED BY <1>3, <1>4, <1>5, <1>6

\* What Revalidate lets pass is the plan that the table calls for.
LEMMA RebuildCurrent ==
  ASSUME PreviewsInv, attempt.at = "read", Rebuild.fits,
         Rebuild.print = attempt.token.print
  PROVE  Plan(transfer.package, table, PlanRequest(attempt.read.plan, attempt.read.wants))
           = attempt.read.plan
<1> DEFINE p == transfer.package
           plan == attempt.read.plan
           w == PlanRequest(plan, attempt.read.wants)
<1>1. Built(attempt.read, attempt.token.print)
  BY DEF PreviewsInv, AttemptSound, ReadSound
<1>2. IsRequest(attempt.read.wants)
  BY <1>1, PreviewRequests DEF Built, PreviewsInv
<1>3. PICK again : again = Plan(p, table, w)
  OBVIOUS
<1>4. Fingerprint(p, table, again) = Fingerprint(p, attempt.read.saw, plan)
  BY <1>1, <1>3 DEF Rebuild, Built
<1>5. plan = Plan(p, attempt.read.saw, attempt.read.wants) /\ plan.form = attempt.read.wants.form
  BY <1>1, PlanForm DEF Built
<1>6. again = plan
  BY <1>2, <1>3, <1>4, <1>5, SamePrint
<1> QED BY <1>3, <1>6

LEMMA RevalidateStep ==
  ASSUME PreviewsInv, Revalidate
  PROVE  PreviewsInv'
<1>1. UNCHANGED <<transfer, job, table, allowed, now, edits, row, ask, confirm, rewritten>>
  BY DEF Revalidate
<1>2. /\ attempt.at = "read" /\ attempt = [f \in AttemptFields |-> attempt[f]]
      /\ job.requested /\ IssueSound /\ ReadSound /\ attempt.form = attempt.issued.plan.form
  BY DEF Revalidate, PreviewsInv, AttemptSound
<1>3. PICK seen : seen = [attempt EXCEPT !.saw = table]
  OBVIOUS
<1>4. /\ seen = [f \in AttemptFields |-> seen[f]]
      /\ seen.at = "read" /\ seen.saw = table /\ seen.issued = attempt.issued
      /\ seen.read = attempt.read /\ seen.token = attempt.token /\ seen.form = attempt.form
  BY <1>2, <1>3 DEF AttemptFields
<1>5. CASE /\ attempt' = [seen EXCEPT !.at = "refused", !.why = "expired"]
  <2>1. attempt'.at = "refused" /\ attempt'.why = "expired"
        /\ attempt' = [f \in AttemptFields |-> attempt'[f]]
    BY <1>4, <1>5 DEF AttemptFields
  <2>2. AttemptSound'
    BY <1>1, <1>2, <2>1 DEF AttemptSound, RefusedOnlyIfChanged
  <2> QED BY <1>1, <2>2, OnlyAttempt
<1>6. CASE /\ ~Rebuild.fits \/ Rebuild.print # attempt.token.print
           /\ \E why \in {"changed", "invalid"} :
                attempt' = [seen EXCEPT !.at = "refused", !.why = why]
  <2>1. /\ attempt'.at = "refused" /\ attempt'.saw = table /\ attempt'.issued = attempt.issued
        /\ attempt'.read = attempt.read
        /\ attempt' = [f \in AttemptFields |-> attempt'[f]]
    BY <1>4, <1>6 DEF AttemptFields
  <2>2. \/ attempt.read # attempt.issued \/ table # attempt.read.saw
        \/ Unrepeatable(attempt.read.plan)
    BY <1>2, <1>6, RebuildSame
  <2>3. AttemptSound'
    BY <1>1, <1>2, <2>1, <2>2 DEF AttemptSound, RefusedOnlyIfChanged
  <2> QED BY <1>1, <2>3, OnlyAttempt
<1>7. CASE /\ Rebuild.fits /\ Rebuild.print = attempt.token.print
           /\ attempt' = [seen EXCEPT !.at = "valid"]
  <2>1. /\ attempt'.at = "valid" /\ attempt'.saw = table /\ attempt'.issued = attempt.issued
        /\ attempt'.read = attempt.read /\ attempt'.token = attempt.token
        /\ attempt'.form = attempt.form
        /\ attempt' = [f \in AttemptFields |-> attempt'[f]]
    BY <1>4, <1>7 DEF AttemptFields
  <2>2. IssueSound' /\ ReadSound'
    BY <1>1, <1>2, <2>1 DEF IssueSound, ReadSound, Built
  <2>3. CurrentPlan'
    BY <1>1, <1>2, <1>7, <2>1, RebuildCurrent DEF CurrentPlan
  <2>4. AttemptSound'
    BY <1>1, <1>2, <2>1, <2>2, <2>3 DEF AttemptSound, RefusedOnlyIfChanged
  <2> QED BY <1>1, <2>4, OnlyAttempt
<1>8. PICK current : current = Rebuild
  OBVIOUS
<1>9. \/ ~current.fits /\ attempt' = [seen EXCEPT !.at = "refused", !.why = "invalid"]
      \/ attempt' = [seen EXCEPT !.at = "refused", !.why = "expired"]
      \/ /\ now <= attempt.token.expires /\ ~Verified(attempt.token, current.print)
         /\ attempt' = [seen EXCEPT !.at = "refused", !.why = "changed"]
      \/ /\ current.fits /\ Verified(attempt.token, current.print)
         /\ attempt' = [seen EXCEPT !.at = "valid"]
  <2>1. now \in Nat /\ attempt.token.expires \in Nat
    BY <1>2 DEF IssueSound, PreviewsInv, WorldTyped
  <2> QED BY <1>3, <1>8, <2>1 DEF Revalidate
<1> QED BY <1>5, <1>6, <1>7, <1>8, <1>9 DEF Verified

LEMMA StartTransferStep ==
  ASSUME PreviewsInv, StartTransfer
  PROVE  PreviewsInv'
<1>1. UNCHANGED <<transfer, table, allowed, now, edits, row, ask, confirm, rewritten>>
  BY DEF StartTransfer
<1>2. /\ attempt.at = "valid" /\ attempt = [f \in AttemptFields |-> attempt[f]]
      /\ job.requested /\ IssueSound /\ ReadSound /\ CurrentPlan
      /\ attempt.form = attempt.issued.plan.form
  BY DEF StartTransfer, PreviewsInv, AttemptSound
<1>3. CASE attempt' = Refused("stopped") /\ UNCHANGED job
  <2>1. AttemptSound'
    BY <1>1, <1>2, <1>3, RefusedElse
  <2> QED BY <1>1, <1>3, <2>1, OnlyAttempt
<1>4. CASE /\ job.status = "previewed" /\ job' = [job EXCEPT !.status = "running"]
           /\ attempt' = [attempt EXCEPT !.at = "running"]
  <2>1. job'.requested /\ job'.status = "running"
    BY <1>2, <1>4 DEF PreviewsInv, WorldTyped
  <2>2. WorldTyped'
    BY <1>1, <1>4 DEF PreviewsInv, WorldTyped
  <2>3. /\ attempt'.at = "running" /\ attempt'.saw = attempt.saw
        /\ attempt'.issued = attempt.issued
        /\ attempt'.read = attempt.read /\ attempt'.token = attempt.token
        /\ attempt'.form = attempt.form
        /\ attempt' = [f \in AttemptFields |-> attempt'[f]]
    BY <1>2, <1>4 DEF AttemptFields
  <2>4. IssueSound' /\ ReadSound' /\ CurrentPlan'
    BY <1>1, <1>2, <2>3 DEF IssueSound, ReadSound, CurrentPlan, Built
  <2>5. AttemptSound'
    BY <1>1, <1>2, <2>1, <2>3, <2>4 DEF AttemptSound, RefusedOnlyIfChanged
  <2>6. AsksSound' /\ RowSound'
    BY <1>1 DEF PreviewsInv, AsksSound, AskSound, RowSound, Built
  <2>7. OrderSound' /\ ConfirmSound'
    BY <1>1, <1>2, <1>4, <2>1 DEF PreviewsInv, OrderSound, ConfirmSound
  <2> QED BY <2>2, <2>5, <2>6, <2>7 DEF PreviewsInv
<1> QED BY <1>3, <1>4 DEF StartTransfer

LEMMA EndAttemptStep ==
  ASSUME PreviewsInv, EndAttempt
  PROVE  PreviewsInv'
<1>1. UNCHANGED <<transfer, table, allowed, now, edits, row, ask, confirm, rewritten>>
  BY DEF EndAttempt
<1>2. attempt'.at = "idle"
  BY DEF EndAttempt, NoAttempt
<1>3. WorldTyped' /\ job'.requested = job.requested
      /\ (job'.status = "queued" => job.status = "queued")
  BY <1>1 DEF EndAttempt, PreviewsInv, WorldTyped
<1>4. AttemptSound'
  BY <1>2 DEF AttemptSound, RefusedOnlyIfChanged
<1>5. AsksSound' /\ RowSound'
  BY <1>1 DEF PreviewsInv, AsksSound, AskSound, RowSound, Built
<1>6. OrderSound' /\ ConfirmSound'
  BY <1>1, <1>3 DEF PreviewsInv, OrderSound, ConfirmSound
<1> QED BY <1>3, <1>4, <1>5, <1>6 DEF PreviewsInv

-----------------------------------------------------------------------------
(* The specification *)

LEMMA PreviewsInitially ==
  ASSUME PreviewsInit
  PROVE  PreviewsInv
<1> USE PreviewConstants DEF PreviewsInit
<1>1. WorldTyped
  <2>1. now \in 0..MaxTime /\ edits \in 0..MaxShifts
    OBVIOUS
  <2>2. job \in [status : {"queued", "previewed", "running", "succeeded", "failed", "cancelled"},
                 requested : BOOLEAN]
    OBVIOUS
  <2> QED BY <2>1, <2>2 DEF WorldTyped
<1>2. AsksSound /\ \A c \in Previewers : ask[c].at = "idle"
  BY DEF AsksSound, AskSound, NoAsk
<1>3. RowSound /\ OrderSound /\ ConfirmSound
  BY <1>2 DEF RowSound, OrderSound, ConfirmSound
<1>4. AttemptSound
  BY DEF AttemptSound, NoAttempt, RefusedOnlyIfChanged
<1> QED BY <1>1, <1>2, <1>3, <1>4 DEF PreviewsInv

LEMMA PreviewsStep ==
  ASSUME PreviewsInv, [PreviewsNext]_previewVars
  PROVE  PreviewsInv'
<1>1. CASE UNCHANGED previewVars
  <2>1. AttemptSound'
    BY <1>1, AttemptStands DEF previewVars
  <2> QED BY <1>1, <2>1, OnlyAttempt DEF previewVars
<1>2. ASSUME NEW c \in Previewers,
             \/ BeginPreview(c) \/ Inspect(c) \/ SavePlan(c) \/ MarkPreviewed(c)
             \/ ConfirmPlan(c)
      PROVE  PreviewsInv'
  BY <1>2, BeginPreviewStep, InspectStep, SavePlanStep, MarkPreviewedStep, ConfirmPlanStep
<1>3. ASSUME TakeUp \/ IssueToken \/ Dispatch \/ ReadPlan \/ Revalidate \/ StartTransfer \/ EndAttempt
      PROVE  PreviewsInv'
  BY <1>3, TakeUpStep, IssueTokenStep, DispatchStep, ReadPlanStep, RevalidateStep,
     StartTransferStep, EndAttemptStep
<1> QED BY <1>1, <1>2, <1>3, OutsideStep DEF PreviewsNext

LEMMA PreviewsAlways == PreviewsSpec => []PreviewsInv
<1>1. PreviewsInit => PreviewsInv
  BY PreviewsInitially
<1>2. PreviewsInv /\ [PreviewsNext]_previewVars => PreviewsInv'
  BY PreviewsStep
<1> QED BY <1>1, <1>2, PTL DEF PreviewsSpec

LEMMA PreviewsShape == PreviewsInv => PreviewsTypeOK
<1> SUFFICES ASSUME PreviewsInv
             PROVE  PreviewsTypeOK
  OBVIOUS
<1>1. /\ row # NoPlan => /\ row.saw \in transfer.schemas /\ row.wants \in transfer.wants
                         /\ row.expires \in Lifetime..(MaxTime + Lifetime)
  BY PreviewConstants DEF PreviewsInv, WorldTyped, RowSound, Built
<1> QED BY <1>1 DEF PreviewsInv, WorldTyped, AsksSound, AskSound, AttemptSound, PreviewsTypeOK

\* The rows, requests and attempts of a job's previews are always in one of their stages.
THEOREM PreviewsTyped == PreviewsSpec => []PreviewsTypeOK
  BY PreviewsShape, PreviewsAlways, PTL

\* What a worker executes is the plan that its user confirmed, unless another preview was
\* under way when the job was previewed, and it is the plan that the table calls for as the
\* worker found it: whatever was written over, altered, revoked or delayed meanwhile, and
\* although the fingerprint of a form covers no more of the plan than buildFingerprint hashes.
THEOREM ExecutionsAreConfirmed == PreviewsSpec => []ExecutedAsConfirmed
<1>1. PreviewsInv => ExecutedAsConfirmed
  BY DEF PreviewsInv, AttemptSound, ReadSound, CurrentPlan, ExecutedAsConfirmed
<1> QED BY <1>1, PreviewsAlways, PTL

\* No attempt is told that its preview changed, or is invalid, unless the row was written
\* over or the table changed: the request that PlanRequest makes of a stored plan is
\* acceptable again and builds the same plan, but for a resumed import of generated keys.
THEOREM RefusalsAreFounded == PreviewsSpec => []RefusedOnlyIfChanged
<1>1. PreviewsInv => RefusedOnlyIfChanged
  BY DEF PreviewsInv, AttemptSound
<1> QED BY <1>1, PreviewsAlways, PTL

-----------------------------------------------------------------------------
(* The rules of changes *)

\* A command is a form with options of its kind.
IsCommand(c) ==
  /\ c = [kind |-> c.kind, of |-> c.of, has |-> c.has]
  /\ [kind |-> c.kind, of |-> c.of, has |-> {}] \in Forms
  /\ c.has \subseteq Options(c.kind)

LEMMA FormShaped ==
  ASSUME NEW f \in Forms
  PROVE  f = [kind |-> f.kind, of |-> f.of, has |-> {}] /\ f.has = {}
<1>1. \A kinds, about : \A g \in Blank(kinds, about) :
        g = [kind |-> g.kind, of |-> g.of, has |-> {}] /\ g.has = {}
  BY DEF Blank
<1> QED BY <1>1 DEF Forms

RulesInv == server \in Servers /\ IsCommand(command)

LEMMA RulesStart == RulesInit => RulesInv
  BY FormShaped DEF RulesInit, RulesInv, IsCommand

LEMMA RulesStep == RulesInv /\ [RulesNext]_ruleVars => RulesInv'
<1> SUFFICES ASSUME RulesInv, [RulesNext]_ruleVars
             PROVE  RulesInv'
  OBVIOUS
<1>1. CASE UNCHANGED ruleVars
  BY <1>1 DEF RulesInv, ruleVars, IsCommand
<1>2. CASE RulesNext
  <2>1. PICK x \in Options(command.kind) : Ask(x)
    BY <1>2 DEF RulesNext
  <2>2. command' = [kind |-> command.kind, of |-> command.of, has |-> command.has \cup {x}]
    BY <2>1 DEF Ask, RulesInv, IsCommand
  <2> QED BY <2>1, <2>2 DEF Ask, RulesInv, IsCommand
<1> QED BY <1>1, <1>2

LEMMA RulesShape == RulesInv => RulesTypeOK
<1>1. ASSUME RulesInv
      PROVE  [command EXCEPT !.has = {}] = [kind |-> command.kind, of |-> command.of, has |-> {}]
  BY <1>1 DEF RulesInv, IsCommand
<1> QED BY <1>1 DEF RulesTypeOK, RulesInv, IsCommand

\* For any set of servers: the server and the command keep their types.
THEOREM RulesTyped == RulesSpec => []RulesTypeOK
  BY RulesStart, RulesStep, RulesShape, PTL DEF RulesSpec

-----------------------------------------------------------------------------
(* Pages of a table *)


(* The order of a key *)

KeyColumns == DOMAIN Grain

LEMMA KeyDomain ==
  ASSUME NEW key \in Seq(KeyColumns)
  PROVE  /\ DOMAIN key = 1..Len(key) /\ Len(key) \in Nat
         /\ \A i \in DOMAIN key : i \in Nat /\ key[i] \in KeyColumns
                                  /\ \A j \in 1..(i - 1) : j \in DOMAIN key /\ j < i
<1>1. DOMAIN key = 1..Len(key) /\ Len(key) \in Nat
  BY LenProperties
<1>2. \A i \in 1..Len(key) : key[i] \in KeyColumns
  BY ElementOfSeq
<1>3. \A n \in Nat : \A i \in 1..n : i \in Nat /\ \A j \in 1..(i - 1) : j \in 1..n /\ j < i
  OBVIOUS
<1> QED BY <1>1, <1>2, <1>3

LEMMA PrecedesIrreflexive ==
  ASSUME NEW key \in Seq(KeyColumns), NEW u \in [KeyColumns -> Int]
  PROVE  ~Precedes(key, u, u)
  BY KeyDomain DEF Precedes

\* Two rows that differ in a column of the key are in order.
LEMMA PrecedesTotal ==
  ASSUME NEW key \in Seq(KeyColumns), NEW u \in [KeyColumns -> Int], NEW v \in [KeyColumns -> Int],
         NEW k \in DOMAIN key, u[key[k]] # v[key[k]]
  PROVE  Precedes(key, u, v) \/ Precedes(key, v, u)
<1> DEFINE Apart == {i \in DOMAIN key : u[key[i]] # v[key[i]]}
<1>1. Apart \subseteq Nat /\ Apart # {}
  BY KeyDomain
<1>2. PICK i \in Apart : \A j \in Apart : i <= j
  BY <1>1, LeastPlace
<1>3. i \in DOMAIN key /\ i \in Nat /\ u[key[i]] # v[key[i]] /\ key[i] \in KeyColumns
  BY <1>2, KeyDomain
<1>4. \A j \in 1..(i - 1) : u[key[j]] = v[key[j]]
  <2> SUFFICES ASSUME NEW j \in 1..(i - 1), u[key[j]] # v[key[j]]
               PROVE  FALSE
    OBVIOUS
  <2>1. j \in DOMAIN key /\ j < i /\ j \in Nat
    BY <1>3, KeyDomain
  <2>2. j \in Apart
    BY <2>1
  <2> QED BY <1>2, <1>3, <2>1, <2>2
<1>5. u[key[i]] < v[key[i]] \/ v[key[i]] < u[key[i]]
  <2>1. u[key[i]] \in Int /\ v[key[i]] \in Int
    BY <1>3
  <2> QED BY <1>3, <2>1
<1> QED BY <1>3, <1>4, <1>5 DEF Precedes

LEMMA PrecedesTransitive ==
  ASSUME NEW key \in Seq(KeyColumns), NEW u \in [KeyColumns -> Int], NEW v \in [KeyColumns -> Int],
         NEW w \in [KeyColumns -> Int], Precedes(key, u, v), Precedes(key, v, w)
  PROVE  Precedes(key, u, w)
<1>1. PICK i \in DOMAIN key : u[key[i]] < v[key[i]] /\ \A n \in 1..(i - 1) : u[key[n]] = v[key[n]]
  BY DEF Precedes
<1>2. PICK j \in DOMAIN key : v[key[j]] < w[key[j]] /\ \A n \in 1..(j - 1) : v[key[n]] = w[key[n]]
  BY DEF Precedes
<1>3. i \in Nat \ {0} /\ j \in Nat \ {0} /\ key[i] \in KeyColumns /\ key[j] \in KeyColumns
  BY KeyDomain
<1>4. u[key[i]] \in Int /\ v[key[i]] \in Int /\ w[key[i]] \in Int
      /\ u[key[j]] \in Int /\ v[key[j]] \in Int /\ w[key[j]] \in Int
  BY <1>3
<1>5. CASE i < j
  <2>1. i \in 1..(j - 1) /\ \A n \in 1..(i - 1) : n \in 1..(j - 1)
    BY <1>3, <1>5
  <2>2. u[key[i]] < w[key[i]]
    BY <1>1, <1>2, <2>1, SMTT(30)
  <2> QED BY <1>1, <1>2, <2>1, <2>2, ZenonT(40) DEF Precedes
<1>6. CASE j < i
  <2>1. j \in 1..(i - 1) /\ \A n \in 1..(j - 1) : n \in 1..(i - 1)
    BY <1>3, <1>6
  <2>2. u[key[j]] < w[key[j]]
    BY <1>1, <1>2, <2>1, SMTT(30)
  <2> QED BY <1>1, <1>2, <2>1, <2>2, ZenonT(40) DEF Precedes
<1>7. CASE i = j
  <2>1. u[key[i]] < w[key[i]]
    BY <1>1, <1>2, <1>4, <1>7
  <2>2. \A n \in 1..(i - 1) : u[key[n]] = w[key[n]]
    BY <1>1, <1>2, <1>7
  <2> QED BY <2>1, <2>2 DEF Precedes
<1> QED BY <1>3, <1>5, <1>6, <1>7

Directions == {"forward", "backward"}

LEMMA OrderFacts ==
  ASSUME NEW key \in Seq(KeyColumns), NEW direction \in Directions
  PROVE  /\ \A u \in [KeyColumns -> Int] : ~InOrder(key, direction, u, u)
         /\ \A u, v, w \in [KeyColumns -> Int] :
              InOrder(key, direction, u, v) /\ InOrder(key, direction, v, w)
                => InOrder(key, direction, u, w)
         /\ \A u, v \in [KeyColumns -> Int] : \A k \in DOMAIN key : u[key[k]] # v[key[k]]
              => InOrder(key, direction, u, v) \/ InOrder(key, direction, v, u)
  BY PrecedesIrreflexive, PrecedesTransitive, PrecedesTotal DEF InOrder, Directions

\* Where the columns of the key are exact, the values of a cursor order as the row they come from.
LEMMA CursorOrders ==
  ASSUME NEW key \in Seq(KeyColumns), Exact(key), NEW entry \in TableRows, NEW r \in TableRows,
         NEW direction \in Directions, NEW d
  PROVE  InOrder(key, direction, CursorFor(entry, key, d).values, r)
           <=> InOrder(key, direction, entry, r)
<1> DEFINE values == CursorFor(entry, key, d).values
<1>1. entry \in [KeyColumns -> Int] /\ r \in [KeyColumns -> Int]
  BY PagesAssumption DEF KeyColumns
<1>2. \A i \in DOMAIN key : values[key[i]] = entry[key[i]]
  <2> SUFFICES ASSUME NEW i \in DOMAIN key
               PROVE  values[key[i]] = entry[key[i]]
    OBVIOUS
  <2>1. Grain[key[i]] = 1 /\ entry[key[i]] \in Int
    BY <1>1, KeyDomain DEF Exact
  <2>2. key[i] \in ToSet(key)
    BY DEF ToSet
  <2>3. \A x \in Int : x - (x % 1) = x
    OBVIOUS
  <2> QED BY <2>1, <2>2, <2>3 DEF CursorFor, Sent
<1>3. \A i \in DOMAIN key : \A j \in 1..(i - 1) : j \in DOMAIN key
  BY KeyDomain
<1> HIDE DEF values
<1>4. Precedes(key, values, r) <=> Precedes(key, entry, r)
  BY <1>2, <1>3 DEF Precedes
<1>5. Precedes(key, r, values) <=> Precedes(key, r, entry)
  BY <1>2, <1>3 DEF Precedes
<1> QED BY <1>4, <1>5 DEF InOrder, values

-----------------------------------------------------------------------------
(* What is read in one query *)

\* The rows that are sent of those that were read.
CutOf(raw) == IF Len(raw) > PageLimit THEN SubSeq(raw, 1, PageLimit) ELSE raw

Beyond(key, cursor, direction) ==
  {r \in content : cursor # NoCursor => InOrder(key, direction, cursor.values, r)}

LEMMA PageNumbers ==
  /\ \A n \in 0..(PageLimit + 1) :
       n \in Nat /\ (n > PageLimit <=> n = PageLimit + 1)
  /\ PageLimit \in Nat /\ PageLimit # 0 /\ PageLimit \in 1..PageLimit
  /\ PageLimit < PageLimit + 1
  /\ PageLimit \in 1..(PageLimit + 1) /\ PageLimit + 1 \in 1..(PageLimit + 1)
  /\ \A i \in 1..(PageLimit + 1) : i \in 1..PageLimit \/ i = PageLimit + 1
<1> DEFINE n == PageLimit
<1>1. n \in Nat \ {0}
  BY PagesAssumption
<1> HIDE DEF n
<1>2. /\ \A m \in 0..(n + 1) : m \in Nat /\ (m > n <=> m = n + 1)
      /\ n \in Nat /\ n # 0 /\ n \in 1..n
      /\ n < n + 1
      /\ n \in 1..(n + 1) /\ n + 1 \in 1..(n + 1)
      /\ \A i \in 1..(n + 1) : i \in 1..n \/ i = n + 1
  BY <1>1
<1> QED BY <1>2 DEF n

LEMMA RawFacts ==
  ASSUME NEW key \in Seq(KeyColumns), NEW direction \in Directions, NEW cursor,
         content \subseteq TableRows, NEW raw \in Selections(key, cursor, direction)
  PROVE  /\ raw \in Seq(content) /\ Len(raw) \in 0..(PageLimit + 1) /\ DOMAIN raw = 1..Len(raw)
         /\ \A i \in DOMAIN raw : raw[i] \in Beyond(key, cursor, direction)
         /\ Len(raw) = PageLimit + 1 \/ ToSet(raw) = Beyond(key, cursor, direction)
         /\ \A j \in DOMAIN raw : \A i \in 1..(j - 1) :
              raw[i] # raw[j] /\ ~InOrder(key, direction, raw[j], raw[i])
         /\ \A r \in Beyond(key, cursor, direction) \ ToSet(raw) : \A i \in DOMAIN raw :
              ~InOrder(key, direction, r, raw[i])
<1>1. PICK n \in 0..(PageLimit + 1) : raw \in [1..n -> Beyond(key, cursor, direction)]
  BY DEF Selections, Beyond
<1>2. raw \in Seq(Beyond(key, cursor, direction)) /\ Len(raw) = n
  <2>1. n \in Nat
    BY PagesAssumption, <1>1
  <2> QED BY <1>1, <2>1
<1>3. Beyond(key, cursor, direction) \subseteq content
  BY DEF Beyond
<1> QED BY <1>1, <1>2, <1>3 DEF Selections, Beyond

LEMMA CutFacts ==
  ASSUME NEW S, NEW raw \in Seq(S), Len(raw) \in 0..(PageLimit + 1)
  PROVE  /\ CutOf(raw) \in Seq(S) /\ Len(CutOf(raw)) \in Nat /\ DOMAIN CutOf(raw) = 1..Len(CutOf(raw))
         /\ \A i \in DOMAIN CutOf(raw) : i \in DOMAIN raw /\ CutOf(raw)[i] = raw[i]
         /\ Len(raw) > PageLimit => /\ Len(CutOf(raw)) = PageLimit /\ Len(raw) = PageLimit + 1
                                    /\ CutOf(raw) # <<>>
         /\ ~(Len(raw) > PageLimit) => CutOf(raw) = raw
<1>1. PageLimit \in Nat \ {0} /\ Len(raw) \in Nat /\ DOMAIN raw = 1..Len(raw)
  BY PagesAssumption, LenProperties
<1>2. CASE Len(raw) > PageLimit
  <2>1. \A i \in 1..PageLimit : i \in 1..Len(raw) /\ raw[i] \in S
    BY <1>1, <1>2, ElementOfSeq
  <2>2. /\ SubSeq(raw, 1, PageLimit) \in Seq(S)
        /\ Len(SubSeq(raw, 1, PageLimit)) = PageLimit
        /\ \A i \in 1..PageLimit : SubSeq(raw, 1, PageLimit)[i] = raw[i]
    <3>1. /\ SubSeq(raw, 1, PageLimit) \in Seq(S)
          /\ Len(SubSeq(raw, 1, PageLimit)) = (IF 1 <= PageLimit THEN PageLimit - 1 + 1 ELSE 0)
          /\ \A i \in 1..(PageLimit - 1 + 1) : SubSeq(raw, 1, PageLimit)[i] = raw[1 + i - 1]
      BY <1>1, <2>1, SubSeqProperties
    <3>2. \A i \in 1..PageLimit : i \in 1..(PageLimit - 1 + 1) /\ 1 + i - 1 = i
      BY <1>1
    <3>3. 1 <= PageLimit /\ PageLimit - 1 + 1 = PageLimit
      BY <1>1
    <3> QED BY <3>1, <3>2, <3>3
  <2>3. CutOf(raw) = SubSeq(raw, 1, PageLimit)
    BY <1>2 DEF CutOf
  <2>4. Len(raw) = PageLimit + 1
    BY <1>2, PageNumbers
  <2>5. DOMAIN CutOf(raw) = 1..PageLimit
    BY <2>2, <2>3, LenProperties
  <2>6. CutOf(raw) # <<>>
    <3>1. Len(CutOf(raw)) # 0
      BY <2>2, <2>3, PageNumbers
    <3> QED BY <3>1
  <2> QED BY <1>1, <1>2, <2>1, <2>2, <2>3, <2>4, <2>5, <2>6
<1>3. CASE ~(Len(raw) > PageLimit)
  BY <1>1, <1>3 DEF CutOf
<1> QED BY <1>2, <1>3

\* A page read while the key tells the rows apart is in order, and what is left beyond
\* it comes after its last row.
LEMMA PageFacts ==
  ASSUME NEW key \in Seq(KeyColumns), NEW direction \in Directions, NEW cursor,
         content \subseteq TableRows, Distinct(content, key),
         NEW raw \in Selections(key, cursor, direction)
  PROVE  /\ \A i \in DOMAIN CutOf(raw) : CutOf(raw)[i] \in Beyond(key, cursor, direction)
         /\ \A i, j \in DOMAIN CutOf(raw) :
              i < j => InOrder(key, direction, CutOf(raw)[i], CutOf(raw)[j])
         /\ \A r \in Beyond(key, cursor, direction) :
              \/ \E i \in DOMAIN CutOf(raw) : CutOf(raw)[i] = r
              \/ Len(raw) > PageLimit /\ InOrder(key, direction, CutOf(raw)[Len(CutOf(raw))], r)
<1>1. content \subseteq [KeyColumns -> Int] /\ PageLimit \in Nat \ {0}
  BY PagesAssumption DEF KeyColumns
<1>2. \A u, v \in content : u # v /\ ~InOrder(key, direction, v, u) => InOrder(key, direction, u, v)
  BY <1>1, OrderFacts, ZenonT(40) DEF Distinct
<1>3. /\ raw \in Seq(content) /\ Len(raw) \in 0..(PageLimit + 1) /\ DOMAIN raw = 1..Len(raw)
      /\ \A i \in DOMAIN raw : raw[i] \in Beyond(key, cursor, direction)
      /\ Len(raw) = PageLimit + 1 \/ ToSet(raw) = Beyond(key, cursor, direction)
      /\ \A j \in DOMAIN raw : \A i \in 1..(j - 1) :
              raw[i] # raw[j] /\ ~InOrder(key, direction, raw[j], raw[i])
      /\ \A r \in Beyond(key, cursor, direction) \ ToSet(raw) : \A i \in DOMAIN raw :
              ~InOrder(key, direction, r, raw[i])
  BY RawFacts
<1>4. Beyond(key, cursor, direction) \subseteq content
  BY DEF Beyond
<1>5. \A i, j \in DOMAIN raw : i < j => InOrder(key, direction, raw[i], raw[j])
  <2> SUFFICES ASSUME NEW i \in DOMAIN raw, NEW j \in DOMAIN raw, i < j
               PROVE  InOrder(key, direction, raw[i], raw[j])
    OBVIOUS
  <2>1. i \in 1..(j - 1)
    BY <1>3
  <2>2. raw[i] # raw[j] /\ ~InOrder(key, direction, raw[j], raw[i])
    BY <1>3, <2>1
  <2>3. raw[i] \in content /\ raw[j] \in content
    BY <1>3, <1>4
  <2> QED BY <1>2, <2>2, <2>3
<1>6. /\ Len(CutOf(raw)) \in Nat /\ DOMAIN CutOf(raw) = 1..Len(CutOf(raw))
      /\ \A i \in DOMAIN CutOf(raw) : i \in DOMAIN raw /\ CutOf(raw)[i] = raw[i]
      /\ Len(raw) > PageLimit => Len(CutOf(raw)) = PageLimit /\ Len(raw) = PageLimit + 1
      /\ ~(Len(raw) > PageLimit) => CutOf(raw) = raw
  BY <1>3, CutFacts
<1>7. ASSUME NEW r \in Beyond(key, cursor, direction)
      PROVE  \/ \E i \in DOMAIN CutOf(raw) : CutOf(raw)[i] = r
             \/ Len(raw) > PageLimit /\ InOrder(key, direction, CutOf(raw)[Len(CutOf(raw))], r)
  <2>1. CASE ~(Len(raw) > PageLimit)
    <3>1. Len(raw) # PageLimit + 1
      BY <1>3, <2>1, PageNumbers
    <3>2. r \in ToSet(raw)
      BY <1>3, <3>1
    <3> QED BY <1>6, <2>1, <3>2 DEF ToSet
  <2>2. CASE Len(raw) > PageLimit
    <3>1. PageLimit \in DOMAIN raw /\ PageLimit + 1 \in DOMAIN raw /\ PageLimit \in DOMAIN CutOf(raw)
          /\ DOMAIN raw = 1..(PageLimit + 1) /\ DOMAIN CutOf(raw) = 1..PageLimit
      <4>1. Len(raw) = PageLimit + 1 /\ Len(CutOf(raw)) = PageLimit
        BY <1>6, <2>2
      <4> QED BY <1>3, <1>6, <4>1, PageNumbers
    <3>2. CutOf(raw)[Len(CutOf(raw))] = raw[PageLimit]
      BY <1>6, <2>2, <3>1
    <3>3. CASE r \in ToSet(raw)
      <4>1. PICK i \in DOMAIN raw : raw[i] = r
        BY <3>3 DEF ToSet
      <4>2. i \in 1..PageLimit \/ i = PageLimit + 1
        BY <1>1, <3>1
      <4>3. PageLimit < PageLimit + 1
        BY <1>1
      <4> QED BY <1>5, <1>6, <2>2, <3>1, <3>2, <4>1, <4>2, <4>3
    <3>4. CASE r \notin ToSet(raw)
      <4>1. ~InOrder(key, direction, r, raw[PageLimit]) /\ r # raw[PageLimit]
        BY <1>3, <3>1, <3>4 DEF ToSet
      <4>2. r \in content /\ raw[PageLimit] \in content
        BY <1>3, <1>4, <3>1
      <4> QED BY <1>2, <2>2, <3>2, <4>1, <4>2
    <3> QED BY <3>3, <3>4
  <2> QED BY <2>1, <2>2
<1> QED BY <1>3, <1>5, <1>6, <1>7

InKeyOrder(key, rows) ==
  \A i, j \in DOMAIN rows : i < j => Precedes(key, rows[i], rows[j])

Among(rows, r) == \E i \in DOMAIN rows : rows[i] = r

\* What was seen, with a page further in the direction of the walk.
LEMMA ForwardExtends ==
  ASSUME NEW key \in Seq(KeyColumns), NEW cursor, content \subseteq TableRows, Distinct(content, key),
         NEW raw \in Selections(key, cursor, "forward"),
         NEW old \in Seq(TableRows), InKeyOrder(key, old), NEW steady,
         \A r \in steady : Among(old, r) \/ r \in Beyond(key, cursor, "forward"),
         \A i \in DOMAIN old : \A r \in Beyond(key, cursor, "forward") : Precedes(key, old[i], r)
  PROVE  /\ old \o CutOf(raw) \in Seq(TableRows)
         /\ InKeyOrder(key, old \o CutOf(raw))
         /\ Len(raw) > PageLimit =>
              /\ CutOf(raw) # <<>> /\ old \o CutOf(raw) # <<>>
              /\ (old \o CutOf(raw))[Len(old \o CutOf(raw))] = CutOf(raw)[Len(CutOf(raw))]
         /\ \A r \in steady :
              \/ Among(old \o CutOf(raw), r)
              \/ Len(raw) > PageLimit /\ Precedes(key, CutOf(raw)[Len(CutOf(raw))], r)
<1>1. PICK cut : cut = CutOf(raw)
  OBVIOUS
<1>2. /\ cut \in Seq(TableRows) /\ Len(cut) \in Nat /\ DOMAIN cut = 1..Len(cut)
      /\ Len(raw) > PageLimit => cut # <<>> /\ Len(cut) = PageLimit
  <2>1. raw \in Seq(content) /\ Len(raw) \in 0..(PageLimit + 1)
    BY RawFacts DEF Directions
  <2>2. raw \in Seq(TableRows)
    BY <2>1
  <2> QED BY <1>1, <2>1, <2>2, CutFacts
<1>3. /\ \A i \in DOMAIN cut : cut[i] \in Beyond(key, cursor, "forward")
      /\ \A i, j \in DOMAIN cut : i < j => Precedes(key, cut[i], cut[j])
      /\ \A r \in Beyond(key, cursor, "forward") :
           Among(cut, r) \/ (Len(raw) > PageLimit /\ Precedes(key, cut[Len(cut)], r))
  <2>1. "forward" \in Directions
    BY DEF Directions
  <2>2. /\ \A i \in DOMAIN cut : cut[i] \in Beyond(key, cursor, "forward")
        /\ \A i, j \in DOMAIN cut : i < j => InOrder(key, "forward", cut[i], cut[j])
        /\ \A r \in Beyond(key, cursor, "forward") :
             \/ \E i \in DOMAIN cut : cut[i] = r
             \/ Len(raw) > PageLimit /\ InOrder(key, "forward", cut[Len(cut)], r)
    BY <1>1, <2>1, PageFacts
  <2>3. \A u, v : InOrder(key, "forward", u, v) <=> Precedes(key, u, v)
    BY DEF InOrder
  <2> QED BY <2>2, <2>3 DEF Among
<1>4. PICK all : all = old \o cut
  OBVIOUS
<1>5. /\ all \in Seq(TableRows) /\ Len(all) = Len(old) + Len(cut)
      /\ \A i \in 1..Len(old) : all[i] = old[i]
      /\ \A i \in 1..Len(cut) : all[Len(old) + i] = cut[i]
  BY <1>2, <1>4, ConcatProperties
<1>6. Len(old) \in Nat /\ DOMAIN old = 1..Len(old) /\ DOMAIN all = 1..Len(all)
  BY <1>5, LenProperties
<1>7. \A i \in DOMAIN all : i \in DOMAIN old \/ \E k \in DOMAIN cut : i = Len(old) + k
  <2> SUFFICES ASSUME NEW i \in DOMAIN all, i \notin DOMAIN old
               PROVE  \E k \in DOMAIN cut : i = Len(old) + k
    OBVIOUS
  <2>1. i - Len(old) \in 1..Len(cut) /\ i = Len(old) + (i - Len(old))
    BY <1>2, <1>5, <1>6
  <2> QED BY <1>2, <2>1
<1>8. InKeyOrder(key, all)
  <2> SUFFICES ASSUME NEW i \in DOMAIN all, NEW j \in DOMAIN all, i < j
               PROVE  Precedes(key, all[i], all[j])
    BY DEF InKeyOrder
  <2>1. CASE i \in DOMAIN old /\ j \in DOMAIN old
    BY <1>5, <1>6, <2>1 DEF InKeyOrder
  <2>2. CASE i \in DOMAIN old /\ j \notin DOMAIN old
    <3>1. PICK k \in DOMAIN cut : j = Len(old) + k
      BY <1>7, <2>2
    <3> QED BY <1>2, <1>3, <1>5, <1>6, <2>2, <3>1
  <2>3. CASE i \notin DOMAIN old
    <3>1. PICK k \in DOMAIN cut : i = Len(old) + k
      BY <1>7, <2>3
    <3>2. j \notin DOMAIN old
      BY <1>6, <2>3
    <3>3. PICK m \in DOMAIN cut : j = Len(old) + m
      BY <1>7, <3>2
    <3>4. k < m
      BY <1>2, <1>6, <3>1, <3>3
    <3> QED BY <1>2, <1>3, <1>5, <3>1, <3>3, <3>4
  <2> QED BY <2>1, <2>2, <2>3
<1>9. ASSUME Len(raw) > PageLimit
      PROVE  all # <<>> /\ all[Len(all)] = cut[Len(cut)]
  <2>1. Len(cut) \in 1..Len(cut)
    BY <1>2, <1>9, PageNumbers
  <2>2. Len(all) # 0
    BY <1>5, <1>6, <2>1
  <2> QED BY <1>5, <2>1, <2>2
<1>10. ASSUME NEW r \in steady
       PROVE  Among(all, r) \/ (Len(raw) > PageLimit /\ Precedes(key, cut[Len(cut)], r))
  <2>1. \A i \in DOMAIN old : i \in DOMAIN all /\ all[i] = old[i]
    BY <1>2, <1>5, <1>6
  <2>2. \A i \in DOMAIN cut : Len(old) + i \in DOMAIN all /\ all[Len(old) + i] = cut[i]
    BY <1>2, <1>5, <1>6
  <2>3. CASE Among(old, r)
    <3>1. PICK i \in DOMAIN old : old[i] = r
      BY <2>3 DEF Among
    <3> QED BY <2>1, <3>1 DEF Among
  <2>4. CASE r \in Beyond(key, cursor, "forward")
    BY <1>3, <2>2, <2>4 DEF Among
  <2> QED BY <2>3, <2>4
<1> QED BY <1>1, <1>2, <1>4, <1>5, <1>8, <1>9, <1>10

LEMMA BackwardExtends ==
  ASSUME NEW key \in Seq(KeyColumns), NEW cursor, content \subseteq TableRows, Distinct(content, key),
         NEW raw \in Selections(key, cursor, "backward"),
         NEW old \in Seq(TableRows), InKeyOrder(key, old), NEW steady,
         \A r \in steady : Among(old, r) \/ r \in Beyond(key, cursor, "backward"),
         \A i \in DOMAIN old : \A r \in Beyond(key, cursor, "backward") : Precedes(key, r, old[i])
  PROVE  /\ Reverse(CutOf(raw)) \in Seq(TableRows)
         /\ Reverse(CutOf(raw)) \o old \in Seq(TableRows)
         /\ InKeyOrder(key, Reverse(CutOf(raw)) \o old)
         /\ Len(raw) > PageLimit =>
              /\ Reverse(CutOf(raw)) # <<>> /\ Reverse(CutOf(raw)) \o old # <<>>
              /\ (Reverse(CutOf(raw)) \o old)[1] = Reverse(CutOf(raw))[1]
         /\ \A r \in steady :
              \/ Among(Reverse(CutOf(raw)) \o old, r)
              \/ Len(raw) > PageLimit /\ Precedes(key, r, Reverse(CutOf(raw))[1])
<1>1. PICK cut : cut = CutOf(raw)
  OBVIOUS
<1>2. /\ cut \in Seq(TableRows) /\ Len(cut) \in Nat /\ DOMAIN cut = 1..Len(cut)
      /\ Len(raw) > PageLimit => cut # <<>> /\ Len(cut) = PageLimit
  <2>1. raw \in Seq(content) /\ Len(raw) \in 0..(PageLimit + 1)
    BY RawFacts DEF Directions
  <2>2. raw \in Seq(TableRows)
    BY <2>1
  <2> QED BY <1>1, <2>1, <2>2, CutFacts
<1>3. /\ \A i \in DOMAIN cut : cut[i] \in Beyond(key, cursor, "backward")
      /\ \A i, j \in DOMAIN cut : i < j => Precedes(key, cut[j], cut[i])
      /\ \A r \in Beyond(key, cursor, "backward") :
           Among(cut, r) \/ (Len(raw) > PageLimit /\ Precedes(key, r, cut[Len(cut)]))
  <2>1. "backward" \in Directions
    BY DEF Directions
  <2>2. /\ \A i \in DOMAIN cut : cut[i] \in Beyond(key, cursor, "backward")
        /\ \A i, j \in DOMAIN cut : i < j => InOrder(key, "backward", cut[i], cut[j])
        /\ \A r \in Beyond(key, cursor, "backward") :
             \/ \E i \in DOMAIN cut : cut[i] = r
             \/ Len(raw) > PageLimit /\ InOrder(key, "backward", cut[Len(cut)], r)
    BY <1>1, <2>1, PageFacts
  <2>3. \A u, v : InOrder(key, "backward", u, v) <=> Precedes(key, v, u)
    BY DEF InOrder
  <2> QED BY <2>2, <2>3 DEF Among
<1>4. PICK turned : turned = Reverse(cut)
  OBVIOUS
<1>5. PICK all : all = turned \o old
  OBVIOUS
<1>6. turned = [i \in 1..Len(cut) |-> cut[(Len(cut) - i) + 1]]
  BY <1>4 DEF Reverse
<1>7. \A i \in 1..Len(cut) : (Len(cut) - i) + 1 \in 1..Len(cut)
                             /\ (Len(cut) - ((Len(cut) - i) + 1)) + 1 = i
  BY <1>2
<1>8. turned \in Seq(TableRows) /\ Len(turned) = Len(cut) /\ DOMAIN turned = 1..Len(cut)
  <2>1. \A i \in 1..Len(cut) : cut[(Len(cut) - i) + 1] \in TableRows
    BY <1>2, <1>7, ElementOfSeq
  <2> QED BY <1>2, <1>6, <2>1
<1>9. /\ all \in Seq(TableRows) /\ Len(all) = Len(cut) + Len(old)
      /\ \A i \in 1..Len(cut) : all[i] = turned[i]
      /\ \A i \in 1..Len(old) : all[Len(cut) + i] = old[i]
  <2>1. /\ all \in Seq(TableRows) /\ Len(all) = Len(turned) + Len(old)
        /\ \A i \in 1..Len(turned) : all[i] = turned[i]
        /\ \A i \in 1..Len(old) : all[Len(turned) + i] = old[i]
    <3>1. Len(turned) \in Nat /\ Len(old) \in Nat
      BY <1>2, <1>8, LenProperties
    <3>2. /\ turned \o old \in Seq(TableRows)
          /\ Len(turned \o old) = Len(turned) + Len(old)
          /\ \A i \in 1..(Len(turned) + Len(old)) : (turned \o old)[i] =
               IF i <= Len(turned) THEN turned[i] ELSE old[i - Len(turned)]
      BY <1>8, ConcatProperties
    <3>3. PICK front \in Nat, back \in Nat : front = Len(turned) /\ back = Len(old)
      BY <3>1
    <3>4. \A i \in 1..front : i \in 1..(front + back) /\ i <= front
      BY <3>3
    <3>5. \A i \in 1..back : front + i \in 1..(front + back) /\ ~(front + i <= front)
                             /\ (front + i) - front = i
      BY <3>3
    <3> QED BY <1>5, <3>2, <3>3, <3>4, <3>5
  <2> QED BY <1>8, <2>1
<1>10. Len(old) \in Nat /\ DOMAIN old = 1..Len(old) /\ DOMAIN all = 1..Len(all)
  BY <1>9, LenProperties
<1>11. \A i \in DOMAIN all : i \in 1..Len(cut) \/ \E k \in DOMAIN old : i = Len(cut) + k
  <2> SUFFICES ASSUME NEW i \in DOMAIN all, i \notin 1..Len(cut)
               PROVE  \E k \in DOMAIN old : i = Len(cut) + k
    OBVIOUS
  <2>1. i - Len(cut) \in 1..Len(old) /\ i = Len(cut) + (i - Len(cut))
    BY <1>2, <1>9, <1>10
  <2> QED BY <1>10, <2>1
<1>12. \A i \in 1..Len(cut) : all[i] \in Beyond(key, cursor, "backward")
  BY <1>2, <1>3, <1>6, <1>7, <1>9
<1>13. InKeyOrder(key, all)
  <2> SUFFICES ASSUME NEW i \in DOMAIN all, NEW j \in DOMAIN all, i < j
               PROVE  Precedes(key, all[i], all[j])
    BY DEF InKeyOrder
  <2>1. CASE i \in 1..Len(cut) /\ j \in 1..Len(cut)
    <3>1. (Len(cut) - j) + 1 < (Len(cut) - i) + 1
      BY <1>2, <2>1
    <3>2. all[i] = cut[(Len(cut) - i) + 1] /\ all[j] = cut[(Len(cut) - j) + 1]
      BY <1>6, <1>9, <2>1
    <3>3. (Len(cut) - i) + 1 \in DOMAIN cut /\ (Len(cut) - j) + 1 \in DOMAIN cut
      BY <1>2, <1>7, <2>1
    <3> QED BY <1>3, <3>1, <3>2, <3>3
  <2>2. CASE i \in 1..Len(cut) /\ j \notin 1..Len(cut)
    <3>1. PICK k \in DOMAIN old : j = Len(cut) + k
      BY <1>11, <2>2
    <3> QED BY <1>9, <1>10, <1>12, <2>2, <3>1
  <2>3. CASE i \notin 1..Len(cut)
    <3>1. PICK k \in DOMAIN old : i = Len(cut) + k
      BY <1>11, <2>3
    <3>2. j \notin 1..Len(cut)
      BY <1>2, <1>10, <2>3
    <3>3. PICK m \in DOMAIN old : j = Len(cut) + m
      BY <1>11, <3>2
    <3>4. k < m
      BY <1>2, <1>10, <3>1, <3>3
    <3> QED BY <1>9, <1>10, <3>1, <3>3, <3>4 DEF InKeyOrder
  <2> QED BY <2>1, <2>2, <2>3
<1>14. ASSUME Len(raw) > PageLimit
       PROVE  /\ turned # <<>> /\ all # <<>> /\ all[1] = turned[1]
              /\ turned[1] = cut[Len(cut)]
  <2>1. 1 \in 1..Len(cut) /\ Len(cut) # 0
    BY <1>2, <1>14, PageNumbers
  <2>2. Len(all) # 0 /\ Len(turned) # 0
    BY <1>2, <1>8, <1>9, <1>10, <2>1
  <2>3. (Len(cut) - 1) + 1 = Len(cut)
    BY <1>2
  <2> QED BY <1>6, <1>9, <2>1, <2>2, <2>3
<1>15. ASSUME NEW r \in steady
       PROVE  Among(all, r) \/ (Len(raw) > PageLimit /\ Precedes(key, r, cut[Len(cut)]))
  <2>1. \A i \in DOMAIN old : Len(cut) + i \in DOMAIN all /\ all[Len(cut) + i] = old[i]
    BY <1>2, <1>9, <1>10
  <2>2. \A i \in DOMAIN cut : \E j \in DOMAIN all : all[j] = cut[i]
    <3> SUFFICES ASSUME NEW i \in 1..Len(cut)
                 PROVE  \E j \in DOMAIN all : all[j] = cut[i]
      BY <1>2
    <3>1. PICK j \in 1..Len(cut) : (Len(cut) - j) + 1 = i
      BY <1>7
    <3>2. j \in DOMAIN all
      BY <1>2, <1>9, <1>10
    <3> QED BY <1>6, <1>9, <3>1, <3>2
  <2>3. CASE Among(old, r)
    <3>1. PICK i \in DOMAIN old : old[i] = r
      BY <2>3 DEF Among
    <3> QED BY <2>1, <3>1 DEF Among
  <2>4. CASE r \in Beyond(key, cursor, "backward")
    BY <1>3, <2>2, <2>4 DEF Among
  <2> QED BY <2>3, <2>4
<1> QED BY <1>1, <1>4, <1>5, <1>8, <1>9, <1>13, <1>14, <1>15

-----------------------------------------------------------------------------
(* The invariant *)

PageTyped ==
  /\ page.pc \in {"none", "keyset", "offset"}
  /\ \A i \in DOMAIN page.rows : page.rows[i] \in TableRows
  /\ page.next # NoCursor => page.next.direction = "forward"
  /\ page.previous # NoCursor => page.previous.direction = "backward"

AskedTyped ==
  /\ asked = [pc |-> asked.pc, cursor |-> asked.cursor, direction |-> asked.direction,
              offset |-> asked.offset, key |-> asked.key]
  /\ asked.pc \in {"idle", "keying", "reading"} /\ asked.offset \in 0..MaxOffset
  /\ asked.direction \in {"none", "forward", "backward"} /\ asked.key \in Seq(KeyColumns)

WalkTyped ==
  /\ walk = [direction |-> walk.direction, steady |-> walk.steady, seen |-> walk.seen,
             key |-> walk.key]
  /\ walk.direction \in {"none", "forward", "backward"} /\ walk.steady \subseteq content
  /\ walk.seen \in Seq(TableRows) /\ walk.key \in Seq(KeyColumns)

\* A request comes from the page before the user, and asks for rows where its cursor points.
RequestSound ==
  /\ asked.pc # "idle" /\ asked.cursor # NoCursor => asked.cursor \in {page.next, page.previous}
  /\ asked.pc = "reading" =>
       /\ asked.direction \in Directions
       /\ asked.cursor # NoCursor => /\ asked.direction = asked.cursor.direction
                                     /\ asked.key = asked.cursor.key

\* A walk has seen the rows up to a cursor, and the rows that were there all the time and
\* were not seen are beyond it.
ForwardSound(seen, key, steady, cursor) ==
  IF cursor = NoCursor THEN \A r \in steady : Among(seen, r)
  ELSE /\ seen # <<>> /\ cursor = CursorFor(seen[Len(seen)], key, "forward")
       /\ \A r \in steady : Among(seen, r) \/ Precedes(key, seen[Len(seen)], r)

BackwardSound(seen, key, steady, previous) ==
  IF previous = NoCursor THEN \A r \in steady : Among(seen, r)
  ELSE /\ seen # <<>> /\ previous = CursorFor(seen[1], key, "backward")
       /\ \A r \in steady : Among(seen, r) \/ Precedes(key, r, seen[1])

WalkSound ==
  /\ walk.direction # "none" => Exact(walk.key) /\ InKeyOrder(walk.key, walk.seen)
  /\ walk.direction = "forward" => ForwardSound(walk.seen, walk.key, walk.steady, page.next)
  /\ walk.direction = "backward" => BackwardSound(walk.seen, walk.key, walk.steady, page.previous)

TableTyped ==
  /\ content \subseteq TableRows /\ indexes \in IndexLists /\ rights \subseteq WebCapabilities
  /\ churn \in 0..MaxChurn /\ UniqueIn(content, indexes)

PagesInv ==
  TableTyped /\ PageTyped /\ AskedTyped /\ WalkTyped /\ RequestSound /\ WalkSound

LEMMA EmptyWalk ==
  /\ NoWalk = [direction |-> NoWalk.direction, steady |-> NoWalk.steady, seen |-> NoWalk.seen,
               key |-> NoWalk.key]
  /\ NoWalk.direction = "none" /\ NoWalk.steady = {} /\ NoWalk.seen \in Seq(TableRows)
  /\ NoWalk.key \in Seq(KeyColumns)
  BY DEF NoWalk

LEMMA IdleTyped ==
  /\ Idle = [pc |-> Idle.pc, cursor |-> Idle.cursor, direction |-> Idle.direction,
             offset |-> Idle.offset, key |-> Idle.key]
  /\ Idle.pc = "idle" /\ Idle.offset \in 0..MaxOffset /\ Idle.direction = "none"
  /\ Idle.key \in Seq(KeyColumns)
<1>1. 0 \in 0..MaxOffset
  BY PagesAssumption
<1> QED BY <1>1 DEF Idle

LEMMA CursorsDiffer ==
  ASSUME NEW entry, NEW key, NEW direction \in Directions
  PROVE  /\ CursorFor(entry, key, direction) # NoCursor
         /\ CursorFor(entry, key, direction).direction = direction
         /\ CursorFor(entry, key, direction).key = key
  BY DEF CursorFor, NoCursor, Directions

LEMMA PagesStart == PagesInit => PagesInv
<1> SUFFICES ASSUME PagesInit PROVE PagesInv
  OBVIOUS
<1>1. TableTyped
  <2>1. 0 \in 0..MaxChurn
    BY PagesAssumption
  <2>2. Expand({"data-read"}) \subseteq WebCapabilities
    BY DEF Expand, WebCapabilities
  <2> QED BY <2>1, <2>2 DEF PagesInit, TableTyped
<1>2. PageTyped
  BY DEF PagesInit, PageTyped, NoPage
<1>3. AskedTyped
  BY IdleTyped DEF PagesInit, AskedTyped
<1>4. WalkTyped /\ WalkSound
  BY EmptyWalk DEF PagesInit, WalkTyped, WalkSound
<1>5. RequestSound
  BY IdleTyped DEF PagesInit, RequestSound
<1> QED BY <1>1, <1>2, <1>3, <1>4, <1>5 DEF PagesInv

\* A key that is found tells the rows apart, as long as it is the key of the table.
LEMMA KeyDistinguishes ==
  ASSUME TableTyped
  PROVE  PageKey \in Seq(KeyColumns) /\ (PageKey # <<>> => Distinct(content, PageKey))
<1> DEFINE fit == {i \in DOMAIN indexes : indexes[i].whole /\ indexes[i].filled}
<1>1. CASE fit = {}
  BY <1>1 DEF PageKey
<1>2. CASE fit # {}
  <2>1. indexes \in Seq([columns : Seq(KeyColumns), whole : BOOLEAN, filled : BOOLEAN])
    BY PagesAssumption DEF TableTyped, KeyColumns
  <2>2. DOMAIN indexes \subseteq Nat
    BY <2>1, LenProperties
  <2>3. \E i \in fit : \A j \in fit : i <= j
    <3>1. fit \subseteq Nat
      BY <2>2
    <3> HIDE DEF fit
    <3> QED BY <1>2, <3>1, LeastPlace
  <2>4. PICK k \in fit : PageKey = indexes[k].columns
    <3>1. (CHOOSE i \in fit : \A j \in fit : i <= j) \in fit
      BY <2>3
    <3> QED BY <1>2, <3>1 DEF PageKey
  <2>5. indexes[k] \in [columns : Seq(KeyColumns), whole : BOOLEAN, filled : BOOLEAN]
    BY <2>1, <2>4, ElementOfSeq, LenProperties
  <2>6. Distinct(content, indexes[k].columns)
    BY <2>4 DEF TableTyped, UniqueIn
  <2> QED BY <2>4, <2>5, <2>6
<1> QED BY <1>1, <1>2

LEMMA InsertStep ==
  ASSUME PagesInv, NEW r \in TableRows, InsertRow(r)
  PROVE  PagesInv'
<1> USE DEF PagesInv, InsertRow, Churned
<1>1. TableTyped'
  <2>1. churn' \in 0..MaxChurn
    BY PagesAssumption DEF TableTyped
  <2> QED BY <2>1 DEF TableTyped, UniqueIn
<1>2. WalkTyped'
  BY DEF WalkTyped
<1> QED BY <1>1, <1>2 DEF PageTyped, AskedTyped, RequestSound, WalkSound

LEMMA DeleteStep ==
  ASSUME PagesInv, NEW r, DeleteRow(r)
  PROVE  PagesInv'
<1> USE DEF PagesInv, DeleteRow, Churned
<1>1. TableTyped'
  <2>1. churn' \in 0..MaxChurn
    BY PagesAssumption DEF TableTyped
  <2>2. UniqueIn(content', indexes)
    BY DEF TableTyped, UniqueIn, Distinct
  <2> QED BY <2>1, <2>2 DEF TableTyped
<1>2. walk' = [direction |-> walk.direction, steady |-> walk.steady \ {r}, seen |-> walk.seen,
               key |-> walk.key]
  BY DEF WalkTyped
<1>3. WalkTyped'
  BY <1>2 DEF WalkTyped
<1>4. WalkSound'
  <2>1. /\ walk'.direction = walk.direction /\ walk'.seen = walk.seen /\ walk'.key = walk.key
        /\ walk'.steady \subseteq walk.steady
    BY <1>2
  <2>2. UNCHANGED page
    OBVIOUS
  <2>3. \A seen, key, cursor : ForwardSound(seen, key, walk.steady, cursor)
                              => ForwardSound(seen, key, walk'.steady, cursor)
    BY <2>1 DEF ForwardSound
  <2>4. \A seen, key, previous : BackwardSound(seen, key, walk.steady, previous)
                                  => BackwardSound(seen, key, walk'.steady, previous)
    BY <2>1 DEF BackwardSound
  <2> QED BY <2>1, <2>2, <2>3, <2>4 DEF WalkSound
<1> QED BY <1>1, <1>3, <1>4 DEF PageTyped, AskedTyped, RequestSound

LEMMA SurroundingsStep ==
  ASSUME PagesInv, \/ \E list \in IndexLists : AlterIndexes(list)
                   \/ \E requested \in Grants : Assign(requested)
                   \/ Revoke
  PROVE  PagesInv'
<1> USE DEF PagesInv
<1>1. TableTyped'
  <2>1. churn' \in 0..MaxChurn
    BY PagesAssumption DEF TableTyped, AlterIndexes, Assign, Revoke, Churned
  <2>2. rights' \subseteq WebCapabilities
    <3>1. \A requested \in Grants : Expand(requested) \subseteq WebCapabilities
      BY GrantsAssumption DEF Expand, WebCapabilities
    <3> QED BY <3>1 DEF TableTyped, AlterIndexes, Assign, Revoke
  <2>3. indexes' \in IndexLists /\ UniqueIn(content, indexes') /\ content' = content
    BY DEF TableTyped, AlterIndexes, Assign, Revoke
  <2> QED BY <2>1, <2>2, <2>3 DEF TableTyped
<1>2. UNCHANGED <<content, asked, page, walk>>
  BY DEF AlterIndexes, Assign, Revoke
<1> QED BY <1>1, <1>2 DEF PageTyped, AskedTyped, WalkTyped, RequestSound, WalkSound

\* A request that is refused leaves the page and the walk.
LEMMA RefusedStep ==
  ASSUME PagesInv, Refuse, UNCHANGED <<content, indexes, rights, walk, churn>>
  PROVE  PagesInv'
<1> USE DEF PagesInv, Refuse
<1>1. AskedTyped'
  BY IdleTyped DEF AskedTyped
<1>2. RequestSound'
  BY IdleTyped DEF RequestSound
<1> QED BY <1>1, <1>2 DEF TableTyped, PageTyped, WalkTyped, WalkSound

LEMMA OneAskStep ==
  ASSUME PagesInv, NEW cursor, NEW direction \in {"none", "forward", "backward"},
         NEW offset \in 0..MaxOffset, AskPage(cursor, direction, offset),
         cursor # NoCursor => cursor \in {page.next, page.previous}
  PROVE  PagesInv'
<1> USE DEF PagesInv
<1>1. CASE "data-read" \in rights
  <2>1. asked' = [pc |-> "keying", cursor |-> cursor, direction |-> direction, offset |-> offset,
                  key |-> <<>>]
    BY <1>1 DEF AskPage, Idle
  <2>2. UNCHANGED <<page, content, indexes, rights, walk, churn>>
    BY <1>1 DEF AskPage
  <2>3. AskedTyped' /\ RequestSound'
    BY <2>1, <2>2 DEF AskedTyped, RequestSound
  <2> QED BY <2>2, <2>3 DEF TableTyped, PageTyped, WalkTyped, WalkSound
<1>2. CASE "data-read" \notin rights
  BY <1>2, RefusedStep DEF AskPage
<1> QED BY <1>1, <1>2

LEMMA AskStep ==
  ASSUME PagesInv, AskForPage
  PROVE  PagesInv'
<1>1. 0 \in 0..MaxOffset /\ 1..MaxOffset \subseteq 0..MaxOffset
  BY PagesAssumption
<1>2. CASE \E direction \in {"none", "forward", "backward"} : AskPage(NoCursor, direction, 0)
  BY <1>1, <1>2, OneAskStep
<1>3. CASE \E cursor \in {page.next, page.previous} \ {NoCursor} : AskPage(cursor, "none", 0)
  <2>1. PICK cursor \in {page.next, page.previous} \ {NoCursor} : AskPage(cursor, "none", 0)
    BY <1>3
  <2> QED BY <1>1, <2>1, OneAskStep
<1>4. CASE page.offset \in 1..MaxOffset /\ AskPage(NoCursor, "none", page.offset)
  BY <1>1, <1>4, OneAskStep
<1> QED BY <1>2, <1>3, <1>4 DEF AskForPage

LEMMA FindStep ==
  ASSUME PagesInv, FindKey
  PROVE  PagesInv'
<1> USE DEF PagesInv
<1> DEFINE refused == \/ asked.cursor # NoCursor /\ asked.cursor.key # PageKey
                      \/ PageKey = <<>> /\ asked.direction # "none"
           towards == IF asked.cursor # NoCursor THEN asked.cursor.direction
                      ELSE IF asked.direction = "none" THEN "forward" ELSE asked.direction
<1>1. CASE refused
  BY <1>1, RefusedStep DEF FindKey
<1>2. CASE ~refused
  <2>1. /\ asked.pc = "keying" /\ UNCHANGED <<page, content, indexes, rights, walk, churn>>
        /\ asked' = [asked EXCEPT !.pc = "reading", !.key = PageKey, !.direction = towards]
    BY <1>2 DEF FindKey
  <2>2. asked' = [pc |-> "reading", cursor |-> asked.cursor, direction |-> towards,
                  offset |-> asked.offset, key |-> PageKey]
    BY <2>1 DEF AskedTyped
  <2>3. towards \in Directions
    BY <2>1 DEF PageTyped, AskedTyped, RequestSound, Directions
  <2>4. asked.cursor # NoCursor => asked.cursor.key = PageKey
    BY <1>2
  <2>5. asked.cursor # NoCursor => towards = asked.cursor.direction
    OBVIOUS
  <2> HIDE DEF refused, towards
  <2>6. AskedTyped'
    BY <2>2, <2>3, KeyDistinguishes DEF AskedTyped, Directions
  <2>7. RequestSound'
    BY <2>1, <2>2, <2>3, <2>4, <2>5 DEF RequestSound
  <2> QED BY <2>1, <2>6, <2>7 DEF TableTyped, PageTyped, WalkTyped, WalkSound
<1> QED BY <1>1, <1>2

\* What a page in the direction of a walk has for it.
LEMMA PageAnswerFacts ==
  ASSUME NEW key \in Seq(KeyColumns), NEW cursor, NEW direction \in Directions,
         content \subseteq TableRows, NEW raw \in Selections(key, cursor, direction)
  PROVE  LET answer == KeysetPage(raw, key, cursor, direction)
         IN /\ answer.pc \in {"error", "keyset"}
            /\ \A i \in DOMAIN answer.rows : answer.rows[i] \in TableRows
            /\ answer.next # NoCursor => answer.next.direction = "forward"
            /\ answer.previous # NoCursor => answer.previous.direction = "backward"
            /\ direction = "forward" =>
                 /\ answer.rows = CutOf(raw)
                 /\ answer.next = IF Len(raw) > PageLimit
                                  THEN CursorFor(CutOf(raw)[Len(CutOf(raw))], key, "forward")
                                  ELSE NoCursor
            /\ direction = "backward" =>
                 /\ answer.rows = Reverse(CutOf(raw))
                 /\ answer.previous = IF Len(raw) > PageLimit
                                      THEN CursorFor(Reverse(CutOf(raw))[1], key, "backward")
                                      ELSE NoCursor
<1> DEFINE answer == KeysetPage(raw, key, cursor, direction)
<1>1. /\ raw \in Seq(content) /\ Len(raw) \in 0..(PageLimit + 1)
  BY RawFacts
<1>2. /\ CutOf(raw) \in Seq(content) /\ Len(CutOf(raw)) \in Nat
      /\ DOMAIN CutOf(raw) = 1..Len(CutOf(raw))
      /\ Len(raw) > PageLimit => CutOf(raw) # <<>>
  BY <1>1, CutFacts
<1>3. \A i \in 1..Len(CutOf(raw)) : (Len(CutOf(raw)) - i) + 1 \in 1..Len(CutOf(raw))
  BY <1>2
<1>4. /\ DOMAIN Reverse(CutOf(raw)) = 1..Len(CutOf(raw))
      /\ \A i \in 1..Len(CutOf(raw)) : Reverse(CutOf(raw))[i] \in content
  BY <1>2, <1>3, ElementOfSeq DEF Reverse
<1>5. Len(raw) > PageLimit => Reverse(CutOf(raw)) # <<>>
  <2>1. CutOf(raw) # <<>> => Len(CutOf(raw)) # 0
    BY <1>2, EmptySeq
  <2>2. Len(CutOf(raw)) # 0 => 1 \in DOMAIN Reverse(CutOf(raw))
    BY <1>2, <1>4
  <2> QED BY <1>2, <2>1, <2>2
<1>6. answer.rows = IF direction = "backward" THEN Reverse(CutOf(raw)) ELSE CutOf(raw)
  BY DEF KeysetPage, CutOf
<1>7. answer.pc \in {"error", "keyset"}
  BY DEF KeysetPage
<1>8. answer.next # NoCursor => answer.next.direction = "forward"
  BY DEF KeysetPage, CursorFor
<1>9. answer.previous # NoCursor => answer.previous.direction = "backward"
  BY DEF KeysetPage, CursorFor
<1>10. direction = "forward" =>
         answer.next = IF Len(raw) > PageLimit
                       THEN CursorFor(CutOf(raw)[Len(CutOf(raw))], key, "forward") ELSE NoCursor
  BY <1>2 DEF KeysetPage, CutOf, Last
<1>11. direction = "backward" =>
         answer.previous = IF Len(raw) > PageLimit
                           THEN CursorFor(Reverse(CutOf(raw))[1], key, "backward") ELSE NoCursor
  BY <1>5 DEF KeysetPage, CutOf
<1>12. \A i \in DOMAIN answer.rows : answer.rows[i] \in TableRows
  <2>1. \A i \in 1..Len(CutOf(raw)) : CutOf(raw)[i] \in content
    BY <1>2, ElementOfSeq
  <2> QED BY <1>2, <1>4, <1>6, <2>1
<1> QED BY <1>6, <1>7, <1>8, <1>9, <1>10, <1>11, <1>12 DEF Directions

\* A walk forward goes on where its cursor points, and what it has not seen lies beyond.
LEMMA ForwardWalk ==
  ASSUME PagesInv, asked.pc = "reading", asked.direction = "forward",
         asked.key # <<>>, Exact(asked.key), PageKey = asked.key,
         NEW raw \in Selections(asked.key, asked.cursor, "forward"), NEW old, NEW steady,
         \/ asked.cursor = NoCursor /\ old = <<>> /\ steady = content
         \/ asked.cursor # NoCursor /\ walk.direction = "forward" /\ old = walk.seen
            /\ steady = walk.steady,
         NEW ahead, ahead = IF Len(raw) > PageLimit
                            THEN CursorFor(CutOf(raw)[Len(CutOf(raw))], asked.key, "forward")
                            ELSE NoCursor
  PROVE  /\ asked.cursor # NoCursor => walk.key = asked.key
         /\ old \o CutOf(raw) \in Seq(TableRows)
         /\ InKeyOrder(asked.key, old \o CutOf(raw))
         /\ ForwardSound(old \o CutOf(raw), asked.key, steady, ahead)
<1> USE DEF PagesInv
<1>1. content \subseteq TableRows /\ asked.key \in Seq(KeyColumns) /\ Distinct(content, asked.key)
      /\ content \subseteq [KeyColumns -> Int] /\ TableRows \subseteq [KeyColumns -> Int]
  BY KeyDistinguishes, PagesAssumption DEF TableTyped, AskedTyped, KeyColumns
<1>2. /\ asked.cursor # NoCursor => walk.key = asked.key
      /\ old \in Seq(TableRows) /\ InKeyOrder(asked.key, old)
      /\ \A r \in steady : Among(old, r) \/ r \in Beyond(asked.key, asked.cursor, "forward")
      /\ \A i \in DOMAIN old : \A r \in Beyond(asked.key, asked.cursor, "forward") :
           Precedes(asked.key, old[i], r)
  <2>1. CASE asked.cursor = NoCursor
    <3>1. old = <<>> /\ steady = content
      BY <2>1
    <3>2. Beyond(asked.key, asked.cursor, "forward") = content
      BY <2>1 DEF Beyond
    <3>3. old \in Seq(TableRows) /\ DOMAIN old = {}
      BY <3>1
    <3> QED BY <2>1, <3>1, <3>2, <3>3 DEF InKeyOrder
  <2>2. CASE asked.cursor # NoCursor
    <3>1. walk.direction = "forward" /\ old = walk.seen /\ steady = walk.steady
      BY <2>2
    <3>2. asked.cursor.direction = "forward" /\ asked.key = asked.cursor.key
      BY <2>2 DEF RequestSound
    <3>3. asked.cursor = page.next
      BY <2>2, <3>2 DEF RequestSound, PageTyped
    <3>4. ForwardSound(old, walk.key, steady, page.next) /\ InKeyOrder(walk.key, old)
      BY <3>1 DEF WalkSound
    <3>5. old \in Seq(TableRows) /\ steady \subseteq content
      BY <3>1 DEF WalkTyped
    <3>6. old # <<>> /\ asked.cursor = CursorFor(old[Len(old)], walk.key, "forward")
      BY <2>2, <3>3, <3>4 DEF ForwardSound
    <3>7. walk.key = asked.key
      BY <3>2, <3>6 DEF CursorFor
    <3>8. PICK last : last = old[Len(old)]
      OBVIOUS
    <3>9. Len(old) \in DOMAIN old /\ last \in TableRows /\ DOMAIN old = 1..Len(old) /\ Len(old) \in Nat
      <4>1. Len(old) \in Nat /\ DOMAIN old = 1..Len(old) /\ Len(old) # 0
        BY <3>5, <3>6, EmptySeq, LenProperties
      <4>2. Len(old) \in 1..Len(old)
        BY <4>1
      <4> QED BY <3>5, <3>8, <4>1, <4>2, ElementOfSeq
    <3>10. \A r \in content : r \in Beyond(asked.key, asked.cursor, "forward")
                                <=> Precedes(asked.key, last, r)
      <4>1. "forward" \in Directions
        BY DEF Directions
      <4>2. \A r \in TableRows : InOrder(asked.key, "forward", asked.cursor.values, r)
                                   <=> InOrder(asked.key, "forward", last, r)
        BY <1>1, <3>6, <3>7, <3>8, <3>9, <4>1, CursorOrders
      <4> QED BY <1>1, <2>2, <4>2 DEF Beyond, InOrder
    <3>11. \A r \in steady : Among(old, r) \/ Precedes(asked.key, last, r)
      BY <2>2, <3>3, <3>4, <3>7, <3>8 DEF ForwardSound
    <3>12. ASSUME NEW i \in DOMAIN old, NEW r \in Beyond(asked.key, asked.cursor, "forward")
           PROVE  Precedes(asked.key, old[i], r)
      <4>1. r \in content /\ Precedes(asked.key, last, r)
        BY <3>10 DEF Beyond
      <4>2. i = Len(old) \/ i < Len(old)
        BY <3>9
      <4>3. CASE i = Len(old)
        BY <3>8, <4>1, <4>3
      <4>4. CASE i < Len(old)
        <5>1. Precedes(asked.key, old[i], last)
          BY <3>4, <3>7, <3>8, <3>9, <4>4 DEF InKeyOrder
        <5>2. old[i] \in TableRows
          BY <3>5, <3>9, ElementOfSeq
        <5>3. old[i] \in [KeyColumns -> Int] /\ last \in [KeyColumns -> Int] /\ r \in [KeyColumns -> Int]
          BY <1>1, <3>9, <4>1, <5>2
        <5> QED BY <1>1, <4>1, <5>1, <5>3, PrecedesTransitive
      <4> QED BY <4>2, <4>3, <4>4
    <3> QED BY <3>4, <3>5, <3>7, <3>10, <3>11, <3>12
  <2> QED BY <2>1, <2>2
<1>3. /\ old \o CutOf(raw) \in Seq(TableRows)
      /\ InKeyOrder(asked.key, old \o CutOf(raw))
      /\ Len(raw) > PageLimit =>
           /\ old \o CutOf(raw) # <<>>
           /\ (old \o CutOf(raw))[Len(old \o CutOf(raw))] = CutOf(raw)[Len(CutOf(raw))]
      /\ \A r \in steady :
           \/ Among(old \o CutOf(raw), r)
           \/ Len(raw) > PageLimit /\ Precedes(asked.key, CutOf(raw)[Len(CutOf(raw))], r)
  BY <1>1, <1>2, ForwardExtends
<1>4. CASE Len(raw) > PageLimit
  <2>1. ahead # NoCursor
    BY <1>4, CursorsDiffer DEF Directions
  <2> QED BY <1>2, <1>3, <1>4, <2>1 DEF ForwardSound
<1>5. CASE ~(Len(raw) > PageLimit)
  BY <1>2, <1>3, <1>5 DEF ForwardSound
<1> QED BY <1>4, <1>5

LEMMA BackwardWalk ==
  ASSUME PagesInv, asked.pc = "reading", asked.direction = "backward",
         asked.key # <<>>, Exact(asked.key), PageKey = asked.key,
         NEW raw \in Selections(asked.key, asked.cursor, "backward"), NEW old, NEW steady,
         \/ asked.cursor = NoCursor /\ old = <<>> /\ steady = content
         \/ asked.cursor # NoCursor /\ walk.direction = "backward" /\ old = walk.seen
            /\ steady = walk.steady,
         NEW back, back = IF Len(raw) > PageLimit
                          THEN CursorFor(Reverse(CutOf(raw))[1], asked.key, "backward")
                          ELSE NoCursor
  PROVE  /\ asked.cursor # NoCursor => walk.key = asked.key
         /\ Reverse(CutOf(raw)) \in Seq(TableRows)
         /\ Reverse(CutOf(raw)) \o old \in Seq(TableRows)
         /\ InKeyOrder(asked.key, Reverse(CutOf(raw)) \o old)
         /\ BackwardSound(Reverse(CutOf(raw)) \o old, asked.key, steady, back)
<1> USE DEF PagesInv
<1>1. content \subseteq TableRows /\ asked.key \in Seq(KeyColumns) /\ Distinct(content, asked.key)
      /\ content \subseteq [KeyColumns -> Int] /\ TableRows \subseteq [KeyColumns -> Int]
  BY KeyDistinguishes, PagesAssumption DEF TableTyped, AskedTyped, KeyColumns
<1>2. /\ asked.cursor # NoCursor => walk.key = asked.key
      /\ old \in Seq(TableRows) /\ InKeyOrder(asked.key, old)
      /\ \A r \in steady : Among(old, r) \/ r \in Beyond(asked.key, asked.cursor, "backward")
      /\ \A i \in DOMAIN old : \A r \in Beyond(asked.key, asked.cursor, "backward") :
           Precedes(asked.key, r, old[i])
  <2>1. CASE asked.cursor = NoCursor
    <3>1. old = <<>> /\ steady = content
      BY <2>1
    <3>2. Beyond(asked.key, asked.cursor, "backward") = content
      BY <2>1 DEF Beyond
    <3>3. old \in Seq(TableRows) /\ DOMAIN old = {}
      BY <3>1
    <3> QED BY <2>1, <3>1, <3>2, <3>3 DEF InKeyOrder
  <2>2. CASE asked.cursor # NoCursor
    <3>1. walk.direction = "backward" /\ old = walk.seen /\ steady = walk.steady
      BY <2>2
    <3>2. asked.cursor.direction = "backward" /\ asked.key = asked.cursor.key
      BY <2>2 DEF RequestSound
    <3>3. asked.cursor = page.previous
      BY <2>2, <3>2 DEF RequestSound, PageTyped
    <3>4. BackwardSound(old, walk.key, steady, page.previous) /\ InKeyOrder(walk.key, old)
      BY <3>1 DEF WalkSound
    <3>5. old \in Seq(TableRows) /\ steady \subseteq content
      BY <3>1 DEF WalkTyped
    <3>6. old # <<>> /\ asked.cursor = CursorFor(old[1], walk.key, "backward")
      BY <2>2, <3>3, <3>4 DEF BackwardSound
    <3>7. walk.key = asked.key
      BY <3>2, <3>6 DEF CursorFor
    <3>8. PICK first : first = old[1]
      OBVIOUS
    <3>9. 1 \in DOMAIN old /\ first \in TableRows /\ DOMAIN old = 1..Len(old) /\ Len(old) \in Nat
      <4>1. Len(old) \in Nat /\ DOMAIN old = 1..Len(old) /\ Len(old) # 0
        BY <3>5, <3>6, EmptySeq, LenProperties
      <4>2. 1 \in 1..Len(old)
        BY <4>1
      <4> QED BY <3>5, <3>8, <4>1, <4>2, ElementOfSeq
    <3>10. \A r \in content : r \in Beyond(asked.key, asked.cursor, "backward")
                                <=> Precedes(asked.key, r, first)
      <4>1. "backward" \in Directions
        BY DEF Directions
      <4>2. \A r \in TableRows : InOrder(asked.key, "backward", asked.cursor.values, r)
                                   <=> InOrder(asked.key, "backward", first, r)
        BY <1>1, <3>6, <3>7, <3>8, <3>9, <4>1, CursorOrders
      <4> QED BY <1>1, <2>2, <4>2 DEF Beyond, InOrder
    <3>11. \A r \in steady : Among(old, r) \/ Precedes(asked.key, r, first)
      BY <2>2, <3>3, <3>4, <3>7, <3>8 DEF BackwardSound
    <3>12. ASSUME NEW i \in DOMAIN old, NEW r \in Beyond(asked.key, asked.cursor, "backward")
           PROVE  Precedes(asked.key, r, old[i])
      <4>1. r \in content /\ Precedes(asked.key, r, first)
        BY <3>10 DEF Beyond
      <4>2. i = 1 \/ 1 < i
        BY <3>9
      <4>3. CASE i = 1
        BY <3>8, <4>1, <4>3
      <4>4. CASE 1 < i
        <5>1. Precedes(asked.key, first, old[i])
          BY <3>4, <3>7, <3>8, <3>9, <4>4 DEF InKeyOrder
        <5>2. old[i] \in TableRows
          BY <3>5, <3>9, ElementOfSeq
        <5>3. old[i] \in [KeyColumns -> Int] /\ first \in [KeyColumns -> Int] /\ r \in [KeyColumns -> Int]
          BY <1>1, <3>9, <4>1, <5>2
        <5> QED BY <1>1, <4>1, <5>1, <5>3, PrecedesTransitive
      <4> QED BY <4>2, <4>3, <4>4
    <3> QED BY <3>4, <3>5, <3>7, <3>10, <3>11, <3>12
  <2> QED BY <2>1, <2>2
<1>3. /\ Reverse(CutOf(raw)) \in Seq(TableRows)
      /\ Reverse(CutOf(raw)) \o old \in Seq(TableRows)
      /\ InKeyOrder(asked.key, Reverse(CutOf(raw)) \o old)
      /\ Len(raw) > PageLimit =>
           /\ Reverse(CutOf(raw)) \o old # <<>>
           /\ (Reverse(CutOf(raw)) \o old)[1] = Reverse(CutOf(raw))[1]
      /\ \A r \in steady :
           \/ Among(Reverse(CutOf(raw)) \o old, r)
           \/ Len(raw) > PageLimit /\ Precedes(asked.key, r, Reverse(CutOf(raw))[1])
  BY <1>1, <1>2, BackwardExtends
<1>4. CASE Len(raw) > PageLimit
  <2>1. back # NoCursor
    BY <1>4, CursorsDiffer DEF Directions
  <2> QED BY <1>2, <1>3, <1>4, <2>1 DEF BackwardSound
<1>5. CASE ~(Len(raw) > PageLimit)
  BY <1>2, <1>3, <1>5 DEF BackwardSound
<1> QED BY <1>4, <1>5

\* A page that is delivered, and the walk it begins, continues or breaks off.
LEMMA DeliveredStep ==
  ASSUME PagesInv, asked.pc = "reading", asked.key # <<>>,
         NEW raw \in Selections(asked.key, asked.cursor, asked.direction),
         NEW answer, answer = KeysetPage(raw, asked.key, asked.cursor, asked.direction),
         answer.pc # "error", Deliver(answer), walk' = Walked(answer),
         UNCHANGED <<content, indexes, rights, churn>>
  PROVE  PagesInv'
<1> USE DEF PagesInv
<1>1. content \subseteq TableRows /\ asked.key \in Seq(KeyColumns) /\ asked.direction \in Directions
  BY DEF TableTyped, AskedTyped, RequestSound
<1>2. page' = answer /\ asked' = Idle
  BY DEF Deliver
<1>3. /\ answer.pc \in {"error", "keyset"}
      /\ \A i \in DOMAIN answer.rows : answer.rows[i] \in TableRows
      /\ answer.next # NoCursor => answer.next.direction = "forward"
      /\ answer.previous # NoCursor => answer.previous.direction = "backward"
      /\ asked.direction = "forward" =>
           /\ answer.rows = CutOf(raw)
           /\ answer.next = IF Len(raw) > PageLimit
                            THEN CursorFor(CutOf(raw)[Len(CutOf(raw))], asked.key, "forward")
                            ELSE NoCursor
      /\ asked.direction = "backward" =>
           /\ answer.rows = Reverse(CutOf(raw))
           /\ answer.previous = IF Len(raw) > PageLimit
                                THEN CursorFor(Reverse(CutOf(raw))[1], asked.key, "backward")
                                ELSE NoCursor
  BY <1>1, PageAnswerFacts
<1>4. TableTyped' /\ PageTyped' /\ AskedTyped' /\ RequestSound'
  <2>1. TableTyped'
    BY DEF TableTyped
  <2>2. PageTyped'
    BY <1>2, <1>3 DEF PageTyped
  <2>3. AskedTyped' /\ RequestSound'
    BY <1>2, IdleTyped DEF AskedTyped, RequestSound
  <2> QED BY <2>1, <2>2, <2>3
<1>5. CASE walk' = NoWalk
  <2>1. WalkTyped'
    BY <1>5, EmptyWalk DEF WalkTyped
  <2>2. WalkSound'
    BY <1>5, EmptyWalk DEF WalkSound
  <2> QED BY <1>4, <2>1, <2>2
<1>6. CASE walk' # NoWalk
  <2>1. Exact(asked.key) /\ PageKey = asked.key
    BY <1>6 DEF Walked
  <2>2. PICK old, steady :
          /\ \/ asked.cursor = NoCursor /\ old = <<>> /\ steady = content
             \/ asked.cursor # NoCursor /\ walk.direction = asked.direction /\ old = walk.seen
                /\ steady = walk.steady
          /\ asked.direction = "forward" => walk'.seen = old \o answer.rows
          /\ asked.direction = "backward" => walk'.seen = answer.rows \o old
          /\ walk' = [direction |-> asked.direction, steady |-> steady, seen |-> walk'.seen,
                      key |-> IF asked.cursor = NoCursor THEN asked.key ELSE walk.key]
    <3>1. CASE asked.cursor = NoCursor
      <4>1. walk' = [direction |-> asked.direction, steady |-> content, seen |-> answer.rows,
                     key |-> asked.key]
        BY <2>1, <3>1 DEF Walked
      <4>2. answer.rows = <<>> \o answer.rows /\ answer.rows = answer.rows \o <<>>
        <5>1. answer.rows \in Seq(TableRows)
          <6>1. CutOf(raw) \in Seq(content) /\ Len(CutOf(raw)) \in Nat
            BY <1>1, RawFacts, CutFacts
          <6>2. CASE asked.direction = "forward"
            BY <1>1, <1>3, <6>1, <6>2
          <6>3. CASE asked.direction = "backward"
            <7>1. <<>> \in Seq(TableRows)
              OBVIOUS
            <7>2. Reverse(CutOf(raw)) = [i \in 1..Len(CutOf(raw)) |->
                                          CutOf(raw)[(Len(CutOf(raw)) - i) + 1]]
              BY DEF Reverse
            <7>3. \A i \in 1..Len(CutOf(raw)) : CutOf(raw)[(Len(CutOf(raw)) - i) + 1] \in TableRows
              <8>1. \A i \in 1..Len(CutOf(raw)) :
                      (Len(CutOf(raw)) - i) + 1 \in 1..Len(CutOf(raw))
                BY <6>1
              <8> QED BY <1>1, <6>1, <8>1, ElementOfSeq
            <7>4. Reverse(CutOf(raw)) \in Seq(TableRows)
              BY <6>1, <7>2, <7>3
            <7> QED BY <1>3, <6>3, <7>1, <7>4
          <6> QED BY <1>1, <6>2, <6>3 DEF Directions
        <5> QED BY <5>1, ConcatEmptySeq
      <4>3. walk'.seen = answer.rows
        BY <4>1
      <4> WITNESS <<>>, content
      <4> QED BY <3>1, <4>1, <4>2, <4>3
    <3>2. CASE asked.cursor # NoCursor
      <4>1. walk.direction = asked.direction
        BY <1>6, <2>1, <3>2 DEF Walked
      <4>2. walk' = [walk EXCEPT !.seen = IF asked.direction = "forward" THEN @ \o answer.rows
                                          ELSE answer.rows \o @]
        BY <2>1, <3>2, <4>1 DEF Walked
      <4>3. PICK got :
              /\ got = IF asked.direction = "forward" THEN walk.seen \o answer.rows
                       ELSE answer.rows \o walk.seen
              /\ walk' = [direction |-> walk.direction, steady |-> walk.steady, seen |-> got,
                          key |-> walk.key]
        BY <4>2 DEF WalkTyped
      <4>4. /\ asked.direction = "forward" => walk'.seen = walk.seen \o answer.rows
            /\ asked.direction = "backward" => walk'.seen = answer.rows \o walk.seen
            /\ walk' = [direction |-> walk.direction, steady |-> walk.steady, seen |-> walk'.seen,
                        key |-> walk.key]
        <5>1. walk'.seen = got
          BY <4>3
        <5>2. asked.direction = "forward" => got = walk.seen \o answer.rows
          BY <4>3
        <5>3. asked.direction = "backward" => got = answer.rows \o walk.seen
          BY <4>3
        <5> QED BY <4>3, <5>1, <5>2, <5>3
      <4> WITNESS walk.seen, walk.steady
      <4> QED BY <3>2, <4>1, <4>4
    <3> QED BY <3>1, <3>2
  <2>3. walk.steady \subseteq content
    BY DEF WalkTyped
  <2>4. steady \subseteq content
    BY <2>2, <2>3
  <2>5. CASE asked.direction = "forward"
    <3>1. /\ asked.cursor # NoCursor => walk.key = asked.key
          /\ old \o CutOf(raw) \in Seq(TableRows)
          /\ InKeyOrder(asked.key, old \o CutOf(raw))
          /\ ForwardSound(old \o CutOf(raw), asked.key, steady, answer.next)
      BY <1>3, <2>1, <2>2, <2>5, ForwardWalk
    <3>2. walk' = [direction |-> "forward", steady |-> steady, seen |-> old \o CutOf(raw),
                   key |-> asked.key]
      BY <1>3, <2>2, <2>5, <3>1
    <3>3. WalkTyped'
      BY <1>1, <2>4, <3>1, <3>2 DEF WalkTyped
    <3>4. WalkSound'
      BY <1>2, <2>1, <3>1, <3>2 DEF WalkSound
    <3> QED BY <1>4, <3>3, <3>4
  <2>6. CASE asked.direction = "backward"
    <3>1. /\ asked.cursor # NoCursor => walk.key = asked.key
          /\ Reverse(CutOf(raw)) \o old \in Seq(TableRows)
          /\ InKeyOrder(asked.key, Reverse(CutOf(raw)) \o old)
          /\ BackwardSound(Reverse(CutOf(raw)) \o old, asked.key, steady, answer.previous)
      BY <1>3, <2>1, <2>2, <2>6, BackwardWalk
    <3>2. walk' = [direction |-> "backward", steady |-> steady,
                   seen |-> Reverse(CutOf(raw)) \o old, key |-> asked.key]
      BY <1>3, <2>2, <2>6, <3>1
    <3>3. WalkTyped'
      BY <1>1, <2>4, <3>1, <3>2 DEF WalkTyped
    <3>4. WalkSound'
      BY <1>2, <2>1, <3>1, <3>2 DEF WalkSound
    <3> QED BY <1>4, <3>3, <3>4
  <2> QED BY <1>1, <2>5, <2>6 DEF Directions
<1> QED BY <1>5, <1>6

LEMMA ReadKeysetStep ==
  ASSUME PagesInv, ReadKeyset
  PROVE  PagesInv'
<1>1. PICK raw \in Selections(asked.key, asked.cursor, asked.direction) :
        LET answer == KeysetPage(raw, asked.key, asked.cursor, asked.direction)
        IN IF answer.pc = "error" THEN Refuse /\ UNCHANGED walk
           ELSE Deliver(answer) /\ walk' = Walked(answer)
  BY DEF ReadKeyset
<1>2. asked.pc = "reading" /\ asked.key # <<>> /\ UNCHANGED <<content, indexes, rights, churn>>
  BY DEF ReadKeyset
<1>3. PICK answer : answer = KeysetPage(raw, asked.key, asked.cursor, asked.direction)
  OBVIOUS
<1>4. CASE answer.pc = "error"
  BY <1>1, <1>2, <1>3, <1>4, RefusedStep
<1>5. CASE answer.pc # "error"
  BY <1>1, <1>2, <1>3, <1>5, DeliveredStep
<1> QED BY <1>4, <1>5

LEMMA ReadOffsetStep ==
  ASSUME PagesInv, ReadOffset
  PROVE  PagesInv'
<1> USE DEF PagesInv
<1>1. PICK answer \in OffsetPages(asked.offset) : Deliver(answer)
  BY DEF ReadOffset
<1>2. page' = answer /\ asked' = Idle /\ walk' = NoWalk
      /\ UNCHANGED <<content, indexes, rights, churn>>
  BY <1>1 DEF ReadOffset, Deliver
<1>3. /\ answer.pc = "offset" /\ answer.next = NoCursor /\ answer.previous = NoCursor
      /\ \A i \in DOMAIN answer.rows : answer.rows[i] \in content
  <2>1. PICK many, ahead : \E f \in [1..many -> content] :
          answer = [pc |-> "offset", rows |-> f, next |-> NoCursor, previous |-> NoCursor,
                    offset |-> ahead]
    BY <1>1 DEF OffsetPages
  <2> QED BY <2>1
<1>4. TableTyped'
  BY <1>2 DEF TableTyped
<1>5. PageTyped'
  BY <1>2, <1>3 DEF PageTyped, TableTyped
<1>6. AskedTyped' /\ RequestSound'
  BY <1>2, IdleTyped DEF AskedTyped, RequestSound
<1>7. WalkTyped' /\ WalkSound'
  <2>1. walk'.direction = "none"
    BY <1>2, EmptyWalk
  <2>2. WalkTyped'
    BY <1>2, EmptyWalk DEF WalkTyped
  <2> QED BY <2>1, <2>2 DEF WalkSound
<1> QED BY <1>4, <1>5, <1>6, <1>7

LEMMA PagesStep == PagesInv /\ [PagesNext]_pageVars => PagesInv'
<1> SUFFICES ASSUME PagesInv, [PagesNext]_pageVars
             PROVE  PagesInv'
  OBVIOUS
<1>1. CASE UNCHANGED pageVars
  BY <1>1 DEF PagesInv, pageVars, TableTyped, PageTyped, AskedTyped, WalkTyped, RequestSound,
              WalkSound
<1>2. CASE \E r \in TableRows : InsertRow(r) \/ DeleteRow(r)
  BY <1>2, InsertStep, DeleteStep
<1>3. CASE \/ \E list \in IndexLists : AlterIndexes(list)
           \/ \E requested \in Grants : Assign(requested)
           \/ Revoke
  BY <1>3, SurroundingsStep
<1>4. CASE AskForPage
  BY <1>4, AskStep
<1>5. CASE FindKey
  BY <1>5, FindStep
<1>6. CASE ReadKeyset
  BY <1>6, ReadKeysetStep
<1>7. CASE ReadOffset
  BY <1>7, ReadOffsetStep
<1>8. CASE PageFails
  BY <1>8, RefusedStep DEF PageFails
<1> QED BY <1>1, <1>2, <1>3, <1>4, <1>5, <1>6, <1>7, <1>8 DEF PagesNext

LEMMA PagesShape == PagesInv => PagesTypeOK
  BY DEF PagesInv, PagesTypeOK, TableTyped, PageTyped, AskedTyped, WalkTyped

\* Pages hold rows of the table, and requests, rights and histories keep their shape.
THEOREM PagesTyped == PagesSpec => []PagesTypeOK
  BY PagesShape, PagesStart, PagesStep, PTL DEF PagesSpec

\* For every table, list of indexes, page size and number of changes: who reads from one
\* end until there is no further page has seen every row that was there all the time, in
\* the order of the key and none twice (keyset-pagination.ts, database-explorer.ts).
THEOREM WalksAreComplete == PagesSpec => []WalkComplete
<1>1. PagesInv => WalkComplete
  <2> SUFFICES ASSUME PagesInv, WalkedToTheEnd
               PROVE  /\ walk.steady \subseteq ToSet(walk.seen)
                      /\ \A i, j \in DOMAIN walk.seen :
                           i < j => /\ walk.seen[i] # walk.seen[j]
                                    /\ ~Precedes(walk.key, walk.seen[j], walk.seen[i])
    BY DEF WalkComplete
  <2>1. walk.direction \in Directions
    BY DEF PagesInv, WalkTyped, WalkedToTheEnd, Directions
  <2>2. \A r \in walk.steady : Among(walk.seen, r)
    BY <2>1 DEF PagesInv, WalkSound, WalkedToTheEnd, ForwardSound, BackwardSound, Directions
  <2>3. InKeyOrder(walk.key, walk.seen) /\ walk.key \in Seq(KeyColumns)
        /\ walk.seen \in Seq(TableRows)
    BY <2>1 DEF PagesInv, WalkSound, WalkTyped, Directions
  <2>4. \A i \in DOMAIN walk.seen : walk.seen[i] \in [KeyColumns -> Int]
    <3>1. \A i \in DOMAIN walk.seen : walk.seen[i] \in TableRows
      BY <2>3, ElementOfSeq, LenProperties
    <3> QED BY <3>1, PagesAssumption DEF KeyColumns
  <2>5. ASSUME NEW i \in DOMAIN walk.seen, NEW j \in DOMAIN walk.seen, i < j
        PROVE  walk.seen[i] # walk.seen[j] /\ ~Precedes(walk.key, walk.seen[j], walk.seen[i])
    <3>1. Precedes(walk.key, walk.seen[i], walk.seen[j])
      BY <2>3, <2>5 DEF InKeyOrder
    <3>2. ~Precedes(walk.key, walk.seen[i], walk.seen[i])
      BY <2>3, <2>4, PrecedesIrreflexive
    <3>3. Precedes(walk.key, walk.seen[j], walk.seen[i])
            => Precedes(walk.key, walk.seen[i], walk.seen[i])
      BY <2>3, <2>4, <3>1, PrecedesTransitive
    <3> QED BY <3>1, <3>2, <3>3
  <2> QED BY <2>2, <2>5 DEF ToSet, Among
<1> QED BY <1>1, PagesStart, PagesStep, PTL DEF PagesSpec

-----------------------------------------------------------------------------
(* All of them, one at a time *)

\* What each keeps, whichever is picked.
OperationsInv ==
  /\ part \in {"gate", "changes", "rules", "handlers", "dumps", "previews", "pages"}
  /\ TypeOK /\ ChangesTypeOK /\ RulesInv /\ HandlersInv /\ DumpsInv /\ PreviewsInv /\ PagesInv

LEMMA OperationsInitially == OperationsInit => OperationsInv
<1> SUFFICES ASSUME OperationsInit PROVE OperationsInv
  OBVIOUS
<1>1. /\ part \in {"gate", "changes", "rules", "handlers", "dumps", "previews", "pages"}
      /\ Init /\ ChangesInit /\ RulesInit /\ HandlersInit /\ DumpsInit /\ PreviewsInit
      /\ PagesInit
  BY DEF OperationsInit
<1> QED BY <1>1, InitTypeOK, ChangesTypedInitially, RulesStart, HandlersInitially, DumpsStart,
           PreviewsInitially, PagesStart
        DEF OperationsInv

\* A step is one of the picked module, and none for the others.
LEMMA OperationsApart ==
  ASSUME [OperationsNext]_operationsVars
  PROVE  /\ part' = part
         /\ [Next]_vars /\ [ChangesNext]_changeVars /\ [RulesNext]_ruleVars
         /\ [HandlersNext]_handlerVars /\ [DumpsNext]_dumpVars /\ [PreviewsNext]_previewVars
         /\ [PagesNext]_pageVars
  BY DEF OperationsNext, operationsVars

LEMMA OperationsStep == OperationsInv /\ [OperationsNext]_operationsVars => OperationsInv'
<1> SUFFICES ASSUME OperationsInv, [OperationsNext]_operationsVars PROVE OperationsInv'
  OBVIOUS
<1>1. /\ part' = part
      /\ [Next]_vars /\ [ChangesNext]_changeVars /\ [RulesNext]_ruleVars
      /\ [HandlersNext]_handlerVars /\ [DumpsNext]_dumpVars /\ [PreviewsNext]_previewVars
      /\ [PagesNext]_pageVars
  BY OperationsApart
<1>2. TypeOK' /\ ChangesTypeOK'
  BY <1>1, NextTypeOK, ChangesTypedStep DEF OperationsInv
<1>3. RulesInv' /\ HandlersInv'
  BY <1>1, RulesStep, HandlersInductive DEF OperationsInv
<1>4. DumpsInv'
  BY <1>1, DumpsStep DEF OperationsInv
<1>5. PreviewsInv' /\ PagesInv'
  BY <1>1, PreviewsStep, PagesStep DEF OperationsInv
<1>6. (part \in {"gate", "changes", "rules", "handlers", "dumps", "previews", "pages"})'
  BY <1>1 DEF OperationsInv
<1> QED BY <1>2, <1>3, <1>4, <1>5, <1>6 DEF OperationsInv

\* Whichever module is picked, and for all values of the constants, its variables keep
\* their types.
THEOREM OperationsTyped == OperationsSpec => []OperationsTypeOK
<1>1. HandlersInv => HandlersTypeOK
  BY DEF HandlersInv
<1>2. OperationsInv => OperationsTypeOK
  BY <1>1, RulesShape, DumpsShape, PreviewsShape, PagesShape
     DEF OperationsInv, OperationsTypeOK, Picked
<1> QED BY <1>2, OperationsInitially, OperationsStep, PTL DEF OperationsSpec
=============================================================================
