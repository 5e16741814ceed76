--------------------------- MODULE BlockAck_proofs ---------------------------
(***************************************************************************)
(* BlockAck for any number of links and MPDUs, every size of the window    *)
(* and of the sequence number space, and whatever is lost, repeated,       *)
(* discarded or expires: types, and the reordering buffer of the recipient *)
(* stays within its window.                                                *)
(***************************************************************************)
EXTENDS BlockAck, SequenceTheorems, FiniteSetTheorems, WellFoundedInduction, TLAPS

----------------------------------------------------------------------------
(***************************************************************************)
(* Folds.                                                                  *)
(***************************************************************************)
\* Induction over the indices of a sequence, with the set of those for which
\* a statement holds.
LEMMA IndexInduction ==
  ASSUME NEW n \in Nat, NEW J, 0 \in J, \A i \in 1 .. n : i - 1 \in J => i \in J
  PROVE  0 .. n \subseteq J
<1>. DEFINE T == {i \in 0 .. n : i \notin J}
<1>1. ASSUME T # {} PROVE FALSE
  <2>1. T \subseteq Nat
    OBVIOUS
  <2>2. PICK i \in T : \A k \in T : ~(<<k, i>> \in OpToRel(<, Nat))
    BY <1>1, <2>1, NatLessThanWellFounded, WFMin, Zenon
  <2>. HIDE DEF T
  <2>3. \A k \in T : ~(k < i)
    BY <2>1, <2>2 DEF OpToRel
  <2>. USE DEF T
  <2>4. i # 0 /\ i \in 0 .. n
    OBVIOUS
  <2>5. i - 1 \in 0 .. n /\ i - 1 < i
    BY <2>4
  <2>6. i - 1 \in J
    BY <2>3, <2>5
  <2>. QED  BY <2>4, <2>6
<1>. QED  BY <1>1

\* The greatest index.
LEMMA MaxOfIndices ==
  ASSUME NEW n \in Nat, NEW s \in SUBSET (1 .. n), s # {}
  PROVE  Max(s) \in s /\ \A k \in s : k <= Max(s)
<1>. DEFINE T == {n - k : k \in s}
<1>1. T \subseteq Nat /\ T # {}
  <2>1. \A k \in s : n - k \in Nat
    OBVIOUS
  <2>. QED  BY <2>1
<1>. HIDE DEF T
<1>2. PICK t \in T : \A k \in T : ~(<<k, t>> \in OpToRel(<, Nat))
  BY <1>1, NatLessThanWellFounded, WFMin, Zenon
<1>3. \A k \in T : ~(k < t)
  BY <1>1, <1>2 DEF OpToRel
<1>. USE DEF T
<1>4. PICK m \in s : t = n - m
  OBVIOUS
<1>5. \A k \in s : m >= k
  <2>. SUFFICES ASSUME NEW k \in s PROVE m >= k
    OBVIOUS
  <2>1. n - k \in T
    OBVIOUS
  <2>. QED  BY <1>3, <1>4, <2>1
<1>. QED  BY <1>4, <1>5 DEF Max

\* The recursion of FoldLeft, with a function F as the operation, stays within
\* the sets of its arguments.
IsFold(g, X, Y, n, base, F, q) ==
  /\ g \in [SUBSET (1 .. n) -> X] /\ g[{}] = base
  /\ \A s \in SUBSET (1 .. n) : s # {} =>
       /\ g[s \ {Max(s)}] \in X /\ q[Max(s)] \in Y
       /\ g[s] = F[<<g[s \ {Max(s)}], q[Max(s)]>>]

\* It has a solution.
LEMMA FoldExists ==
  ASSUME NEW X, NEW Y, NEW F \in [X \X Y -> X], NEW base \in X, NEW n \in Nat,
         NEW q \in [1 .. n -> Y]
  PROVE  \E g : IsFold(g, X, Y, n, base, F, q)
<1>. DEFINE Up(g, i) ==
              /\ g \in [SUBSET (1 .. i) -> X]
              /\ g[{}] = base
              /\ \A s \in SUBSET (1 .. i) : s # {} => g[s] = F[<<g[s \ {Max(s)}], q[Max(s)]>>]
            J == {i \in 0 .. n : \E g : Up(g, i)}
<1>1. 0 \in J
  <2>1. 1 .. 0 = {} /\ 0 \in 0 .. n
    OBVIOUS
  <2>2. Up([s \in SUBSET (1 .. 0) |-> base], 0)
    BY <2>1
  <2>. QED  BY <2>1, <2>2
<1>2. ASSUME NEW i \in 1 .. n, i - 1 \in J PROVE i \in J
  <2>1. PICK g : Up(g, i - 1)
    BY <1>2
  <2>. DEFINE h == [s \in SUBSET (1 .. i) |->
                      IF i \in s THEN F[<<g[s \ {i}], q[i]>>] ELSE g[s]]
  <2>2. \A s \in SUBSET (1 .. i) : /\ s \ {i} \in SUBSET (1 .. i - 1)
                                   /\ i \notin s => s \in SUBSET (1 .. i - 1)
    OBVIOUS
  <2>3. q[i] \in Y /\ i \in 0 .. n
    OBVIOUS
  <2>4. h \in [SUBSET (1 .. i) -> X]
    <3>. SUFFICES ASSUME NEW s \in SUBSET (1 .. i)
                  PROVE  (IF i \in s THEN F[<<g[s \ {i}], q[i]>>] ELSE g[s]) \in X
      OBVIOUS
    <3>1. CASE i \in s
      <4>1. g[s \ {i}] \in X
        BY <2>1, <2>2
      <4>2. F[<<g[s \ {i}], q[i]>>] \in X
        BY <4>1, <2>3
      <4>. QED  BY <3>1, <4>2
    <3>2. CASE i \notin s
      BY <2>1, <2>2, <3>2
    <3>. QED  BY <3>1, <3>2
  <2>5. h[{}] = base
    BY <2>1
  <2>6. ASSUME NEW s \in SUBSET (1 .. i), s # {}
        PROVE  h[s] = F[<<h[s \ {Max(s)}], q[Max(s)]>>]
    <3>0. i \in Nat
      OBVIOUS
    <3>1. Max(s) \in s /\ \A k \in s : k <= Max(s)
      BY <2>6, <3>0, MaxOfIndices, Zenon
    <3>2. CASE i \in s
      <4>1. Max(s) = i
        BY <3>1, <3>2, Max(s) \in 1 .. i, i <= Max(s)
      <4>2. s \ {i} \in SUBSET (1 .. i) /\ h[s \ {i}] = g[s \ {i}]
        BY <2>2
      <4>. QED  BY <3>2, <4>1, <4>2
    <3>3. CASE i \notin s
      <4>1. s \in SUBSET (1 .. i - 1) /\ s \ {Max(s)} \in SUBSET (1 .. i)
        BY <2>2, <3>3
      <4>2. h[s] = g[s] /\ h[s \ {Max(s)}] = g[s \ {Max(s)}]
        BY <3>3, <4>1
      <4>. QED  BY <2>1, <2>6, <4>1, <4>2
    <3>. QED  BY <3>2, <3>3
  <2>. HIDE DEF h
  <2>7. Up(h, i)
    BY <2>4, <2>5, <2>6
  <2>. QED  BY <2>3, <2>7
<1>. HIDE DEF J
<1>3. n \in J
  <2>1. \A i \in 1 .. n : i - 1 \in J => i \in J
    BY <1>2
  <2>2. 0 .. n \subseteq J
    BY <1>1, <2>1, IndexInduction, Zenon
  <2>. QED  BY <2>2
<1>4. PICK g : Up(g, n)
  BY <1>3 DEF J
<1>5. ASSUME NEW s \in SUBSET (1 .. n), s # {}
      PROVE  g[s \ {Max(s)}] \in X /\ q[Max(s)] \in Y
  <2>1. Max(s) \in s
    BY <1>5, MaxOfIndices
  <2>. QED  BY <1>4, <2>1
<1>. QED  BY <1>4, <1>5 DEF IsFold

\* What every step of a fold keeps, its result has.
LEMMA FoldStays ==
  ASSUME NEW X, NEW n \in Nat, NEW g, g[{}] \in X,
         \A s \in SUBSET (1 .. n) : s # {} /\ g[s \ {Max(s)}] \in X => g[s] \in X
  PROVE  g[1 .. n] \in X
<1>. DEFINE J == {i \in 0 .. n : g[1 .. i] \in X}
<1>1. 0 \in J
  <2>1. 1 .. 0 = {}
    OBVIOUS
  <2>. QED  BY <2>1
<1>2. ASSUME NEW i \in 1 .. n, i - 1 \in J PROVE i \in J
  <2>1. 1 .. i # {} /\ 1 .. i \in SUBSET (1 .. n) /\ i \in 1 .. i /\ i \in Nat
    OBVIOUS
  <2>2. Max(1 .. i) \in 1 .. i /\ \A k \in 1 .. i : k <= Max(1 .. i)
    BY <2>1, MaxOfIndices
  <2>3. Max(1 .. i) = i
    BY <2>1, <2>2
  <2>4. (1 .. i) \ {i} = 1 .. i - 1
    OBVIOUS
  <2>5. g[1 .. i - 1] \in X /\ i \in 0 .. n
    BY <1>2
  <2>6. g[(1 .. i) \ {Max(1 .. i)}] \in X
    BY <2>3, <2>4, <2>5, Zenon
  <2>7. g[1 .. i] \in X
    BY <2>1, <2>6, Zenon
  <2>. QED  BY <2>5, <2>7
<1>. HIDE DEF J
<1>3. 0 .. n \subseteq J
  <2>1. \A i \in 1 .. n : i - 1 \in J => i \in J
    BY <1>2
  <2>. QED  BY <1>1, <2>1, IndexInduction, Zenon
<1>. QED  BY <1>3 DEF J

\* The elements of a sequence that are in a set.
LEMMA OnlyIsOfSet ==
  ASSUME NEW T, NEW list \in Seq(T), NEW S
  PROVE  Only(list, S) \in Seq(T \cap S)
<1>. DEFINE X == Seq(T \cap S)
            n == Len(list)
            Step(p, x) == IF x \in S THEN Append(p, x) ELSE p
            F == [x \in X \X T |-> Step(x[1], x[2])]
            Sol(g) == g = [s \in SUBSET (1 .. n) |->
                             IF s = {} THEN <<>> ELSE Step(g[s \ {Max(s)}], list[Max(s)])]
            it == CHOOSE g : Sol(g)
<1>1. F \in [X \X T -> X] /\ <<>> \in X /\ n \in Nat /\ list \in [1 .. n -> T]
  OBVIOUS
<1>2. Only(list, S) = it[1 .. n]
  <2>1. DOMAIN list = 1 .. n
    OBVIOUS
  <2>. QED  BY <2>1 DEF Only, FoldLeft, MapThenFoldSet
<1>3. \A p \in X, x \in T : F[<<p, x>>] = Step(p, x)
  OBVIOUS
<1>4. it[{}] \in X /\ \A s \in SUBSET (1 .. n) : s # {} /\ it[s \ {Max(s)}] \in X => it[s] \in X
  <2>. HIDE DEF F, n, X
  <2>1. PICK g : IsFold(g, X, T, n, <<>>, F, list)
    BY <1>1, FoldExists, Zenon
  <2>2. Sol(g)
    <3>. HIDE DEF Step
    <3>. QED  BY <1>3, <2>1 DEF IsFold
  <2>3. Sol(it)
    BY <2>2, Zenon
  <2>4. it[{}] = <<>> /\ \A s \in SUBSET (1 .. n) : s # {} =>
            /\ it[s] = Step(it[s \ {Max(s)}], list[Max(s)])
            /\ list[Max(s)] \in T
    BY <2>1, <2>3 DEF IsFold
  <2>5. \A p \in X, x \in T : Step(p, x) \in X
    BY DEF X
  <2>. HIDE DEF it, Step
  <2>. QED  BY <1>1, <2>4, <2>5, Zenon
<1>. HIDE DEF X, n, it
<1>5. it[1 .. n] \in X
  BY <1>1, <1>4, FoldStays, Zenon
<1>. QED  BY <1>2, <1>5 DEF X

\* What every MPDU passed up keeps.
LEMMA ReceiveFold ==
  ASSUME NEW X, NEW Y, NEW base \in X, NEW list \in Seq(Y),
         \A p \in X, n \in Y : Receive(p, n) \in X
  PROVE  FoldLeft(Receive, base, list) \in X
<1>. DEFINE k == Len(list)
            Step(p, n) == Receive(p, n)
            F == [x \in X \X Y |-> Step(x[1], x[2])]
            Sol(g) == g = [s \in SUBSET (1 .. k) |->
                             IF s = {} THEN base ELSE Step(g[s \ {Max(s)}], list[Max(s)])]
            it == CHOOSE g : Sol(g)
<1>1. F \in [X \X Y -> X] /\ k \in Nat /\ list \in [1 .. k -> Y]
  <2>1. \A p \in X, n \in Y : Step(p, n) \in X
    OBVIOUS
  <2>. HIDE DEF Step
  <2>. QED  BY <2>1
<1>2. FoldLeft(Receive, base, list) = it[1 .. k]
  <2>1. DOMAIN list = 1 .. k
    OBVIOUS
  <2>. QED  BY <2>1 DEF FoldLeft, MapThenFoldSet
<1>3. \A p \in X, n \in Y : F[<<p, n>>] = Step(p, n) /\ Step(p, n) \in X
  OBVIOUS
<1>4. it[{}] \in X /\ \A s \in SUBSET (1 .. k) : s # {} /\ it[s \ {Max(s)}] \in X => it[s] \in X
  <2>. HIDE DEF F, k
  <2>1. PICK g : IsFold(g, X, Y, k, base, F, list)
    BY <1>1, FoldExists, Zenon
  <2>2. Sol(g)
    <3>. HIDE DEF Step
    <3>. QED  BY <1>3, <2>1 DEF IsFold
  <2>3. Sol(it)
    BY <2>2, Zenon
  <2>. HIDE DEF it, Step
  <2>4. it[{}] = base /\ \A s \in SUBSET (1 .. k) : s # {} =>
            /\ it[s] = Step(it[s \ {Max(s)}], list[Max(s)])
            /\ list[Max(s)] \in Y
    BY <2>1, <2>3 DEF IsFold
  <2>5. ASSUME NEW s \in SUBSET (1 .. k), s # {}, it[s \ {Max(s)}] \in X PROVE it[s] \in X
    <3>1. PICK p \in X, n \in Y : p = it[s \ {Max(s)}] /\ n = list[Max(s)]
      BY <2>4, <2>5, Zenon
    <3>2. it[s] = Step(p, n)
      BY <2>4, <2>5, <3>1, Zenon
    <3>. QED  BY <1>3, <3>2, Zenon
  <2>. QED  BY <2>4, <2>5, Zenon
<1>. HIDE DEF k, it
<1>5. it[1 .. k] \in X
  BY <1>1, <1>4, FoldStays, Zenon
<1>. QED  BY <1>2, <1>5

\* What every MPDU reported acknowledged keeps.
LEMMA NotifyAckedFold ==
  ASSUME NEW X, NEW Y, NEW base \in X, NEW list \in Seq(Y),
         \A p \in X, n \in Y : NotifyAcked(p, n) \in X
  PROVE  FoldLeft(NotifyAcked, base, list) \in X
<1>. DEFINE k == Len(list)
            Step(p, n) == NotifyAcked(p, n)
            F == [x \in X \X Y |-> Step(x[1], x[2])]
            Sol(g) == g = [s \in SUBSET (1 .. k) |->
                             IF s = {} THEN base ELSE Step(g[s \ {Max(s)}], list[Max(s)])]
            it == CHOOSE g : Sol(g)
<1>1. F \in [X \X Y -> X] /\ k \in Nat /\ list \in [1 .. k -> Y]
  <2>1. \A p \in X, n \in Y : Step(p, n) \in X
    OBVIOUS
  <2>. HIDE DEF Step
  <2>. QED  BY <2>1
<1>2. FoldLeft(NotifyAcked, base, list) = it[1 .. k]
  <2>1. DOMAIN list = 1 .. k
    OBVIOUS
  <2>. QED  BY <2>1 DEF FoldLeft, MapThenFoldSet
<1>3. \A p \in X, n \in Y : F[<<p, n>>] = Step(p, n) /\ Step(p, n) \in X
  OBVIOUS
<1>4. it[{}] \in X /\ \A s \in SUBSET (1 .. k) : s # {} /\ it[s \ {Max(s)}] \in X => it[s] \in X
  <2>. HIDE DEF F, k
  <2>1. PICK g : IsFold(g, X, Y, k, base, F, list)
    BY <1>1, FoldExists, Zenon
  <2>2. Sol(g)
    <3>. HIDE DEF Step
    <3>. QED  BY <1>3, <2>1 DEF IsFold
  <2>3. Sol(it)
    BY <2>2, Zenon
  <2>. HIDE DEF it, Step
  <2>4. it[{}] = base /\ \A s \in SUBSET (1 .. k) : s # {} =>
            /\ it[s] = Step(it[s \ {Max(s)}], list[Max(s)])
            /\ list[Max(s)] \in Y
    BY <2>1, <2>3 DEF IsFold
  <2>5. ASSUME NEW s \in SUBSET (1 .. k), s # {}, it[s \ {Max(s)}] \in X PROVE it[s] \in X
    <3>1. PICK p \in X, n \in Y : p = it[s \ {Max(s)}] /\ n = list[Max(s)]
      BY <2>4, <2>5, Zenon
    <3>2. it[s] = Step(p, n)
      BY <2>4, <2>5, <3>1, Zenon
    <3>. QED  BY <1>3, <3>2, Zenon
  <2>. QED  BY <2>4, <2>5, Zenon
<1>. HIDE DEF k, it
<1>5. it[1 .. k] \in X
  BY <1>1, <1>4, FoldStays, Zenon
<1>. QED  BY <1>2, <1>5

\* What every MPDU that becomes outstanding keeps.
LEMMA DoStoreFold ==
  ASSUME NEW X, NEW Y, NEW base \in X, NEW list \in Seq(Y),
         \A p \in X, n \in Y : DoStorePacket(p, n) \in X
  PROVE  FoldLeft(DoStorePacket, base, list) \in X
<1>. DEFINE k == Len(list)
            Step(p, n) == DoStorePacket(p, n)
            F == [x \in X \X Y |-> Step(x[1], x[2])]
            Sol(g) == g = [s \in SUBSET (1 .. k) |->
                             IF s = {} THEN base ELSE Step(g[s \ {Max(s)}], list[Max(s)])]
            it == CHOOSE g : Sol(g)
<1>1. F \in [X \X Y -> X] /\ k \in Nat /\ list \in [1 .. k -> Y]
  <2>1. \A p \in X, n \in Y : Step(p, n) \in X
    OBVIOUS
  <2>. HIDE DEF Step
  <2>. QED  BY <2>1
<1>2. FoldLeft(DoStorePacket, base, list) = it[1 .. k]
  <2>1. DOMAIN list = 1 .. k
    OBVIOUS
  <2>. QED  BY <2>1 DEF FoldLeft, MapThenFoldSet
<1>3. \A p \in X, n \in Y : F[<<p, n>>] = Step(p, n) /\ Step(p, n) \in X
  OBVIOUS
<1>4. it[{}] \in X /\ \A s \in SUBSET (1 .. k) : s # {} /\ it[s \ {Max(s)}] \in X => it[s] \in X
  <2>. HIDE DEF F, k
  <2>1. PICK g : IsFold(g, X, Y, k, base, F, list)
    BY <1>1, FoldExists, Zenon
  <2>2. Sol(g)
    <3>. HIDE DEF Step
    <3>. QED  BY <1>3, <2>1 DEF IsFold
  <2>3. Sol(it)
    BY <2>2, Zenon
  <2>. HIDE DEF it, Step
  <2>4. it[{}] = base /\ \A s \in SUBSET (1 .. k) : s # {} =>
            /\ it[s] = Step(it[s \ {Max(s)}], list[Max(s)])
            /\ list[Max(s)] \in Y
    BY <2>1, <2>3 DEF IsFold
  <2>5. ASSUME NEW s \in SUBSET (1 .. k), s # {}, it[s \ {Max(s)}] \in X PROVE it[s] \in X
    <3>1. PICK p \in X, n \in Y : p = it[s \ {Max(s)}] /\ n = list[Max(s)]
      BY <2>4, <2>5, Zenon
    <3>2. it[s] = Step(p, n)
      BY <2>4, <2>5, <3>1, Zenon
    <3>. QED  BY <1>3, <3>2, Zenon
  <2>. QED  BY <2>4, <2>5, Zenon
<1>. HIDE DEF k, it
<1>5. it[1 .. k] \in X
  BY <1>1, <1>4, FoldStays, Zenon
<1>. QED  BY <1>2, <1>5

\* What every discarded MPDU keeps.
LEMMA DiscardFold ==
  ASSUME NEW X, NEW Y, NEW base \in X, NEW list \in Seq(Y),
         \A p \in X, n \in Y : DiscardMpdu(p, n) \in X
  PROVE  FoldLeft(DiscardMpdu, base, list) \in X
<1>. DEFINE k == Len(list)
            Step(p, n) == DiscardMpdu(p, n)
            F == [x \in X \X Y |-> Step(x[1], x[2])]
            Sol(g) == g = [s \in SUBSET (1 .. k) |->
                             IF s = {} THEN base ELSE Step(g[s \ {Max(s)}], list[Max(s)])]
            it == CHOOSE g : Sol(g)
<1>1. F \in [X \X Y -> X] /\ k \in Nat /\ list \in [1 .. k -> Y]
  <2>1. \A p \in X, n \in Y : Step(p, n) \in X
    OBVIOUS
  <2>. HIDE DEF Step
  <2>. QED  BY <2>1
<1>2. FoldLeft(DiscardMpdu, base, list) = it[1 .. k]
  <2>1. DOMAIN list = 1 .. k
    OBVIOUS
  <2>. QED  BY <2>1 DEF FoldLeft, MapThenFoldSet
<1>3. \A p \in X, n \in Y : F[<<p, n>>] = Step(p, n) /\ Step(p, n) \in X
  OBVIOUS
<1>4. it[{}] \in X /\ \A s \in SUBSET (1 .. k) : s # {} /\ it[s \ {Max(s)}] \in X => it[s] \in X
  <2>. HIDE DEF F, k
  <2>1. PICK g : IsFold(g, X, Y, k, base, F, list)
    BY <1>1, FoldExists, Zenon
  <2>2. Sol(g)
    <3>. HIDE DEF Step
    <3>. QED  BY <1>3, <2>1 DEF IsFold
  <2>3. Sol(it)
    BY <2>2, Zenon
  <2>. HIDE DEF it, Step
  <2>4. it[{}] = base /\ \A s \in SUBSET (1 .. k) : s # {} =>
            /\ it[s] = Step(it[s \ {Max(s)}], list[Max(s)])
            /\ list[Max(s)] \in Y
    BY <2>1, <2>3 DEF IsFold
  <2>5. ASSUME NEW s \in SUBSET (1 .. k), s # {}, it[s \ {Max(s)}] \in X PROVE it[s] \in X
    <3>1. PICK p \in X, n \in Y : p = it[s \ {Max(s)}] /\ n = list[Max(s)]
      BY <2>4, <2>5, Zenon
    <3>2. it[s] = Step(p, n)
      BY <2>4, <2>5, <3>1, Zenon
    <3>. QED  BY <1>3, <3>2, Zenon
  <2>. QED  BY <2>4, <2>5, Zenon
<1>. HIDE DEF k, it
<1>5. it[1 .. k] \in X
  BY <1>1, <1>4, FoldStays, Zenon
<1>. QED  BY <1>2, <1>5

\* What every released sequence number keeps.
LEMMA ReleaseFold ==
  ASSUME NEW X, NEW Y, NEW base \in X, NEW list \in Seq(Y),
         \A p \in X, n \in Y : ReleaseSequenceNumber(p, n) \in X
  PROVE  FoldLeft(ReleaseSequenceNumber, base, list) \in X
<1>. DEFINE k == Len(list)
            Step(p, n) == ReleaseSequenceNumber(p, n)
            F == [x \in X \X Y |-> Step(x[1], x[2])]
            Sol(g) == g = [s \in SUBSET (1 .. k) |->
                             IF s = {} THEN base ELSE Step(g[s \ {Max(s)}], list[Max(s)])]
            it == CHOOSE g : Sol(g)
<1>1. F \in [X \X Y -> X] /\ k \in Nat /\ list \in [1 .. k -> Y]
  <2>1. \A p \in X, n \in Y : Step(p, n) \in X
    OBVIOUS
  <2>. HIDE DEF Step
  <2>. QED  BY <2>1
<1>2. FoldLeft(ReleaseSequenceNumber, base, list) = it[1 .. k]
  <2>1. DOMAIN list = 1 .. k
    OBVIOUS
  <2>. QED  BY <2>1 DEF FoldLeft, MapThenFoldSet
<1>3. \A p \in X, n \in Y : F[<<p, n>>] = Step(p, n) /\ Step(p, n) \in X
  OBVIOUS
<1>4. it[{}] \in X /\ \A s \in SUBSET (1 .. k) : s # {} /\ it[s \ {Max(s)}] \in X => it[s] \in X
  <2>. HIDE DEF F, k
  <2>1. PICK g : IsFold(g, X, Y, k, base, F, list)
    BY <1>1, FoldExists, Zenon
  <2>2. Sol(g)
    <3>. HIDE DEF Step
    <3>. QED  BY <1>3, <2>1 DEF IsFold
  <2>3. Sol(it)
    BY <2>2, Zenon
  <2>. HIDE DEF it, Step
  <2>4. it[{}] = base /\ \A s \in SUBSET (1 .. k) : s # {} =>
            /\ it[s] = Step(it[s \ {Max(s)}], list[Max(s)])
            /\ list[Max(s)] \in Y
    BY <2>1, <2>3 DEF IsFold
  <2>5. ASSUME NEW s \in SUBSET (1 .. k), s # {}, it[s \ {Max(s)}] \in X PROVE it[s] \in X
    <3>1. PICK p \in X, n \in Y : p = it[s \ {Max(s)}] /\ n = list[Max(s)]
      BY <2>4, <2>5, Zenon
    <3>2. it[s] = Step(p, n)
      BY <2>4, <2>5, <3>1, Zenon
    <3>. QED  BY <1>3, <3>2, Zenon
  <2>. QED  BY <2>4, <2>5, Zenon
<1>. HIDE DEF k, it
<1>5. it[1 .. k] \in X
  BY <1>1, <1>4, FoldStays, Zenon
<1>. QED  BY <1>2, <1>5

\* What HandleInFlightMpdu keeps for every MPDU of the queue.
LEMMA HandleFold ==
  ASSUME NEW X, NEW Y, NEW o \in X, o.list \in Seq(Y), NEW link, NEW again,
         \A p \in X, n \in Y : (IF InList(p, n) THEN HandleInFlightMpdu(p, n, link, n \in again) ELSE p) \in X
  PROVE  HandleAll(o, link, again) \in X
<1>. DEFINE k == Len(o.list)
            Step(p, n) == (IF InList(p, n) THEN HandleInFlightMpdu(p, n, link, n \in again) ELSE p)
            F == [x \in X \X Y |-> Step(x[1], x[2])]
            Sol(g) == g = [s \in SUBSET (1 .. k) |->
                             IF s = {} THEN o ELSE Step(g[s \ {Max(s)}], o.list[Max(s)])]
            it == CHOOSE g : Sol(g)
<1>1. F \in [X \X Y -> X] /\ k \in Nat /\ o.list \in [1 .. k -> Y]
  <2>1. \A p \in X, n \in Y : Step(p, n) \in X
    OBVIOUS
  <2>. HIDE DEF Step
  <2>. QED  BY <2>1
<1>2. HandleAll(o, link, again) = it[1 .. k]
  <2>1. DOMAIN o.list = 1 .. k
    OBVIOUS
  <2>. QED  BY <2>1 DEF HandleAll, FoldLeft, MapThenFoldSet
<1>3. \A p \in X, n \in Y : F[<<p, n>>] = Step(p, n) /\ Step(p, n) \in X
  OBVIOUS
<1>4. it[{}] \in X /\ \A s \in SUBSET (1 .. k) : s # {} /\ it[s \ {Max(s)}] \in X => it[s] \in X
  <2>. HIDE DEF F, k
  <2>1. PICK g : IsFold(g, X, Y, k, o, F, o.list)
    BY <1>1, FoldExists, Zenon
  <2>2. Sol(g)
    <3>. HIDE DEF Step
    <3>. QED  BY <1>3, <2>1 DEF IsFold
  <2>3. Sol(it)
    BY <2>2, Zenon
  <2>. HIDE DEF it, Step
  <2>4. it[{}] = o /\ \A s \in SUBSET (1 .. k) : s # {} =>
            /\ it[s] = Step(it[s \ {Max(s)}], o.list[Max(s)])
            /\ o.list[Max(s)] \in Y
    BY <2>1, <2>3 DEF IsFold
  <2>5. ASSUME NEW s \in SUBSET (1 .. k), s # {}, it[s \ {Max(s)}] \in X PROVE it[s] \in X
    <3>1. PICK p \in X, n \in Y : p = it[s \ {Max(s)}] /\ n = o.list[Max(s)]
      BY <2>4, <2>5, Zenon
    <3>2. it[s] = Step(p, n)
      BY <2>4, <2>5, <3>1, Zenon
    <3>. QED  BY <1>3, <3>2, Zenon
  <2>. QED  BY <2>4, <2>5, Zenon
<1>. HIDE DEF k, it
<1>5. it[1 .. k] \in X
  BY <1>1, <1>4, FoldStays, Zenon
<1>. QED  BY <1>2, <1>5

\* What every step of NeedBarRetransmission keeps.
LEMMA NeedBarFold ==
  ASSUME NEW X, NEW Y, NEW o, o.list \in Seq(Y), NEW link, [o |-> o, need |-> FALSE] \in X,
         \A p \in X, n \in Y : (IF p.need \/ ~InList(p.o, n) THEN p ELSE
            [o |-> HandleInFlightMpdu(p.o, n, link, FALSE),
             need |-> InList(HandleInFlightMpdu(p.o, n, link, FALSE), n)]) \in X
  PROVE  NeedBarRetransmission(o, link) \in X
<1>. DEFINE k == Len(o.list)
            Step(p, n) == (IF p.need \/ ~InList(p.o, n) THEN p ELSE
            [o |-> HandleInFlightMpdu(p.o, n, link, FALSE),
             need |-> InList(HandleInFlightMpdu(p.o, n, link, FALSE), n)])
            F == [x \in X \X Y |-> Step(x[1], x[2])]
            Sol(g) == g = [s \in SUBSET (1 .. k) |->
                             IF s = {} THEN [o |-> o, need |-> FALSE] ELSE Step(g[s \ {Max(s)}], o.list[Max(s)])]
            it == CHOOSE g : Sol(g)
<1>1. F \in [X \X Y -> X] /\ k \in Nat /\ o.list \in [1 .. k -> Y]
  <2>1. \A p \in X, n \in Y : Step(p, n) \in X
    OBVIOUS
  <2>. HIDE DEF Step
  <2>. QED  BY <2>1
<1>2. NeedBarRetransmission(o, link) = it[1 .. k]
  <2>1. DOMAIN o.list = 1 .. k
    OBVIOUS
  <2>. QED  BY <2>1 DEF NeedBarRetransmission, FoldLeft, MapThenFoldSet
<1>3. \A p \in X, n \in Y : F[<<p, n>>] = Step(p, n) /\ Step(p, n) \in X
  OBVIOUS
<1>4. it[{}] \in X /\ \A s \in SUBSET (1 .. k) : s # {} /\ it[s \ {Max(s)}] \in X => it[s] \in X
  <2>. HIDE DEF F, k
  <2>1. PICK g : IsFold(g, X, Y, k, [o |-> o, need |-> FALSE], F, o.list)
    BY <1>1, FoldExists, Zenon
  <2>2. Sol(g)
    <3>. HIDE DEF Step
    <3>. QED  BY <1>3, <2>1 DEF IsFold
  <2>3. Sol(it)
    BY <2>2, Zenon
  <2>. HIDE DEF it, Step
  <2>4. it[{}] = [o |-> o, need |-> FALSE] /\ \A s \in SUBSET (1 .. k) : s # {} =>
            /\ it[s] = Step(it[s \ {Max(s)}], o.list[Max(s)])
            /\ o.list[Max(s)] \in Y
    BY <2>1, <2>3 DEF IsFold
  <2>5. ASSUME NEW s \in SUBSET (1 .. k), s # {}, it[s \ {Max(s)}] \in X PROVE it[s] \in X
    <3>1. PICK p \in X, n \in Y : p = it[s \ {Max(s)}] /\ n = o.list[Max(s)]
      BY <2>4, <2>5, Zenon
    <3>2. it[s] = Step(p, n)
      BY <2>4, <2>5, <3>1, Zenon
    <3>. QED  BY <1>3, <3>2, Zenon
  <2>. QED  BY <2>4, <2>5, Zenon
<1>. HIDE DEF k, it
<1>5. it[1 .. k] \in X
  BY <1>1, <1>4, FoldStays, Zenon
<1>. QED  BY <1>2, <1>5

----------------------------------------------------------------------------
(***************************************************************************)
(* The elements of a set in order of place: there is such a sequence if    *)
(* the places are bounded and no two elements have the same.               *)
(***************************************************************************)
Enumerates(s, m, S, place) ==
  /\ m \in Nat /\ s \in [1 .. m -> S]
  /\ \A i, j \in 1 .. m : i < j => place[s[i]] < place[s[j]]
  /\ \A x \in S : \E i \in 1 .. m : s[i] = x

LEMMA EnumerationExists ==
  ASSUME NEW S, NEW place \in [S -> Nat], NEW N \in Nat, \A x \in S : place[x] < N,
         \A x, y \in S : place[x] = place[y] => x = y
  PROVE  \E m, s : Enumerates(s, m, S, place)
<1>. DEFINE Below(k) == {x \in S : place[x] < k}
            J == {k \in 0 .. N : \E m, s : Enumerates(s, m, Below(k), place)}
<1>1. 0 \in J
  <2>1. Below(0) = {} /\ 1 .. 0 = {} /\ 0 \in 0 .. N
    OBVIOUS
  <2>2. Enumerates([i \in 1 .. 0 |-> 0], 0, Below(0), place)
    BY <2>1 DEF Enumerates
  <2>. QED  BY <2>1, <2>2
<1>2. ASSUME NEW k \in 1 .. N, k - 1 \in J PROVE k \in J
  <2>0. k \in 0 .. N /\ k - 1 \in Nat
    OBVIOUS
  <2>1. PICK m, s : Enumerates(s, m, Below(k - 1), place)
    BY <1>2
  <2>2. \A x \in Below(k) : x \in Below(k - 1) \/ place[x] = k - 1
    BY <2>0
  <2>3. CASE \E x \in S : place[x] = k - 1
    <3>1. PICK x \in S : place[x] = k - 1
      BY <2>3
    <3>. DEFINE t == [i \in 1 .. m + 1 |-> IF i = m + 1 THEN x ELSE s[i]]
    <3>2. m \in Nat /\ s \in [1 .. m -> Below(k - 1)]
      BY <2>1 DEF Enumerates
    <3>3. x \in Below(k) /\ \A y \in Below(k - 1) : y \in Below(k) /\ place[y] < place[x]
      BY <2>0, <3>1
    <3>4. t \in [1 .. m + 1 -> Below(k)]
      <4>. HIDE DEF Below
      <4>. QED  BY <3>2, <3>3
    <3>5. ASSUME NEW i \in 1 .. m + 1, NEW j \in 1 .. m + 1, i < j
          PROVE  place[t[i]] < place[t[j]]
      <4>1. i \in 1 .. m /\ t[i] = s[i] /\ s[i] \in Below(k - 1)
        BY <3>2, <3>5
      <4>2. CASE j = m + 1
        BY <3>3, <4>1, <4>2
      <4>3. CASE j # m + 1
        <5>1. j \in 1 .. m /\ t[j] = s[j]
          BY <3>2, <4>3
        <5>. QED  BY <2>1, <3>5, <4>1, <5>1 DEF Enumerates
      <4>. QED  BY <4>2, <4>3
    <3>6. ASSUME NEW y \in Below(k) PROVE \E i \in 1 .. m + 1 : t[i] = y
      <4>1. CASE place[y] = k - 1
        <5>1. y = x
          BY <3>1, <4>1
        <5>2. m + 1 \in 1 .. m + 1 /\ t[m + 1] = x
          BY <3>2
        <5>. QED  BY <5>1, <5>2
      <4>2. CASE y \in Below(k - 1)
        <5>1. PICK i \in 1 .. m : s[i] = y
          BY <2>1, <4>2 DEF Enumerates
        <5>2. i \in 1 .. m + 1 /\ t[i] = s[i]
          BY <3>2
        <5>. QED  BY <5>1, <5>2
      <4>. QED  BY <2>2, <4>1, <4>2
    <3>. HIDE DEF t, Below
    <3>7. Enumerates(t, m + 1, Below(k), place)
      BY <3>2, <3>4, <3>5, <3>6 DEF Enumerates
    <3>. QED  BY <2>0, <3>7
  <2>4. CASE ~\E x \in S : place[x] = k - 1
    <3>1. Below(k) = Below(k - 1)
      BY <2>0, <2>4
    <3>. QED  BY <2>0, <2>1, <3>1
  <2>. QED  BY <2>3, <2>4
<1>. HIDE DEF J
<1>3. N \in J
  <2>1. \A k \in 1 .. N : k - 1 \in J => k \in J
    BY <1>2
  <2>2. 0 .. N \subseteq J
    BY <1>1, <2>1, IndexInduction, Zenon
  <2>. QED  BY <2>2
<1>4. Below(N) = S
  OBVIOUS
<1>. QED  BY <1>3, <1>4 DEF J

\* An enumeration is one to one and onto, so that it counts.
LEMMA EnumerationSize ==
  ASSUME NEW S, NEW place \in [S -> Nat], NEW m, NEW s, Enumerates(s, m, S, place)
  PROVE  Cardinality(S) = m /\ IsFiniteSet(S) /\ s \in Injection(1 .. m, S)
<1>1. m \in Nat /\ s \in [1 .. m -> S]
  BY DEF Enumerates
<1>2. s \in Injection(1 .. m, S)
  <2>1. ASSUME NEW i \in 1 .. m, NEW j \in 1 .. m, s[i] = s[j] PROVE i = j
    <3>1. place[s[i]] \in Nat /\ ~(place[s[i]] < place[s[j]]) /\ ~(place[s[j]] < place[s[i]])
      BY <1>1, <2>1
    <3>2. ~(i < j) /\ ~(j < i)
      BY <3>1 DEF Enumerates
    <3>. QED  BY <3>2
  <2>. QED  BY <1>1, <2>1 DEF Injection, IsInjective
<1>3. s \in Surjection(1 .. m, S)
  BY DEF Enumerates, Surjection
<1>4. ExistsBijection(1 .. m, S)
  BY <1>2, <1>3 DEF ExistsBijection, Bijection
<1>5. Cardinality(S) = m /\ IsFiniteSet(S)
  BY <1>1, <1>4, FS_CountingElements, FS_NatBijection
<1>. QED  BY <1>2, <1>5

\* InOrder enumerates a set by increasing place.
LEMMA InOrderIsOrdered ==
  ASSUME NEW S, NEW place \in [S -> Nat], NEW N \in Nat, \A x \in S : place[x] < N,
         \A x, y \in S : place[x] = place[y] => x = y
  PROVE  Enumerates(InOrder(S, place), Cardinality(S), S, place)
<1>1. PICK m, s : Enumerates(s, m, S, place)
  BY EnumerationExists
<1>2. m \in Nat /\ s \in [1 .. m -> S]
  BY <1>1 DEF Enumerates
<1>3. Cardinality(S) = m /\ IsFiniteSet(S)
  BY <1>1, EnumerationSize
<1>. DEFINE P(t) == \A i, j \in DOMAIN t : i < j => place[t[i]] < place[t[j]]
            u == InOrder(S, place)
<1>4. u \in [1 .. m -> S] /\ P(u)
  <2>1. P(s)
    BY <1>1 DEF Enumerates
  <2>2. u = CHOOSE t \in [1 .. m -> S] : P(t)
    BY <1>3 DEF InOrder
  <2>. HIDE DEF u, P
  <2>. QED  BY <1>2, <2>1, <2>2
<1>5. u \in Injection(1 .. m, S)
  <2>1. ASSUME NEW i \in 1 .. m, NEW j \in 1 .. m, u[i] = u[j] PROVE i = j
    <3>1. place[u[i]] \in Nat /\ ~(place[u[i]] < place[u[j]]) /\ ~(place[u[j]] < place[u[i]])
      BY <1>4, <2>1
    <3>2. ~(i < j) /\ ~(j < i)
      BY <1>4, <3>1
    <3>. QED  BY <3>2
  <2>. HIDE DEF u
  <2>. QED  BY <1>4, <2>1 DEF Injection, IsInjective
<1>. HIDE DEF u
<1>6. u \in Surjection(1 .. m, S)
  <2>1. Cardinality(1 .. m) = m
    <3>1. 1 \in Int /\ m \in Int /\ ~(1 > m /\ m # 0)
      BY <1>2
    <3>2. Cardinality(1 .. m) = IF 1 > m THEN 0 ELSE m - 1 + 1
      BY <3>1, FS_Interval
    <3>. QED  BY <1>2, <3>2
  <2>. QED  BY <1>3, <1>5, <2>1, FS_Injection
<1>. QED  BY <1>2, <1>3, <1>4, <1>6 DEF Enumerates, Surjection, u

LEMMA InOrderEnumerates ==
  ASSUME NEW S, NEW place \in [S -> Nat], NEW N \in Nat, \A x \in S : place[x] < N,
         \A x, y \in S : place[x] = place[y] => x = y
  PROVE  InOrder(S, place) \in Seq(S) /\ IsInjective(InOrder(S, place))
<1>1. PICK m, s : m = Cardinality(S) /\ s = InOrder(S, place)
  OBVIOUS
<1>2. Enumerates(s, m, S, place)
  BY <1>1, InOrderIsOrdered, Zenon
<1>3. m \in Nat /\ s \in [1 .. m -> S]
  BY <1>2 DEF Enumerates
<1>4. IsInjective(s)
  BY <1>2, EnumerationSize DEF Injection
<1>. QED  BY <1>1, <1>3, <1>4

----------------------------------------------------------------------------
(***************************************************************************)
(* The inductive invariant.  Sequence numbers are compared by their        *)
(* position: how far they are from the starting sequence number.  Fewer    *)
(* than half of the sequence number space are used, and distances between  *)
(* numbers in use are differences of positions.                            *)
(***************************************************************************)
Pos(x) == GetDistance(x, StartSeq)

\* Sequence numbers that may be assigned, and those a window may start at.
SentSeqs == {x \in Seqs : Pos(x) < NumMpdus}
StartSeqs == {x \in Seqs : Pos(x) <= NumMpdus}

\* No position of the transmit window is set beyond what was assigned, and
\* its first one is not set.
TxWindows ==
  {w \in Windows : /\ w.start \in StartSeqs /\ 0 \notin w.bits
                   /\ \A d \in w.bits : Pos(w.start) + d < NumMpdus}

Bitmaps == {w \in Windows : w.start \in StartSeqs}

\* MPDUs that have had a sequence number, with the given headers.
Known(sq, ar) == {n \in 1 .. ar : sq[n] \in SentSeqs}

\* Only MPDUs with a sequence number are outstanding, in flight or have the
\* Retry bit set, and there are as many as the last number is far from the first.
Originators(sq, ar) ==
  {o \in [arrived : {ar}, queued : SUBSET (1 .. ar), overdue : 0 .. ar,
          firing : Seq(1 .. ar), seq : {sq}, numbered : SUBSET Known(sq, ar),
          retry : SUBSET Known(sq, ar), fly : [Mpdus -> SUBSET Links],
          tries : [Mpdus -> Nat], next : StartSeqs, win : TxWindows,
          list : Seq(Known(sq, ar)), bars : [BarQueues -> Seq({"QUEUED", "SENT"})],
          barIfData : BOOLEAN, ok : SUBSET (1 .. ar), repeats : Nat] :
     /\ \A n \in Mpdus : o.fly[n] # {} => n \in Known(sq, ar)
     /\ Pos(o.next) <= Cardinality(o.numbered)}

\* The reordering buffer starts no earlier than the scoreboard and at most a
\* window after it; its MPDUs are beyond its start and within the scoreboard.
Recipients ==
  {r \in [score : Bitmaps, start : StartSeqs, buf : SUBSET (SentSeqs \X Mpdus),
          up : Seq(Mpdus), last : Seqs \cup {NoSeq}] :
     /\ Pos(r.score.start) <= Pos(r.start) /\ Pos(r.start) <= Pos(r.score.start) + WinSize
     /\ \A e \in r.buf : /\ Pos(r.start) < Pos(e[1])
                         /\ Pos(e[1]) < Pos(r.score.start) + WinSize
     /\ \A e, f \in r.buf : e[1] = f[1] => e = f}

Exchanges(K) ==
  {e \in [phase : {"IDLE", "RTS", "AIR", "RESP"}, kind : {"NONE", "ACK", "BA", "LATER", "BAR"},
          psdu : Seq(K), todo : Seq(K), got : BOOLEAN, blockAck : Bitmaps] :
     /\ e.phase # "IDLE" => e.kind # "NONE"
     /\ e.phase = "RESP" => e.kind # "LATER"
     /\ e.kind = "ACK" => e.psdu # <<>>}

IInv ==
  /\ orig.arrived \in 0 .. NumMpdus /\ orig.seq \in [Mpdus -> Seqs]
  /\ orig \in Originators(orig.seq, orig.arrived)
  /\ recip \in Recipients
  /\ exch \in [Links -> Exchanges(Known(orig.seq, orig.arrived))]

----------------------------------------------------------------------------
(***************************************************************************)
(* Positions and distances.                                                *)
(***************************************************************************)
LEMMA Sizes ==
  /\ SeqSpace \in Nat /\ WinSize \in Nat /\ HalfSpace \in Nat /\ NumMpdus \in Nat
  /\ WinSize > 0 /\ SeqSpace = 2 * HalfSpace /\ WinSize <= HalfSpace /\ NumMpdus < HalfSpace
  /\ StartSeq \in Seqs
<1>1. SeqSpace = 2 * (SeqSpace \div 2) + (SeqSpace % 2) /\ SeqSpace \div 2 \in Nat
  BY SeqWindowAssumption
<1>. QED  BY <1>1, SeqWindowAssumption, OriginatorAssumption, BlockAckAssumption DEF HalfSpace

LEMMA Distance ==
  ASSUME NEW x \in Seqs, NEW y \in Seqs
  PROVE  /\ GetDistance(x, y) \in Seqs
         /\ GetDistance(x, y) = IF x >= y THEN x - y ELSE x - y + SeqSpace
<1>1. CASE x >= y
  <2>1. x - y \in 0 .. SeqSpace - 1 /\ SeqSpace > 0
    BY <1>1, Sizes DEF Seqs
  <2>2. (x - y + SeqSpace) % SeqSpace = x - y
    BY <2>1, Sizes
  <2>. QED  BY <1>1, <2>1, <2>2 DEF GetDistance, Seqs
<1>2. CASE ~(x >= y)
  <2>1. x - y + SeqSpace \in 0 .. SeqSpace - 1 /\ SeqSpace > 0
    BY <1>2, Sizes DEF Seqs
  <2>2. (x - y + SeqSpace) % SeqSpace = x - y + SeqSpace
    BY <2>1, Sizes
  <2>. QED  BY <1>2, <2>1, <2>2 DEF GetDistance, Seqs
<1>. QED  BY <1>1, <1>2

LEMMA DistanceInjective ==
  ASSUME NEW x \in Seqs, NEW y \in Seqs, NEW z \in Seqs, GetDistance(x, z) = GetDistance(y, z)
  PROVE  x = y
<1>1. /\ GetDistance(x, z) = IF x >= z THEN x - z ELSE x - z + SeqSpace
      /\ GetDistance(y, z) = IF y >= z THEN y - z ELSE y - z + SeqSpace
  BY Distance
<1>2. x \in Nat /\ y \in Nat /\ z \in Nat /\ x < SeqSpace /\ y < SeqSpace /\ z < SeqSpace
  BY Sizes DEF Seqs
<1>3. PICK d : d = GetDistance(x, z)
  OBVIOUS
<1>4. /\ d = IF x >= z THEN x - z ELSE x - z + SeqSpace
      /\ d = IF y >= z THEN y - z ELSE y - z + SeqSpace
  BY <1>1, <1>3
<1>5. SeqSpace \in Nat
  BY Sizes
<1>. QED  BY <1>2, <1>4, <1>5

LEMMA PosInSeqs ==
  ASSUME NEW x \in Seqs
  PROVE  Pos(x) \in Seqs /\ Pos(x) = IF x >= StartSeq THEN x - StartSeq ELSE x - StartSeq + SeqSpace
BY Sizes, Distance DEF Pos

LEMMA PosDistance ==
  ASSUME NEW x \in StartSeqs, NEW y \in StartSeqs
  PROVE  /\ Pos(x) \in Nat /\ Pos(y) \in Nat
         /\ GetDistance(x, y) = IF Pos(x) >= Pos(y) THEN Pos(x) - Pos(y)
                                ELSE Pos(x) - Pos(y) + SeqSpace
         /\ IsOld(x, y) <=> Pos(x) < Pos(y)
         /\ Pos(x) = Pos(y) => x = y
<1>1. x \in Seqs /\ y \in Seqs /\ Pos(x) <= NumMpdus /\ Pos(y) <= NumMpdus
  BY DEF StartSeqs
<1>2. /\ Pos(x) = IF x >= StartSeq THEN x - StartSeq ELSE x - StartSeq + SeqSpace
      /\ Pos(y) = IF y >= StartSeq THEN y - StartSeq ELSE y - StartSeq + SeqSpace
      /\ GetDistance(x, y) = IF x >= y THEN x - y ELSE x - y + SeqSpace
  BY <1>1, PosInSeqs, Distance
<1>3. Pos(x) \in Nat /\ Pos(y) \in Nat /\ x \in Nat /\ y \in Nat /\ StartSeq \in Nat
      /\ x < SeqSpace /\ y < SeqSpace /\ StartSeq < SeqSpace
  BY <1>1, PosInSeqs, Sizes DEF Seqs
<1>. HIDE DEF Pos
<1>4. GetDistance(x, y) = IF Pos(x) >= Pos(y) THEN Pos(x) - Pos(y)
                          ELSE Pos(x) - Pos(y) + SeqSpace
  BY <1>1, <1>2, <1>3, Sizes
<1>5. IsOld(x, y) <=> Pos(x) < Pos(y)
  BY <1>1, <1>3, <1>4, Sizes DEF IsOld
<1>6. Pos(x) = Pos(y) => x = y
  BY <1>2, <1>3, Sizes
<1>. QED  BY <1>3, <1>4, <1>5, <1>6

\* A sum within the sequence number space or one turn further.
LEMMA ModSum ==
  ASSUME NEW x \in Seqs, NEW k \in Nat, k <= SeqSpace
  PROVE  (x + k) % SeqSpace = IF x + k < SeqSpace THEN x + k ELSE x + k - SeqSpace
<1>1. x \in Nat /\ x < SeqSpace
  BY Sizes DEF Seqs
<1>2. CASE x + k < SeqSpace
  <2>1. (x + k) \in 0 .. SeqSpace - 1
    BY <1>1, <1>2, Sizes
  <2>. QED  BY <1>1, <1>2, <2>1, Sizes
<1>3. CASE ~(x + k < SeqSpace)
  <2>1. (x + k - SeqSpace) \in 0 .. SeqSpace - 1
    BY <1>1, <1>3, Sizes
  <2>2. PICK y \in 0 .. SeqSpace - 1 : y = x + k - SeqSpace
    BY <2>1
  <2>3. (y + SeqSpace) % SeqSpace = y
    BY y \in 0 .. SeqSpace - 1, Sizes
  <2>4. x + k = y + SeqSpace
    BY <1>1, <2>2, Sizes
  <2>5. (x + k) % SeqSpace = y
    BY <2>3, <2>4
  <2>. QED  BY <1>3, <2>2, <2>5
<1>. QED  BY <1>2, <1>3

LEMMA PosPlus ==
  ASSUME NEW x \in Seqs, NEW k \in Nat, Pos(x) + k <= NumMpdus
  PROVE  /\ (x + k) % SeqSpace \in StartSeqs
         /\ Pos((x + k) % SeqSpace) = Pos(x) + k
<1>1. Pos(x) = IF x >= StartSeq THEN x - StartSeq ELSE x - StartSeq + SeqSpace
  BY PosInSeqs
<1>2. Pos(x) \in Nat /\ x \in Nat /\ StartSeq \in Nat /\ x < SeqSpace /\ StartSeq < SeqSpace
  BY PosInSeqs, Sizes DEF Seqs
<1>3. PICK z : z = (x + k) % SeqSpace
  OBVIOUS
<1>. HIDE DEF Pos
<1>4. z = IF x + k < SeqSpace THEN x + k ELSE x + k - SeqSpace
  BY <1>2, <1>3, ModSum, Sizes
<1>5. z \in Seqs
  BY <1>2, <1>4, Sizes DEF Seqs
<1>6. Pos(z) = IF z >= StartSeq THEN z - StartSeq ELSE z - StartSeq + SeqSpace
  BY <1>5, PosInSeqs
<1>7. Pos(z) = Pos(x) + k
  BY <1>1, <1>2, <1>4, <1>6, Sizes
<1>. QED  BY <1>3, <1>5, <1>7 DEF StartSeqs

LEMMA PosMinus ==
  ASSUME NEW x \in StartSeqs, Pos(x) >= WinSize
  PROVE  /\ (x - WinSize + 1 + SeqSpace) % SeqSpace \in StartSeqs
         /\ Pos((x - WinSize + 1 + SeqSpace) % SeqSpace) = Pos(x) - WinSize + 1
<1>1. Pos(x) = IF x >= StartSeq THEN x - StartSeq ELSE x - StartSeq + SeqSpace
  BY PosInSeqs DEF StartSeqs
<1>2. /\ Pos(x) \in Nat /\ Pos(x) <= NumMpdus /\ x \in Nat /\ StartSeq \in Nat
      /\ x < SeqSpace /\ StartSeq < SeqSpace
  BY PosInSeqs, Sizes DEF Seqs, StartSeqs
<1>3. PICK z : z = (x - WinSize + 1 + SeqSpace) % SeqSpace
  OBVIOUS
<1>. HIDE DEF Pos
<1>4. PICK y \in Int : y = x - WinSize + 1
  BY <1>2, Sizes
<1>5. z = IF y >= 0 THEN y ELSE y + SeqSpace
  <2>1. z = (y + SeqSpace) % SeqSpace
    BY <1>2, <1>3, <1>4, Sizes
  <2>2. CASE y >= 0
    <3>1. y \in 0 .. SeqSpace - 1
      BY <1>2, <1>4, <2>2, Sizes
    <3>. QED  BY <2>1, <2>2, <3>1, Sizes
  <2>3. CASE ~(y >= 0)
    <3>1. y + SeqSpace \in 0 .. SeqSpace - 1
      BY <1>2, <1>4, <2>3, Sizes
    <3>. QED  BY <2>1, <2>3, <3>1, Sizes
  <2>. QED  BY <2>2, <2>3
<1>6. z \in Seqs
  BY <1>2, <1>4, <1>5, Sizes DEF Seqs
<1>7. Pos(z) = IF z >= StartSeq THEN z - StartSeq ELSE z - StartSeq + SeqSpace
  BY <1>6, PosInSeqs
<1>8. Pos(z) = Pos(x) - WinSize + 1
  BY <1>1, <1>2, <1>4, <1>5, <1>7, Sizes
<1>9. Pos(z) <= NumMpdus
  BY <1>2, <1>8, Sizes
<1>. QED  BY <1>3, <1>6, <1>8, <1>9 DEF StartSeqs

----------------------------------------------------------------------------
(***************************************************************************)
(* The transmit window.                                                    *)
(***************************************************************************)
LEMMA StartInTxWindows ==
  ASSUME NEW x \in StartSeqs
  PROVE  InitWindow(x) \in TxWindows
BY DEF InitWindow, TxWindows, Windows, StartSeqs

\* A window that advances within the numbers in use.
LEMMA AdvanceKeeps ==
  ASSUME NEW w, w.start \in Seqs, NEW count \in Nat, Pos(w.start) + count <= NumMpdus
  PROVE  /\ Advance(w, count).start \in StartSeqs
         /\ Pos(Advance(w, count).start) = Pos(w.start) + count
         /\ Advance(w, count).bits \subseteq Positions
         /\ Advance(w, count) \in Windows
BY PosPlus DEF Advance, Windows, StartSeqs

\* The window moves to its first position that is not set.
LEMMA AdvanceTxWindowKeeps ==
  ASSUME NEW w, w.start \in StartSeqs, w.bits \subseteq Nat,
         \A d \in w.bits : Pos(w.start) + d < NumMpdus,
         0 \in w.bits => WinSize \notin w.bits
  PROVE  AdvanceTxWindow(w) \in TxWindows
<1>. DEFINE P(d) == d \notin w.bits /\ \A e \in 0 .. d - 1 : e \in w.bits
            T == {d \in 0 .. WinSize : d \notin w.bits}
            count == CHOOSE d \in 0 .. WinSize : P(d)
<1>1. \E d \in 0 .. WinSize : P(d)
  <2>1. T # {} /\ T \subseteq Nat
    BY Sizes
  <2>2. PICK d \in T : \A k \in T : ~(<<k, d>> \in OpToRel(<, Nat))
    <3>. HIDE DEF T
    <3>. QED  BY <2>1, NatLessThanWellFounded, WFMin, Zenon
  <2>3. \A k \in T : ~(k < d)
    <3>. HIDE DEF T
    <3>. QED  BY <2>1, <2>2 DEF OpToRel
  <2>4. P(d)
    BY <2>3, Sizes
  <2>. QED  BY <2>4
<1>2. count \in 0 .. WinSize /\ P(count)
  <2>. HIDE DEF P
  <2>. QED  BY <1>1
<1>. HIDE DEF count
<1>3. count \in Nat /\ Pos(w.start) \in Nat /\ Pos(w.start) + count <= NumMpdus
  <2>1. Pos(w.start) \in Nat /\ Pos(w.start) <= NumMpdus
    BY PosDistance DEF StartSeqs
  <2>2. count = 0 \/ count - 1 \in 0 .. count - 1
    BY <1>2, Sizes
  <2>3. count = 0 \/ Pos(w.start) + (count - 1) < NumMpdus
    BY <1>2, <2>2
  <2>. QED  BY <1>2, <2>1, <2>3, Sizes
<1>4. AdvanceTxWindow(w) = Advance(w, count)
  BY DEF AdvanceTxWindow, count
<1>5. /\ Advance(w, count).start \in StartSeqs
      /\ Pos(Advance(w, count).start) = Pos(w.start) + count
      /\ Advance(w, count) \in Windows
  BY <1>3, AdvanceKeeps DEF StartSeqs
<1>6. 0 \notin Advance(w, count).bits
  BY <1>2 DEF Advance
<1>7. \A d \in Advance(w, count).bits : Pos(w.start) + count + d < NumMpdus
  <2>1. \A d \in Advance(w, count).bits : d \in Nat /\ d + count \in w.bits
    BY DEF Advance, Positions
  <2>. QED  BY <1>3, <2>1
<1>. HIDE DEF Pos
<1>. QED  BY <1>4, <1>5, <1>6, <1>7 DEF TxWindows

LEMMA NotifyTransmittedKeeps ==
  ASSUME NEW w \in TxWindows, NEW x \in SentSeqs
  PROVE  NotifyTransmittedMpdu(w, x) \in TxWindows
<1>. DEFINE d == GetDistance(x, w.start)
            v == Advance(w, d - WinSize + 1)
<1>. SUFFICES ASSUME d < HalfSpace, d >= WinSize PROVE AdvanceTxWindow(v) \in TxWindows
  BY DEF NotifyTransmittedMpdu
<1>1. x \in StartSeqs /\ w.start \in StartSeqs /\ Pos(x) < NumMpdus
  BY Sizes, PosInSeqs DEF SentSeqs, StartSeqs, TxWindows, Seqs
<1>2. d = Pos(x) - Pos(w.start) /\ Pos(x) \in Nat /\ Pos(w.start) \in Nat
  BY <1>1, PosDistance, Sizes DEF StartSeqs
<1>3. d - WinSize + 1 \in Nat /\ Pos(w.start) + (d - WinSize + 1) <= NumMpdus
  BY <1>1, <1>2, Sizes
<1>. HIDE DEF d
<1>4. /\ v.start \in StartSeqs /\ v.bits \subseteq Positions
      /\ Pos(v.start) = Pos(w.start) + (d - WinSize + 1)
  BY <1>1, <1>3, AdvanceKeeps DEF StartSeqs
<1>5. \A e \in v.bits : e \in Nat /\ e + (d - WinSize + 1) \in w.bits
  BY DEF Advance, Positions
<1>6. \A e \in v.bits : Pos(v.start) + e < NumMpdus
  <2>1. \A e \in v.bits : Pos(w.start) + (e + (d - WinSize + 1)) < NumMpdus
    BY <1>5 DEF TxWindows
  <2>. QED  BY <1>2, <1>3, <1>4, <1>5, <2>1
<1>7. WinSize \notin v.bits /\ v.bits \subseteq Nat
  BY <1>4, Sizes DEF Positions
<1>. HIDE DEF v
<1>. QED  BY <1>4, <1>6, <1>7, AdvanceTxWindowKeeps

LEMMA NotifyAckedKeeps ==
  ASSUME NEW w \in TxWindows, NEW x \in SentSeqs
  PROVE  NotifyAckedMpdu(w, x) \in TxWindows
<1>. DEFINE d == GetDistance(x, w.start)
            v == [w EXCEPT !.bits = @ \cup {d}]
<1>. SUFFICES ASSUME ~IsOld(x, w.start) PROVE AdvanceTxWindow(v) \in TxWindows
  BY DEF NotifyAckedMpdu
<1>1. x \in StartSeqs /\ w.start \in StartSeqs /\ Pos(x) < NumMpdus
  BY Sizes, PosInSeqs DEF SentSeqs, StartSeqs, TxWindows, Seqs
<1>2. d = Pos(x) - Pos(w.start) /\ d \in Nat /\ Pos(x) \in Nat /\ Pos(w.start) \in Nat
  BY <1>1, PosDistance, Sizes
<1>. HIDE DEF d
<1>3. v.start = w.start /\ v.bits = w.bits \cup {d}
  BY DEF TxWindows, Windows
<1>4. w.bits \subseteq Positions /\ 0 \notin w.bits /\ \A e \in w.bits : Pos(w.start) + e < NumMpdus
  BY DEF TxWindows, Windows
<1>5. v.bits \subseteq Nat /\ \A e \in v.bits : Pos(v.start) + e < NumMpdus
  BY <1>1, <1>2, <1>3, <1>4 DEF Positions
<1>6. 0 \in v.bits => WinSize \notin v.bits
  BY <1>2, <1>3, <1>4, Sizes DEF Positions
<1>. HIDE DEF v
<1>. QED  BY <1>1, <1>3, <1>5, <1>6, AdvanceTxWindowKeeps

LEMMA NotifyDiscardedKeeps ==
  ASSUME NEW w \in TxWindows, NEW x \in SentSeqs
  PROVE  NotifyDiscardedMpdu(w, x) \in TxWindows
<1>. DEFINE d == GetDistance(x, w.start)
            v == Advance(w, d + 1)
<1>. SUFFICES ASSUME ~IsOld(x, w.start) PROVE AdvanceTxWindow(v) \in TxWindows
  BY DEF NotifyDiscardedMpdu
<1>1. x \in StartSeqs /\ w.start \in StartSeqs /\ Pos(x) < NumMpdus
  BY Sizes, PosInSeqs DEF SentSeqs, StartSeqs, TxWindows, Seqs
<1>2. d = Pos(x) - Pos(w.start) /\ d \in Nat /\ Pos(x) \in Nat /\ Pos(w.start) \in Nat
  BY <1>1, PosDistance, Sizes
<1>3. d + 1 \in Nat /\ Pos(w.start) + (d + 1) <= NumMpdus
  BY <1>1, <1>2, Sizes
<1>. HIDE DEF d
<1>4. /\ v.start \in StartSeqs /\ v.bits \subseteq Positions
      /\ Pos(v.start) = Pos(w.start) + (d + 1)
  BY <1>1, <1>3, AdvanceKeeps DEF StartSeqs
<1>5. \A e \in v.bits : e \in Nat /\ e + (d + 1) \in w.bits
  BY DEF Advance, Positions
<1>6. \A e \in v.bits : Pos(v.start) + e < NumMpdus
  <2>1. \A e \in v.bits : Pos(w.start) + (e + (d + 1)) < NumMpdus
    BY <1>5 DEF TxWindows
  <2>. QED  BY <1>2, <1>3, <1>4, <1>5, <2>1
<1>7. WinSize \notin v.bits /\ v.bits \subseteq Nat
  BY <1>4, Sizes DEF Positions
<1>. HIDE DEF v
<1>. QED  BY <1>4, <1>6, <1>7, AdvanceTxWindowKeeps

----------------------------------------------------------------------------
(***************************************************************************)
(* The recipient.                                                          *)
(***************************************************************************)
RecipientTypes ==
  [score : Bitmaps, start : StartSeqs, buf : SUBSET (SentSeqs \X Mpdus),
   up : Seq(Mpdus), last : Seqs \cup {NoSeq}]

\* An agreement while the buffer is processed: an MPDU may be at its start.
Storing ==
  {r \in RecipientTypes :
     /\ \A e \in r.buf : /\ Pos(r.start) <= Pos(e[1])
                         /\ Pos(e[1]) < Pos(r.score.start) + WinSize
     /\ \A e, f \in r.buf : e[1] = f[1] => e = f}

LEMMA SentIsStart ==
  ASSUME NEW x \in SentSeqs
  PROVE  x \in StartSeqs /\ x \in Seqs /\ Pos(x) \in Nat /\ Pos(x) < NumMpdus
BY Sizes, PosInSeqs DEF SentSeqs, StartSeqs, Seqs

LEMMA ReceiveKeeps ==
  ASSUME NEW r \in RecipientTypes, NEW e \in SentSeqs \X Mpdus
  PROVE  /\ Receive(r, e) \in RecipientTypes /\ Receive(r, e).start = r.start
         /\ Receive(r, e).score = r.score /\ Receive(r, e).buf = r.buf
<1>1. e[1] \in Seqs \cup {NoSeq} /\ e[2] \in Mpdus
  BY DEF SentSeqs
<1>2. Append(r.up, e[2]) \in Seq(Mpdus)
  BY <1>1 DEF RecipientTypes
<1>. HIDE DEF Mpdus, NoSeq
<1>. QED  BY <1>1, <1>2 DEF Receive, RecipientTypes

\* Entries of the buffer are passed up.
LEMMA PassUpKeeps ==
  ASSUME NEW r \in RecipientTypes, NEW entries \in SUBSET r.buf,
         \A e, f \in r.buf : e[1] = f[1] => e = f
  PROVE  /\ PassUp(r, entries) \in RecipientTypes
         /\ PassUp(r, entries).start = r.start /\ PassUp(r, entries).score = r.score
         /\ PassUp(r, entries).buf = r.buf \ entries
<1>. DEFINE place == [x \in entries |-> GetDistance(x[1], r.start)]
            sorted == InOrder(entries, place)
            X == {q \in RecipientTypes : q.start = r.start /\ q.score = r.score /\ q.buf = r.buf}
            p == FoldLeft(Receive, r, sorted)
<1>0. \A x \in r.buf : x \in SentSeqs \X Mpdus /\ x[1] \in Seqs
  BY DEF RecipientTypes, SentSeqs
<1>1. r.start \in Seqs
  BY DEF RecipientTypes, StartSeqs
<1>2. /\ place \in [entries -> Nat] /\ SeqSpace \in Nat
      /\ \A x \in entries : place[x] < SeqSpace
      /\ \A x, y \in entries : place[x] = place[y] => x = y
  <2>1. \A x \in entries : place[x] \in Seqs
    BY <1>0, <1>1, Distance
  <2>2. ASSUME NEW x \in entries, NEW y \in entries, place[x] = place[y] PROVE x = y
    <3>1. GetDistance(x[1], r.start) = GetDistance(y[1], r.start)
      BY <2>2
    <3>2. x[1] = y[1]
      BY <1>0, <1>1, <3>1, DistanceInjective
    <3>. QED  BY <3>2
  <2>. QED  BY <2>1, <2>2, Sizes DEF Seqs
<1>3. sorted \in Seq(entries)
  <2>. HIDE DEF place
  <2>. QED  BY <1>2, InOrderEnumerates, Zenon
<1>4. sorted \in Seq(SentSeqs \X Mpdus)
  <2>. HIDE DEF sorted
  <2>. QED  BY <1>0, <1>3
<1>5. p \in X
  <2>. HIDE DEF sorted
  <2>1. r \in X
    OBVIOUS
  <2>2. \A q \in X, e \in SentSeqs \X Mpdus : Receive(q, e) \in X
    BY ReceiveKeeps
  <2>. HIDE DEF X
  <2>. QED  BY <1>4, <2>1, <2>2, ReceiveFold, Zenon
<1>6. PassUp(r, entries) = [p EXCEPT !.buf = @ \ entries]
  BY DEF PassUp
<1>. HIDE DEF p
<1>7. p \in RecipientTypes /\ p.start = r.start /\ p.score = r.score /\ p.buf = r.buf
  BY <1>5
<1>8. p.buf \ entries \subseteq SentSeqs \X Mpdus
  BY <1>0, <1>7
<1>. QED  BY <1>6, <1>7, <1>8 DEF RecipientTypes

----------------------------------------------------------------------------
(***************************************************************************)
(* What the recipient passes up, in order.                                 *)
(***************************************************************************)
LEMMA AppendNext ==
  ASSUME NEW T, NEW head \in Seq(T), NEW all \in Seq(T), NEW part \in Seq(T),
         Len(all) = Len(part) + 1, \A j \in 1 .. Len(part) : part[j] = all[j]
  PROVE  Append(head \o part, all[Len(all)]) = head \o all
<1>1. PICK k : k = Len(part)
  OBVIOUS
<1>2. k \in Nat /\ Len(all) = k + 1 /\ all[k + 1] \in T
  BY <1>1
<1>3. all = Append(part, all[k + 1])
  <2>1. \A j \in 1 .. k + 1 : Append(part, all[k + 1])[j] = all[j]
    BY <1>1, <1>2
  <2>2. Append(part, all[k + 1]) \in Seq(T) /\ Len(Append(part, all[k + 1])) = k + 1
    BY <1>1, <1>2
  <2>. QED  BY <1>2, <2>1, <2>2
<1>4. PICK x \in T : x = all[k + 1]
  BY <1>2
<1>5. part \o <<x>> = all
  BY <1>3, <1>4, AppendIsConcat
<1>6. head \o part \in Seq(T) /\ <<x>> \in Seq(T)
  OBVIOUS
<1>7. Append(head \o part, x) = (head \o part) \o <<x>>
  BY <1>6, AppendIsConcat
<1>8. (head \o part) \o <<x>> = head \o (part \o <<x>>)
  <2>1. PICK y \in Seq(T) : y = <<x>>
    BY <1>6
  <2>2. (head \o part) \o y = head \o (part \o y)
    BY ConcatAssociative, SMTT(30)
  <2>. QED  BY <2>1, <2>2
<1>. QED  BY <1>2, <1>4, <1>5, <1>7, <1>8

\* The MPDUs of the first i entries of a list.
MpdusOf(list, i) == [j \in 1 .. i |-> list[j][2]]

LEMMA MpdusOfSeq ==
  ASSUME NEW list \in Seq(SentSeqs \X Mpdus), NEW i \in 0 .. Len(list)
  PROVE  /\ MpdusOf(list, i) \in Seq(Mpdus) /\ Len(MpdusOf(list, i)) = i
         /\ \A j \in 1 .. i : MpdusOf(list, i)[j] = list[j][2]
<1>1. i \in Nat /\ \A j \in 1 .. i : j \in 1 .. Len(list) /\ list[j][2] \in Mpdus
  OBVIOUS
<1>2. MpdusOf(list, i) \in [1 .. i -> Mpdus]
  BY <1>1 DEF MpdusOf
<1>. QED  BY <1>1, <1>2 DEF MpdusOf

LEMMA MpdusOfNext ==
  ASSUME NEW base \in Seq(Mpdus), NEW list \in Seq(SentSeqs \X Mpdus), NEW i \in 1 .. Len(list)
  PROVE  Append(base \o MpdusOf(list, i - 1), list[i][2]) = base \o MpdusOf(list, i)
<1>1. PICK t, w : t = MpdusOf(list, i) /\ w = MpdusOf(list, i - 1)
  OBVIOUS
<1>2. i \in 0 .. Len(list) /\ i - 1 \in 0 .. Len(list) /\ i \in Nat
  OBVIOUS
<1>3. /\ t \in Seq(Mpdus) /\ Len(t) = i /\ \A j \in 1 .. i : t[j] = list[j][2]
      /\ w \in Seq(Mpdus) /\ Len(w) = i - 1 /\ \A j \in 1 .. i - 1 : w[j] = list[j][2]
  <2>. HIDE DEF Mpdus
  <2>. QED  BY <1>1, <1>2, MpdusOfSeq
<1>4. Len(t) = Len(w) + 1 /\ \A j \in 1 .. Len(w) : w[j] = t[j]
  <2>1. ASSUME NEW j \in 1 .. i - 1 PROVE w[j] = t[j]
    <3>1. j \in 1 .. i
      BY <1>2
    <3>. QED  BY <1>3, <3>1
  <2>. HIDE DEF Mpdus
  <2>. QED  BY <1>2, <1>3, <2>1
<1>5. Append(base \o w, t[Len(t)]) = base \o t
  <2>. HIDE DEF Mpdus
  <2>. QED  BY <1>3, <1>4, AppendNext
<1>6. t[Len(t)] = list[i][2]
  BY <1>2, <1>3
<1>. QED  BY <1>1, <1>5, <1>6, Zenon

LEMMA ElementsOfConcat ==
  ASSUME NEW T, NEW u \in Seq(T), NEW v \in Seq(T)
  PROVE  ToSet(u \o v) = ToSet(u) \cup ToSet(v)
<1>1. \A s : ToSet(s) = Range(s)
  BY DEF ToSet, Range
<1>2. Range(u \o v) = Range(u) \cup Range(v)
  BY RangeConcatenation
<1>. QED  BY <1>1, <1>2, Zenon

\* g runs through what FoldLeft(Receive, base, list) is made of.
Runs(g, base, list) ==
  /\ g[0] = base /\ g[Len(list)] = FoldLeft(Receive, base, list)
  /\ \A i \in 1 .. Len(list) : g[i] = Receive(g[i - 1], list[i])

\* The MPDUs passed up one after the other.
LEMMA ReceiveRuns ==
  ASSUME NEW X, NEW Y, NEW base \in X, NEW list \in Seq(Y),
         \A p \in X, n \in Y : Receive(p, n) \in X
  PROVE  \E g : Runs(g, base, list)
<1>. DEFINE k == Len(list)
            Step(p, n) == Receive(p, n)
            F == [x \in X \X Y |-> Step(x[1], x[2])]
            Sol(g) == g = [s \in SUBSET (1 .. k) |->
                             IF s = {} THEN base ELSE Step(g[s \ {Max(s)}], list[Max(s)])]
            it == CHOOSE g : Sol(g)
            run == [i \in 0 .. k |-> it[1 .. i]]
<1>1. F \in [X \X Y -> X] /\ k \in Nat /\ list \in [1 .. k -> Y]
  <2>1. \A p \in X, n \in Y : Step(p, n) \in X
    OBVIOUS
  <2>. HIDE DEF Step
  <2>. QED  BY <2>1
<1>2. FoldLeft(Receive, base, list) = it[1 .. k]
  <2>1. DOMAIN list = 1 .. k
    OBVIOUS
  <2>. QED  BY <2>1 DEF FoldLeft, MapThenFoldSet
<1>3. \A p \in X, n \in Y : F[<<p, n>>] = Step(p, n)
  OBVIOUS
<1>4. it[{}] = base /\ \A s \in SUBSET (1 .. k) : s # {} =>
          it[s] = Step(it[s \ {Max(s)}], list[Max(s)])
  <2>. HIDE DEF F, k
  <2>1. PICK g : IsFold(g, X, Y, k, base, F, list)
    BY <1>1, FoldExists, Zenon
  <2>2. Sol(g)
    <3>. HIDE DEF Step
    <3>. QED  BY <1>3, <2>1 DEF IsFold
  <2>3. Sol(it)
    BY <2>2, Zenon
  <2>. HIDE DEF it, Step
  <2>. QED  BY <2>3
<1>. HIDE DEF it, k
<1>5. ASSUME NEW i \in 1 .. k PROVE run[i] = Step(run[i - 1], list[i])
  <2>1. 1 .. i # {} /\ 1 .. i \in SUBSET (1 .. k) /\ i \in 1 .. i /\ i \in Nat
        /\ (1 .. i) \ {i} = 1 .. i - 1
    <3>1. i \in Nat /\ k \in Nat /\ 1 <= i /\ i <= k
      BY <1>1
    <3>2. (1 .. i) \ {i} = 1 .. i - 1
      BY <3>1
    <3>3. 1 .. i \in SUBSET (1 .. k)
      BY <3>1
    <3>4. i \in 1 .. i
      BY <3>1
    <3>. QED  BY <3>1, <3>2, <3>3, <3>4, Zenon
  <2>2. Max(1 .. i) \in 1 .. i /\ \A j \in 1 .. i : j <= Max(1 .. i)
    BY <2>1, MaxOfIndices
  <2>3. Max(1 .. i) = i
    BY <2>1, <2>2
  <2>4. it[1 .. i] = Step(it[1 .. i - 1], list[i])
    BY <1>4, <2>1, <2>3, Zenon
  <2>5. i \in 0 .. k /\ i - 1 \in 0 .. k
    BY <1>1
  <2>. QED  BY <2>4, <2>5
<1>6. run[0] = base /\ run[k] = it[1 .. k]
  <2>1. 0 \in 0 .. k /\ k \in 0 .. k /\ 1 .. 0 = {}
    BY <1>1
  <2>. QED  BY <1>4, <2>1
<1>. HIDE DEF run
<1>. QED  BY <1>2, <1>5, <1>6 DEF k, Runs

\* Entries of the buffer passed up, by position.
Places(E) == [e \in E |-> Pos(e[1])]

Passed(r, q, E) ==
  /\ E \subseteq r.buf /\ q.buf = r.buf \ E
  /\ \E m, s : Enumerates(s, m, E, Places(E)) /\ q.up = r.up \o MpdusOf(s, m)
  /\ q.last = r.last \/ \E e \in E : q.last = e[1]

\* What MacRxMiddle saw last comes before what the buffer starts with.
LastBefore(r) == r.last = NoSeq \/ (r.last \in SentSeqs /\ Pos(r.last) < Pos(r.start))

\* Entries of the buffer, sorted by how far they are from its start: none of
\* them repeats the last sequence number.
LEMMA PassUpOrdered ==
  ASSUME NEW r \in RecipientTypes, NEW E \in SUBSET r.buf,
         \A e, f \in r.buf : e[1] = f[1] => e = f,
         \A e \in E : Pos(r.start) <= Pos(e[1]), LastBefore(r)
  PROVE  Passed(r, PassUp(r, E), E)
<1>. DEFINE place == [x \in E |-> GetDistance(x[1], r.start)]
            s == InOrder(E, place)
            m == Cardinality(E)
            p == FoldLeft(Receive, r, s)
<1>1. /\ r.up \in Seq(Mpdus) /\ r.start \in StartSeqs
      /\ \A x \in E : x \in SentSeqs \X Mpdus /\ x[1] \in SentSeqs /\ x[2] \in Mpdus
                      /\ x[1] \in Seqs /\ x[1] \in StartSeqs
  BY SentIsStart DEF RecipientTypes
<1>2. /\ place \in [E -> Nat] /\ SeqSpace \in Nat
      /\ \A x \in E : place[x] < SeqSpace
      /\ \A x \in E : place[x] = Pos(x[1]) - Pos(r.start) /\ Pos(x[1]) \in Nat /\ Pos(r.start) \in Nat
      /\ \A x, y \in E : place[x] = place[y] => x = y
  <2>1. \A x \in E : place[x] \in Seqs
    BY <1>1, Distance DEF StartSeqs
  <2>2. \A x \in E : place[x] = Pos(x[1]) - Pos(r.start) /\ Pos(x[1]) \in Nat /\ Pos(r.start) \in Nat
    <3>. SUFFICES ASSUME NEW x \in E
                  PROVE  place[x] = Pos(x[1]) - Pos(r.start) /\ Pos(x[1]) \in Nat /\ Pos(r.start) \in Nat
      OBVIOUS
    <3>1. /\ GetDistance(x[1], r.start) = Pos(x[1]) - Pos(r.start)
          /\ Pos(x[1]) \in Nat /\ Pos(r.start) \in Nat
      BY <1>1, PosDistance
    <3>. QED  BY <3>1
  <2>3. ASSUME NEW x \in E, NEW y \in E, place[x] = place[y] PROVE x = y
    <3>1. GetDistance(x[1], r.start) = GetDistance(y[1], r.start)
      BY <2>3
    <3>2. x[1] = y[1]
      BY <1>1, <3>1, DistanceInjective DEF StartSeqs
    <3>. QED  BY <3>2
  <2>4. \A x \in E : place[x] \in Nat /\ place[x] < SeqSpace
    <3>. HIDE DEF place
    <3>. QED  BY <2>1, Sizes DEF Seqs
  <2>5. place \in [E -> Nat]
    BY <2>4
  <2>. HIDE DEF place
  <2>. QED  BY <2>2, <2>3, <2>4, <2>5, Sizes
<1>. HIDE DEF place
<1>3. Enumerates(s, m, E, place)
  BY <1>2, InOrderIsOrdered, Zenon
<1>. HIDE DEF s, m
<1>4. /\ m \in Nat /\ s \in [1 .. m -> E] /\ s \in Seq(E) /\ Len(s) = m
      /\ \A i, j \in 1 .. m : i < j => Pos(s[i][1]) < Pos(s[j][1])
  <2>1. m \in Nat /\ s \in [1 .. m -> E] /\ \A i, j \in 1 .. m : i < j => place[s[i]] < place[s[j]]
    BY <1>3 DEF Enumerates
  <2>2. ASSUME NEW i \in 1 .. m, NEW j \in 1 .. m, i < j PROVE Pos(s[i][1]) < Pos(s[j][1])
    BY <1>2, <2>1, <2>2
  <2>. QED  BY <2>1, <2>2
<1>5. Enumerates(s, m, E, Places(E))
  BY <1>3, <1>4 DEF Enumerates, Places
<1>. DEFINE X == {q \in RecipientTypes : q.start = r.start /\ q.score = r.score /\ q.buf = r.buf}
<1>6. /\ r \in X /\ s \in Seq(SentSeqs \X Mpdus)
      /\ \A q \in X, e \in SentSeqs \X Mpdus : Receive(q, e) \in X
  <2>1. s \in Seq(SentSeqs \X Mpdus)
    BY <1>1, <1>4
  <2>2. \A q \in X, e \in SentSeqs \X Mpdus : Receive(q, e) \in X
    BY ReceiveKeeps
  <2>. QED  BY <2>1, <2>2
<1>7. PICK g : g[0] = r /\ g[m] = p /\ \A i \in 1 .. m : g[i] = Receive(g[i - 1], s[i])
  <2>1. PICK Y : Y = SentSeqs \X Mpdus
    OBVIOUS
  <2>. HIDE DEF X, p
  <2>2. r \in X /\ s \in Seq(Y) /\ \A q \in X, e \in Y : Receive(q, e) \in X
    BY <1>6, <2>1
  <2>3. \E g : Runs(g, r, s)
    BY <2>2, ReceiveRuns, Zenon
  <2>. QED  BY <1>4, <2>3 DEF p, Runs
<1>. HIDE DEF p
<1>. DEFINE J == {i \in 0 .. m : /\ g[i] \in X /\ g[i].up = r.up \o MpdusOf(s, i)
                                 /\ g[i].last = IF i = 0 THEN r.last ELSE s[i][1]}
<1>8. 0 \in J
  <2>1. MpdusOf(s, 0) = <<>> /\ 0 \in 0 .. m
    BY <1>4 DEF MpdusOf
  <2>2. r.up \o <<>> = r.up
    BY <1>1, ConcatEmptySeq
  <2>. HIDE DEF X
  <2>. QED  BY <1>6, <1>7, <2>1, <2>2
<1>9. ASSUME NEW i \in 1 .. m, i - 1 \in J PROVE i \in J
  <2>1. i \in Nat /\ i > 0 /\ i \in 0 .. m /\ s[i] \in E
    BY <1>4
  <2>2. g[i - 1] \in X /\ g[i - 1].up = r.up \o MpdusOf(s, i - 1)
        /\ g[i - 1].last = IF i - 1 = 0 THEN r.last ELSE s[i - 1][1]
    BY <1>9
  <2>3. s[i][1] # g[i - 1].last
    <3>1. CASE i = 1
      BY <1>1, <1>2, <2>1, <2>2, <3>1 DEF LastBefore, NoSeq, SentSeqs, Seqs
    <3>2. CASE i # 1
      <4>1. i - 1 \in 1 .. m /\ i - 1 < i /\ i - 1 # 0
        BY <1>4, <3>2
      <4>2. Pos(s[i - 1][1]) < Pos(s[i][1]) /\ s[i - 1] \in E
        BY <1>4, <4>1
      <4>. QED  BY <1>2, <2>1, <2>2, <4>1, <4>2
    <3>. QED  BY <3>1, <3>2
  <2>4. g[i] = [g[i - 1] EXCEPT !.up = Append(r.up \o MpdusOf(s, i - 1), s[i][2]), !.last = s[i][1]]
    <3>. HIDE DEF X
    <3>1. PICK h : h = g[i - 1]
      OBVIOUS
    <3>2. g[i] = Receive(h, s[i])
      BY <1>7, <3>1
    <3>. QED  BY <2>2, <2>3, <3>1, <3>2 DEF Receive
  <2>5. Append(r.up \o MpdusOf(s, i - 1), s[i][2]) = r.up \o MpdusOf(s, i)
    <3>1. i \in 1 .. Len(s) /\ r.up \in Seq(Mpdus)
      BY <1>1, <1>4
    <3>. QED  BY <1>6, <3>1, MpdusOfNext
  <2>6. g[i] \in X
    <3>1. g[i] = Receive(g[i - 1], s[i])
      BY <1>7
    <3>. HIDE DEF X
    <3>. QED  BY <1>1, <1>6, <2>1, <2>2, <3>1
  <2>7. g[i - 1] \in RecipientTypes
    BY <2>2
  <2>8. g[i].up = r.up \o MpdusOf(s, i) /\ g[i].last = s[i][1]
    <3>. HIDE DEF X
    <3>. QED  BY <2>4, <2>5, <2>7 DEF RecipientTypes
  <2>. HIDE DEF X
  <2>. QED  BY <2>1, <2>6, <2>8
<1>. HIDE DEF J
<1>10. m \in J
  <2>1. 0 .. m \subseteq J
    BY <1>4, <1>8, <1>9, IndexInduction, Zenon
  <2>2. m \in 0 .. m
    BY <1>4
  <2>. QED  BY <2>1, <2>2
<1>11. /\ p \in RecipientTypes /\ p.buf = r.buf /\ p.up = r.up \o MpdusOf(s, m)
       /\ p.last = r.last \/ \E e \in E : p.last = e[1]
  <2>1. /\ p \in X /\ p.up = r.up \o MpdusOf(s, m) /\ p.last = IF m = 0 THEN r.last ELSE s[m][1]
    <3>. HIDE DEF X
    <3>. QED  BY <1>7, <1>10 DEF J
  <2>2. m # 0 => s[m] \in E
    BY <1>4
  <2>. QED  BY <2>1, <2>2
<1>12. PassUp(r, E) = [p EXCEPT !.buf = r.buf \ E]
  BY <1>11 DEF PassUp, p, s, place
<1>13. PICK q : q = PassUp(r, E)
  OBVIOUS
<1>14. q.buf = r.buf \ E /\ q.up = p.up /\ q.last = p.last
  BY <1>11, <1>12, <1>13 DEF RecipientTypes
<1>15. Passed(r, q, E)
  <2>1. Enumerates(s, m, E, Places(E)) /\ q.up = r.up \o MpdusOf(s, m)
    BY <1>5, <1>11, <1>14
  <2>2. \E n, o : Enumerates(o, n, E, Places(E)) /\ q.up = r.up \o MpdusOf(o, n)
    BY <2>1, Zenon
  <2>3. E \subseteq r.buf
    OBVIOUS
  <2>. QED  BY <1>11, <1>14, <2>2, <2>3, Zenon DEF Passed
<1>. QED  BY <1>13, <1>15

\* Flush: the buffer starts further on.
LEMMA PassLessKeeps ==
  ASSUME NEW r \in Storing, NEW x \in StartSeqs, Pos(r.start) <= Pos(x)
  PROVE  /\ PassBufferedMpdusWithSeqNumberLessThan(r, x) \in Storing
         /\ PassBufferedMpdusWithSeqNumberLessThan(r, x).start = x
         /\ PassBufferedMpdusWithSeqNumberLessThan(r, x).score = r.score
         /\ PassBufferedMpdusWithSeqNumberLessThan(r, x).buf \subseteq r.buf
<1>. DEFINE less == {e \in r.buf : GetDistance(e[1], r.start) < GetDistance(x, r.start)}
            p == PassUp(r, less)
            q == [p EXCEPT !.start = x]
<1>1. r \in RecipientTypes /\ less \in SUBSET r.buf /\ \A e, f \in r.buf : e[1] = f[1] => e = f
  BY DEF Storing
<1>2. p \in RecipientTypes /\ p.score = r.score /\ p.buf = r.buf \ less
  <2>. HIDE DEF less
  <2>. QED  BY <1>1, PassUpKeeps
<1>3. \A e \in r.buf \ less : Pos(x) <= Pos(e[1])
  <2>. SUFFICES ASSUME NEW e \in r.buf, e \notin less PROVE Pos(x) <= Pos(e[1])
    OBVIOUS
  <2>1. e[1] \in StartSeqs /\ r.start \in StartSeqs /\ Pos(r.start) <= Pos(e[1])
    BY SentIsStart DEF Storing, RecipientTypes
  <2>2. /\ GetDistance(e[1], r.start) = Pos(e[1]) - Pos(r.start)
        /\ GetDistance(x, r.start) = Pos(x) - Pos(r.start)
        /\ Pos(e[1]) \in Nat /\ Pos(r.start) \in Nat /\ Pos(x) \in Nat
    BY <2>1, PosDistance
  <2>3. ~(GetDistance(e[1], r.start) < GetDistance(x, r.start))
    OBVIOUS
  <2>. QED  BY <2>2, <2>3
<1>4. PassBufferedMpdusWithSeqNumberLessThan(r, x) = q
  BY DEF PassBufferedMpdusWithSeqNumberLessThan
<1>. HIDE DEF p, less
<1>5. q \in RecipientTypes /\ q.start = x /\ q.score = r.score /\ q.buf = r.buf \ less
  BY <1>2 DEF RecipientTypes
<1>. HIDE DEF q
<1>6. q \in Storing
  BY <1>1, <1>3, <1>5 DEF Storing
<1>. QED  BY <1>4, <1>5, <1>6

(***************************************************************************)
(* The two ways the recipient moves its buffer.                            *)
(***************************************************************************)
Within(r, d) == {e \in r.buf : GetDistance(e[1], r.start) < d}

\* d positions from the start of the buffer are filled, the next one is not.
IsRun(r, d) ==
  /\ d \in Nat
  /\ PassBufferedMpdusUntilFirstLost(r)
       = [PassUp(r, Within(r, d)) EXCEPT !.start = (r.start + d) % SeqSpace]
  /\ (r.start + d) % SeqSpace \in StartSeqs \ BufferedSeqs(r)
  /\ Pos((r.start + d) % SeqSpace) = Pos(r.start) + d
  /\ Pos(r.start) + d <= Pos(r.score.start) + WinSize
  /\ \A e \in 0 .. d - 1 : (r.start + e) % SeqSpace \in BufferedSeqs(r)

LEMMA PassUntilRun ==
  ASSUME NEW r \in Storing, Pos(r.score.start) <= Pos(r.start),
         Pos(r.start) <= Pos(r.score.start) + WinSize
  PROVE  \E d : IsRun(r, d)
<1>. DEFINE at(d) == (r.start + d) % SeqSpace
            P(d) == at(d) \notin BufferedSeqs(r) /\ \A e \in 0 .. d - 1 : at(e) \in BufferedSeqs(r)
            gap == CHOOSE d \in 0 .. SeqSpace : P(d)
            room == NumMpdus - Pos(r.start)
            run == {e \in r.buf : GetDistance(e[1], r.start) < gap}
<1>1. /\ r \in RecipientTypes /\ r.start \in StartSeqs /\ r.score.start \in StartSeqs
      /\ r.start \in Seqs
  BY DEF Storing, RecipientTypes, StartSeqs, Bitmaps
<1>2. Pos(r.start) \in Nat /\ Pos(r.start) <= NumMpdus /\ Pos(r.score.start) \in Nat /\ room \in 0 .. SeqSpace
  BY <1>1, PosDistance, Sizes DEF StartSeqs
<1>3. \A x \in BufferedSeqs(r) : /\ x \in SentSeqs /\ Pos(r.start) <= Pos(x)
                                 /\ Pos(x) < Pos(r.score.start) + WinSize
  BY <1>1 DEF BufferedSeqs, Storing, RecipientTypes
<1>4. \A d \in 0 .. room : at(d) \in StartSeqs /\ Pos(at(d)) = Pos(r.start) + d
  <2>. SUFFICES ASSUME NEW d \in 0 .. room
                PROVE  at(d) \in StartSeqs /\ Pos(at(d)) = Pos(r.start) + d
    OBVIOUS
  <2>1. d \in Nat /\ Pos(r.start) + d <= NumMpdus
    BY <1>2, Sizes
  <2>. QED  BY <1>1, <2>1, PosPlus
<1>. HIDE DEF at
<1>5. at(room) \notin BufferedSeqs(r)
  <2>1. Pos(at(room)) = NumMpdus
    BY <1>2, <1>4, Sizes
  <2>. QED  BY <1>3, <2>1, SentIsStart
<1>6. \E d \in 0 .. SeqSpace : P(d)
  <2>. DEFINE T == {d \in 0 .. room : at(d) \notin BufferedSeqs(r)}
  <2>1. T # {} /\ T \subseteq Nat
    BY <1>2, <1>5
  <2>2. PICK d \in T : \A k \in T : ~(<<k, d>> \in OpToRel(<, Nat))
    <3>. HIDE DEF T
    <3>. QED  BY <2>1, NatLessThanWellFounded, WFMin, Zenon
  <2>3. \A k \in T : ~(k < d)
    <3>. HIDE DEF T
    <3>. QED  BY <2>1, <2>2 DEF OpToRel
  <2>4. d \in 0 .. SeqSpace /\ d \in 0 .. room /\ at(d) \notin BufferedSeqs(r)
    BY <1>2, Sizes
  <2>5. \A e \in 0 .. d - 1 : at(e) \in BufferedSeqs(r)
    <3>. SUFFICES ASSUME NEW e \in 0 .. d - 1, at(e) \notin BufferedSeqs(r) PROVE FALSE
      OBVIOUS
    <3>1. e \in 0 .. room /\ e < d
      BY <1>2, <2>4
    <3>. QED  BY <2>3, <3>1
  <2>. QED  BY <2>4, <2>5
<1>7. gap \in 0 .. SeqSpace /\ P(gap)
  <2>. HIDE DEF P
  <2>. QED  BY <1>6
<1>8. PassBufferedMpdusUntilFirstLost(r) = [PassUp(r, Within(r, gap)) EXCEPT !.start = at(gap)]
  BY DEF PassBufferedMpdusUntilFirstLost, Within, at, gap
<1>. HIDE DEF gap
<1>9. gap \in 0 .. room
  <2>1. ~(room \in 0 .. gap - 1)
    BY <1>5, <1>7
  <2>. QED  BY <1>2, <1>7, <2>1, Sizes
<1>10. /\ at(gap) \in StartSeqs /\ Pos(at(gap)) = Pos(r.start) + gap /\ gap \in Nat
       /\ Pos(at(gap)) <= Pos(r.score.start) + WinSize
  <2>1. at(gap) \in StartSeqs /\ Pos(at(gap)) = Pos(r.start) + gap /\ gap \in Nat
    BY <1>4, <1>9
  <2>2. CASE gap = 0
    BY <1>2, <2>1, <2>2, Sizes
  <2>3. CASE gap # 0
    <3>1. gap - 1 \in 0 .. gap - 1 /\ gap - 1 \in 0 .. room
      BY <1>2, <1>9, <2>3
    <3>2. Pos(r.start) + (gap - 1) < Pos(r.score.start) + WinSize
      BY <1>3, <1>4, <1>7, <3>1
    <3>. QED  BY <1>2, <2>1, <3>2, Sizes
  <2>. QED  BY <2>2, <2>3
<1>11. IsRun(r, gap)
  <2>1. at(gap) \notin BufferedSeqs(r) /\ \A e \in 0 .. gap - 1 : at(e) \in BufferedSeqs(r)
    BY <1>7
  <2>. QED  BY <1>8, <1>10, <2>1 DEF IsRun, at
<1>. QED  BY <1>11, Zenon

\* MPDUs are passed up until the first one that is missing.
LEMMA PassUntilKeeps ==
  ASSUME NEW r \in Storing, Pos(r.score.start) <= Pos(r.start),
         Pos(r.start) <= Pos(r.score.start) + WinSize
  PROVE  PassBufferedMpdusUntilFirstLost(r) \in Recipients
<1>1. PICK d : IsRun(r, d)
  BY PassUntilRun
<1>2. PICK to, run : to = (r.start + d) % SeqSpace /\ run = Within(r, d)
  OBVIOUS
<1>3. PICK p : p = PassUp(r, run)
  OBVIOUS
<1>4. PICK q : q = PassBufferedMpdusUntilFirstLost(r)
  OBVIOUS
<1>5. /\ q = [p EXCEPT !.start = to] /\ d \in Nat
      /\ to \in StartSeqs /\ to \notin BufferedSeqs(r) /\ Pos(to) = Pos(r.start) + d
      /\ Pos(to) <= Pos(r.score.start) + WinSize
  BY <1>1, <1>2, <1>3, <1>4 DEF IsRun
<1>6. /\ r \in RecipientTypes /\ r.start \in StartSeqs /\ r.score.start \in StartSeqs
      /\ run \in SUBSET r.buf /\ \A e, f \in r.buf : e[1] = f[1] => e = f
      /\ \A e \in r.buf : Pos(e[1]) < Pos(r.score.start) + WinSize
  BY <1>2 DEF Storing, RecipientTypes, Bitmaps, Within
<1>7. Pos(r.start) \in Nat /\ Pos(r.score.start) \in Nat
  BY <1>6, PosDistance
<1>8. p \in RecipientTypes /\ p.score = r.score /\ p.buf = r.buf \ run
  BY <1>3, <1>6, PassUpKeeps
<1>9. \A e \in r.buf \ run : Pos(to) < Pos(e[1])
  <2>. SUFFICES ASSUME NEW e \in r.buf, e \notin run PROVE Pos(to) < Pos(e[1])
    OBVIOUS
  <2>1. e[1] \in BufferedSeqs(r)
    BY DEF BufferedSeqs
  <2>2. e[1] \in StartSeqs /\ Pos(r.start) <= Pos(e[1]) /\ Pos(e[1]) \in Nat
    BY <1>6, SentIsStart DEF Storing, RecipientTypes
  <2>3. GetDistance(e[1], r.start) = Pos(e[1]) - Pos(r.start)
    BY <1>6, <2>2, PosDistance
  <2>4. ~(GetDistance(e[1], r.start) < d)
    BY <1>2 DEF Within
  <2>5. Pos(e[1]) # Pos(to)
    BY <1>5, <2>1, <2>2, PosDistance
  <2>. QED  BY <1>5, <1>7, <2>2, <2>3, <2>4, <2>5
<1>10. q \in RecipientTypes /\ q.start = to /\ q.score = r.score /\ q.buf = r.buf \ run
  BY <1>5, <1>8 DEF RecipientTypes
<1>11. Pos(r.score.start) <= Pos(to)
  BY <1>5, <1>7
<1>12. q \in Recipients
  BY <1>5, <1>6, <1>9, <1>10, <1>11 DEF Recipients, RecipientTypes
<1>. QED  BY <1>4, <1>12

\* The numbers of the scoreboard that only q is past are in X or those of MPDUs r
\* buffers.
Filled(r, q, X) ==
  \A s \in StartSeqs :
    Pos(r.start) <= Pos(s) /\ Pos(q.score.start) <= Pos(s) /\ Pos(s) < Pos(q.start) =>
      s \in BufferedSeqs(r) \cup X

LEMMA PassUntilFills ==
  ASSUME NEW r \in Storing, Pos(r.score.start) <= Pos(r.start),
         Pos(r.start) <= Pos(r.score.start) + WinSize,
         NEW q, q = PassBufferedMpdusUntilFirstLost(r)
  PROVE  q.score = r.score /\ Filled(r, q, {})
<1>1. PICK d : IsRun(r, d)
  BY PassUntilRun
<1>2. PICK to, p : to = (r.start + d) % SeqSpace /\ p = PassUp(r, Within(r, d))
  OBVIOUS
<1>3. /\ q = [p EXCEPT !.start = to] /\ d \in Nat /\ Pos(to) = Pos(r.start) + d
      /\ \A e \in 0 .. d - 1 : (r.start + e) % SeqSpace \in BufferedSeqs(r)
  BY <1>1, <1>2 DEF IsRun
<1>4. /\ r \in RecipientTypes /\ r.start \in StartSeqs /\ r.start \in Seqs
      /\ Within(r, d) \in SUBSET r.buf /\ \A e, f \in r.buf : e[1] = f[1] => e = f
  BY DEF Storing, RecipientTypes, StartSeqs, Within
<1>5. p \in RecipientTypes /\ p.score = r.score
  BY <1>2, <1>4, PassUpKeeps
<1>6. q.start = to /\ q.score = r.score
  BY <1>3, <1>5 DEF RecipientTypes
<1>7. ASSUME NEW s \in StartSeqs, Pos(r.start) <= Pos(s), Pos(s) < Pos(q.start)
      PROVE  s \in BufferedSeqs(r)
  <2>1. Pos(r.start) \in Nat /\ Pos(s) \in Nat /\ Pos(s) <= NumMpdus
    BY <1>4, PosDistance DEF StartSeqs
  <2>2. PICK e \in Int : e = Pos(s) - Pos(r.start)
    BY <2>1
  <2>3. e \in Nat /\ e \in 0 .. d - 1 /\ Pos(r.start) + e = Pos(s)
    BY <1>3, <1>6, <1>7, <2>1, <2>2
  <2>4. (r.start + e) % SeqSpace \in StartSeqs /\ Pos((r.start + e) % SeqSpace) = Pos(s)
    BY <1>4, <2>1, <2>3, PosPlus
  <2>5. (r.start + e) % SeqSpace = s
    BY <2>4, PosDistance
  <2>. QED  BY <1>3, <2>3, <2>5
<1>. QED  BY <1>6, <1>7 DEF Filled

\* A buffer whose entries have their numbers to themselves.
LEMMA LastStaysBefore ==
  ASSUME NEW r \in RecipientTypes, NEW q \in RecipientTypes, NEW E,
         LastBefore(r), Passed(r, q, E), Pos(r.start) <= Pos(q.start),
         \A e \in E : Pos(e[1]) < Pos(q.start)
  PROVE  LastBefore(q)
<1>1. \A e \in E : e[1] \in SentSeqs
  BY DEF Passed, RecipientTypes
<1>2. Pos(r.start) \in Int /\ Pos(q.start) \in Int
  BY PosDistance DEF RecipientTypes
<1>3. \A x \in SentSeqs : Pos(x) \in Int
  BY SentIsStart
<1>. QED  BY <1>1, <1>2, <1>3 DEF LastBefore, Passed

\* q follows from r when the entries of E are passed up and the buffer starts
\* further on.
MovedBy(r, q, E) ==
  /\ Passed(r, q, E) /\ LastBefore(q) /\ q.start \in StartSeqs /\ Pos(r.start) <= Pos(q.start)
  /\ \A e \in E : Pos(r.start) <= Pos(e[1]) /\ Pos(e[1]) < Pos(q.start)
  /\ \A e \in q.buf : Pos(q.start) <= Pos(e[1])

LEMMA PassLessMoves ==
  ASSUME NEW r \in Storing, LastBefore(r), NEW x \in StartSeqs, Pos(r.start) <= Pos(x)
  PROVE  \E E : MovedBy(r, PassBufferedMpdusWithSeqNumberLessThan(r, x), E)
<1>. DEFINE less == Within(r, GetDistance(x, r.start))
<1>1. PICK p : p = PassUp(r, less)
  OBVIOUS
<1>2. PICK q : q = PassBufferedMpdusWithSeqNumberLessThan(r, x)
  OBVIOUS
<1>3. q = [p EXCEPT !.start = x]
  BY <1>1, <1>2 DEF PassBufferedMpdusWithSeqNumberLessThan, Within
<1>4. r \in RecipientTypes /\ less \in SUBSET r.buf /\ \A e, f \in r.buf : e[1] = f[1] => e = f
  BY DEF Storing, Within
<1>5. /\ \A e \in r.buf : Pos(r.start) <= Pos(e[1]) /\ Pos(e[1]) \in Int
      /\ Pos(r.start) \in Int /\ Pos(x) \in Int
      /\ \A e \in less : Pos(e[1]) < Pos(x)
  <2>. SUFFICES ASSUME NEW e \in r.buf
                PROVE  /\ Pos(r.start) <= Pos(e[1]) /\ Pos(e[1]) \in Int
                       /\ Pos(r.start) \in Int /\ Pos(x) \in Int
                       /\ e \in less => Pos(e[1]) < Pos(x)
    BY <1>4, PosDistance DEF RecipientTypes
  <2>1. e[1] \in StartSeqs /\ r.start \in StartSeqs /\ Pos(r.start) <= Pos(e[1])
    BY SentIsStart DEF Storing, RecipientTypes
  <2>2. /\ GetDistance(e[1], r.start) = Pos(e[1]) - Pos(r.start)
        /\ GetDistance(x, r.start) = Pos(x) - Pos(r.start)
        /\ Pos(e[1]) \in Nat /\ Pos(r.start) \in Nat /\ Pos(x) \in Nat
    BY <2>1, PosDistance
  <2>3. e \in less => GetDistance(e[1], r.start) < GetDistance(x, r.start)
    BY DEF Within
  <2>. QED  BY <2>1, <2>2, <2>3
<1>. HIDE DEF less
<1>6. p \in RecipientTypes /\ Passed(r, p, less)
  BY <1>1, <1>4, <1>5, PassUpKeeps, PassUpOrdered
<1>7. q \in Storing /\ q.start = x
  BY <1>2, PassLessKeeps
<1>8. Passed(r, q, less)
  <2>1. q.buf = p.buf /\ q.up = p.up /\ q.last = p.last
    BY <1>3, <1>6 DEF RecipientTypes
  <2>. QED  BY <1>6, <2>1, Zenon DEF Passed
<1>9. q \in RecipientTypes /\ \A e \in q.buf : Pos(q.start) <= Pos(e[1])
  BY <1>7 DEF Storing
<1>10. \A e \in less : Pos(r.start) <= Pos(e[1])
  BY <1>4, <1>5
<1>11. LastBefore(q)
  BY <1>4, <1>5, <1>7, <1>8, <1>9, LastStaysBefore
<1>12. MovedBy(r, q, less)
  BY <1>5, <1>7, <1>8, <1>9, <1>10, <1>11 DEF MovedBy
<1>. QED  BY <1>2, <1>12

LEMMA PassUntilMoves ==
  ASSUME NEW r \in Storing, LastBefore(r), Pos(r.score.start) <= Pos(r.start),
         Pos(r.start) <= Pos(r.score.start) + WinSize
  PROVE  \E E : MovedBy(r, PassBufferedMpdusUntilFirstLost(r), E)
<1>1. PICK d : IsRun(r, d)
  BY PassUntilRun
<1>2. PICK run, to : run = Within(r, d) /\ to = (r.start + d) % SeqSpace
  OBVIOUS
<1>3. PICK p : p = PassUp(r, run)
  OBVIOUS
<1>4. PICK q : q = PassBufferedMpdusUntilFirstLost(r)
  OBVIOUS
<1>5. /\ q = [p EXCEPT !.start = to] /\ d \in Nat
      /\ to \in StartSeqs /\ Pos(to) = Pos(r.start) + d
  BY <1>1, <1>2, <1>3, <1>4 DEF IsRun
<1>6. r \in RecipientTypes /\ run \in SUBSET r.buf /\ \A e, f \in r.buf : e[1] = f[1] => e = f
  BY <1>2 DEF Storing, Within
<1>7. /\ \A e \in r.buf : Pos(r.start) <= Pos(e[1]) /\ Pos(e[1]) \in Int
      /\ Pos(r.start) \in Int /\ Pos(to) \in Int
      /\ \A e \in run : Pos(e[1]) < Pos(to)
  <2>1. Pos(r.start) \in Int /\ Pos(to) \in Int
    BY <1>5, <1>6, PosDistance DEF RecipientTypes
  <2>. SUFFICES ASSUME NEW e \in r.buf
                PROVE  /\ Pos(r.start) <= Pos(e[1]) /\ Pos(e[1]) \in Int
                       /\ e \in run => Pos(e[1]) < Pos(to)
    BY <1>6, <2>1
  <2>2. e[1] \in StartSeqs /\ r.start \in StartSeqs /\ Pos(r.start) <= Pos(e[1])
    BY SentIsStart DEF Storing, RecipientTypes
  <2>3. /\ GetDistance(e[1], r.start) = Pos(e[1]) - Pos(r.start)
        /\ Pos(e[1]) \in Nat /\ Pos(r.start) \in Nat
    BY <2>2, PosDistance
  <2>4. e \in run => GetDistance(e[1], r.start) < d
    BY <1>2 DEF Within
  <2>. QED  BY <1>5, <2>2, <2>3, <2>4
<1>8. p \in RecipientTypes /\ Passed(r, p, run)
  BY <1>3, <1>6, <1>7, PassUpKeeps, PassUpOrdered
<1>9. q \in Recipients /\ q.start = to
  <2>1. q.start = to
    BY <1>5, <1>8 DEF RecipientTypes
  <2>. QED  BY <1>4, <2>1, PassUntilKeeps
<1>10. Passed(r, q, run)
  <2>1. q.buf = p.buf /\ q.up = p.up /\ q.last = p.last
    BY <1>5, <1>8 DEF RecipientTypes
  <2>. QED  BY <1>8, <2>1, Zenon DEF Passed
<1>11. q \in RecipientTypes /\ \A e \in q.buf : Pos(q.start) <= Pos(e[1])
  <2>1. q \in RecipientTypes /\ \A e \in q.buf : Pos(q.start) < Pos(e[1]) /\ e[1] \in SentSeqs
    BY <1>9 DEF Recipients, RecipientTypes
  <2>2. \A e \in q.buf : Pos(e[1]) \in Int
    BY <2>1, SentIsStart
  <2>. QED  BY <1>7, <1>9, <2>1, <2>2
<1>12. \A e \in run : Pos(r.start) <= Pos(e[1])
  BY <1>6, <1>7
<1>13. LastBefore(q) /\ Pos(r.start) <= Pos(q.start)
  <2>1. Pos(r.start) <= Pos(q.start) /\ \A e \in run : Pos(e[1]) < Pos(q.start)
    BY <1>5, <1>7, <1>9
  <2>2. r \in RecipientTypes /\ q \in RecipientTypes
    BY <1>6, <1>11
  <2>. QED  BY <1>10, <2>1, <2>2, LastStaysBefore
<1>14. MovedBy(r, q, run)
  BY <1>5, <1>7, <1>9, <1>10, <1>11, <1>12, <1>13 DEF MovedBy
<1>. QED  BY <1>4, <1>14

\* What is passed up in two runs, the second one later in order.
LEMMA EnumeratedTwice ==
  ASSUME NEW A, NEW B, NEW f, NEW m, NEW n, NEW s, NEW t, NEW u, u = s \o t,
         Enumerates(s, m, A, f), Enumerates(t, n, B, f),
         \A x \in A, y \in B : f[x] < f[y]
  PROVE  Enumerates(u, m + n, A \cup B, f)
<1>1. /\ m \in Nat /\ s \in [1 .. m -> A] /\ \A i, j \in 1 .. m : i < j => f[s[i]] < f[s[j]]
      /\ \A x \in A : \E i \in 1 .. m : s[i] = x
  BY DEF Enumerates
<1>2. /\ n \in Nat /\ t \in [1 .. n -> B] /\ \A i, j \in 1 .. n : i < j => f[t[i]] < f[t[j]]
      /\ \A x \in B : \E i \in 1 .. n : t[i] = x
  BY DEF Enumerates
<1>3. s \in Seq(A) /\ Len(s) = m /\ t \in Seq(B) /\ Len(t) = n
  BY <1>1, <1>2
<1>4. s \in Seq(A \cup B) /\ t \in Seq(A \cup B)
  BY <1>1, <1>2
<1>6. /\ u \in Seq(A \cup B) /\ Len(u) = m + n
      /\ \A i \in 1 .. m : u[i] = s[i]
      /\ \A i \in m + 1 .. m + n : u[i] = t[i - m]
  <2>1. /\ u \in Seq(A \cup B) /\ Len(u) = Len(s) + Len(t)
        /\ \A i \in 1 .. Len(s) + Len(t) : u[i] = IF i <= Len(s) THEN s[i] ELSE t[i - Len(s)]
    BY <1>4, ConcatProperties
  <2>2. \A i \in 1 .. m : i \in 1 .. m + n /\ i <= m
    BY <1>1, <1>2
  <2>3. \A i \in m + 1 .. m + n : i \in 1 .. m + n /\ ~(i <= m)
    BY <1>1, <1>2
  <2>. QED  BY <1>3, <2>1, <2>2, <2>3
<1>7. \A i, j \in 1 .. m + n : i < j => f[u[i]] < f[u[j]]
  <2>. SUFFICES ASSUME NEW i \in 1 .. m + n, NEW j \in 1 .. m + n, i < j PROVE f[u[i]] < f[u[j]]
    OBVIOUS
  <2>1. CASE j <= m
    <3>1. i \in 1 .. m /\ j \in 1 .. m
      BY <1>1, <1>2, <2>1
    <3>. QED  BY <1>1, <1>6, <3>1
  <2>2. CASE i <= m /\ ~(j <= m)
    <3>1. i \in 1 .. m /\ j \in m + 1 .. m + n /\ j - m \in 1 .. n
      BY <1>1, <1>2, <2>2
    <3>2. u[i] \in A /\ u[j] \in B
      BY <1>1, <1>2, <1>6, <3>1
    <3>. QED  BY <3>2
  <2>3. CASE ~(i <= m)
    <3>1. /\ i \in m + 1 .. m + n /\ j \in m + 1 .. m + n /\ i - m \in 1 .. n /\ j - m \in 1 .. n
          /\ i - m < j - m
      BY <1>1, <1>2, <2>3
    <3>2. u[i] = t[i - m] /\ u[j] = t[j - m]
      BY <1>6, <3>1
    <3>. QED  BY <1>2, <3>1, <3>2
  <2>. QED  BY <2>1, <2>2, <2>3
<1>8. ASSUME NEW x \in A \cup B PROVE \E i \in 1 .. m + n : u[i] = x
  <2>1. CASE x \in A
    <3>1. PICK i \in 1 .. m : s[i] = x
      BY <1>1, <2>1
    <3>2. i \in 1 .. m + n
      BY <1>1, <1>2
    <3>. QED  BY <1>6, <3>1, <3>2
  <2>2. CASE x \in B
    <3>1. PICK i \in 1 .. n : t[i] = x
      BY <1>2, <2>2
    <3>2. m + i \in m + 1 .. m + n /\ m + i \in 1 .. m + n /\ (m + i) - m = i
      BY <1>1, <1>2
    <3>3. u[m + i] = x
      BY <1>6, <3>1, <3>2
    <3>. QED  BY <3>2, <3>3
  <2>. QED  BY <2>1, <2>2
<1>9. m + n \in Nat /\ u \in [1 .. m + n -> A \cup B]
  <2>1. PICK C : C = A \cup B
    OBVIOUS
  <2>2. PICK w, k : w = u /\ k = m + n
    OBVIOUS
  <2>3. w \in Seq(C) /\ Len(w) = k /\ k \in Nat
    BY <1>1, <1>2, <1>6, <2>1, <2>2
  <2>4. w \in [1 .. k -> C]
    BY <2>3
  <2>. QED  BY <2>1, <2>2, <2>3, <2>4, Zenon
<1>. QED  BY <1>7, <1>8, <1>9 DEF Enumerates

LEMMA MpdusOfTwice ==
  ASSUME NEW s \in Seq(SentSeqs \X Mpdus), NEW t \in Seq(SentSeqs \X Mpdus)
  PROVE  MpdusOf(s \o t, Len(s) + Len(t)) = MpdusOf(s, Len(s)) \o MpdusOf(t, Len(t))
<1>1. PICK Y, m, n, v : Y = SentSeqs \X Mpdus /\ m = Len(s) /\ n = Len(t) /\ v = s \o t
  OBVIOUS
<1>2. s \in Seq(Y) /\ t \in Seq(Y)
  BY <1>1
<1>3. /\ v \in Seq(Y) /\ Len(v) = m + n /\ m \in Nat /\ n \in Nat
      /\ \A i \in 1 .. m + n : v[i] = IF i <= m THEN s[i] ELSE t[i - m]
  BY <1>1, <1>2, ConcatProperties
<1>4. PICK a, b, c : a = MpdusOf(s, m) /\ b = MpdusOf(t, n) /\ c = MpdusOf(v, m + n)
  OBVIOUS
<1>5. /\ a \in Seq(Mpdus) /\ Len(a) = m /\ \A j \in 1 .. m : a[j] = s[j][2]
      /\ b \in Seq(Mpdus) /\ Len(b) = n /\ \A j \in 1 .. n : b[j] = t[j][2]
      /\ c \in Seq(Mpdus) /\ Len(c) = m + n /\ \A j \in 1 .. m + n : c[j] = v[j][2]
  <2>1. m \in 0 .. Len(s) /\ n \in 0 .. Len(t) /\ m + n \in 0 .. Len(v)
    BY <1>1, <1>3
  <2>. HIDE DEF Mpdus
  <2>. QED  BY <1>1, <1>2, <1>3, <1>4, <2>1, MpdusOfSeq
<1>6. PICK d : d = a \o b
  OBVIOUS
<1>7. /\ d \in Seq(Mpdus) /\ Len(d) = m + n
      /\ \A i \in 1 .. m + n : d[i] = IF i <= m THEN a[i] ELSE b[i - m]
  <2>. HIDE DEF Mpdus
  <2>. QED  BY <1>5, <1>6, ConcatProperties
<1>8. ASSUME NEW i \in 1 .. m + n PROVE d[i] = c[i]
  <2>1. CASE i <= m
    <3>1. i \in 1 .. m
      BY <1>3, <2>1
    <3>2. d[i] = a[i] /\ v[i] = s[i]
      BY <1>3, <1>7, <2>1
    <3>3. a[i] = s[i][2] /\ c[i] = v[i][2]
      BY <1>5, <3>1
    <3>. QED  BY <3>2, <3>3
  <2>2. CASE ~(i <= m)
    <3>1. i - m \in 1 .. n
      BY <1>3, <2>2
    <3>2. d[i] = b[i - m] /\ v[i] = t[i - m]
      BY <1>3, <1>7, <2>2
    <3>3. b[i - m] = t[i - m][2] /\ c[i] = v[i][2]
      BY <1>5, <3>1
    <3>. QED  BY <3>2, <3>3
  <2>. QED  BY <2>1, <2>2
<1>9. d = c
  <2>. HIDE DEF Mpdus
  <2>. QED  BY <1>5, <1>7, <1>8
<1>. QED  BY <1>1, <1>4, <1>6, <1>9

LEMMA MpdusOfConcat ==
  ASSUME NEW base \in Seq(Mpdus), NEW s \in Seq(SentSeqs \X Mpdus), NEW t \in Seq(SentSeqs \X Mpdus)
  PROVE  (base \o MpdusOf(s, Len(s))) \o MpdusOf(t, Len(t)) = base \o MpdusOf(s \o t, Len(s) + Len(t))
<1>1. PICK a, b : a = MpdusOf(s, Len(s)) /\ b = MpdusOf(t, Len(t))
  OBVIOUS
<1>2. a \in Seq(Mpdus) /\ b \in Seq(Mpdus)
  <2>1. Len(s) \in 0 .. Len(s) /\ Len(t) \in 0 .. Len(t)
    OBVIOUS
  <2>. QED  BY <1>1, <2>1, MpdusOfSeq
<1>3. (base \o a) \o b = base \o (a \o b)
  <2>. HIDE DEF Mpdus
  <2>. QED  BY <1>2, ConcatAssociative, SMTT(30)
<1>4. MpdusOf(s \o t, Len(s) + Len(t)) = a \o b
  BY <1>1, MpdusOfTwice, Zenon
<1>. QED  BY <1>1, <1>3, <1>4, Zenon

LEMMA PassedTwice ==
  ASSUME NEW r \in RecipientTypes, NEW u, NEW q, NEW A, NEW B,
         Passed(r, u, A), Passed(u, q, B),
         \A x \in A, y \in B : Pos(x[1]) < Pos(y[1])
  PROVE  Passed(r, q, A \cup B)
<1>1. PICK m, s : Enumerates(s, m, A, Places(A)) /\ u.up = r.up \o MpdusOf(s, m)
  BY DEF Passed
<1>2. PICK n, t : Enumerates(t, n, B, Places(B)) /\ q.up = u.up \o MpdusOf(t, n)
  BY DEF Passed
<1>. DEFINE f == Places(A \cup B)
<1>3. /\ Enumerates(s, m, A, f) /\ Enumerates(t, n, B, f) /\ m \in Nat /\ n \in Nat
      /\ s \in [1 .. m -> A] /\ t \in [1 .. n -> B]
  BY <1>1, <1>2 DEF Enumerates, Places
<1>4. \A x \in A, y \in B : f[x] < f[y]
  BY DEF Places
<1>. HIDE DEF f
<1>5. PICK v : v = s \o t
  OBVIOUS
<1>6. Enumerates(v, m + n, A \cup B, f)
  BY <1>3, <1>4, <1>5, EnumeratedTwice, Zenon
<1>7. A \cup B \subseteq r.buf /\ r.buf \subseteq SentSeqs \X Mpdus /\ r.up \in Seq(Mpdus)
  BY DEF Passed, RecipientTypes
<1>8. /\ s \in Seq(SentSeqs \X Mpdus) /\ t \in Seq(SentSeqs \X Mpdus)
      /\ Len(s) = m /\ Len(t) = n
  <2>1. PICK Y : Y = SentSeqs \X Mpdus
    OBVIOUS
  <2>2. A \subseteq Y /\ B \subseteq Y
    BY <1>7, <2>1
  <2>. QED  BY <1>3, <2>1, <2>2
<1>9. (r.up \o MpdusOf(s, Len(s))) \o MpdusOf(t, Len(t)) = r.up \o MpdusOf(s \o t, Len(s) + Len(t))
  BY <1>7, <1>8, MpdusOfConcat, Zenon
<1>10. q.up = r.up \o MpdusOf(v, m + n)
  BY <1>1, <1>2, <1>5, <1>8, <1>9, Zenon
<1>11. \E k, o : Enumerates(o, k, A \cup B, Places(A \cup B)) /\ q.up = r.up \o MpdusOf(o, k)
  BY <1>6, <1>10, Zenon DEF f
<1>12. /\ A \cup B \subseteq r.buf /\ q.buf = r.buf \ (A \cup B)
       /\ q.last = r.last \/ \E e \in A \cup B : q.last = e[1]
  BY <1>7 DEF Passed
<1>. QED  BY <1>11, <1>12, Zenon DEF Passed

LEMMA MovedTwice ==
  ASSUME NEW r \in RecipientTypes, NEW u, NEW q \in RecipientTypes, NEW A, NEW B,
         MovedBy(r, u, A), MovedBy(u, q, B)
  PROVE  MovedBy(r, q, A \cup B)
<1>1. /\ r.start \in StartSeqs /\ u.start \in StartSeqs /\ q.start \in StartSeqs
      /\ A \subseteq r.buf /\ B \subseteq r.buf
      /\ \A e \in r.buf : e[1] \in SentSeqs
  BY DEF RecipientTypes, MovedBy, Passed
<1>2. /\ Pos(r.start) \in Int /\ Pos(u.start) \in Int /\ Pos(q.start) \in Int
      /\ \A e \in A \cup B : Pos(e[1]) \in Int
  BY <1>1, PosDistance, SentIsStart
<1>3. \A x \in A, y \in B : Pos(x[1]) < Pos(y[1])
  BY <1>2 DEF MovedBy
<1>4. Passed(r, q, A \cup B)
  BY <1>3, PassedTwice DEF MovedBy
<1>5. /\ Pos(r.start) <= Pos(q.start)
      /\ \A e \in A \cup B : Pos(r.start) <= Pos(e[1]) /\ Pos(e[1]) < Pos(q.start)
  BY <1>2 DEF MovedBy
<1>. QED  BY <1>4, <1>5 DEF MovedBy

\* The scoreboard moves just far enough for the MPDU to be in it.
LEMMA ScoreboardKeeps ==
  ASSUME NEW w \in Bitmaps, NEW x \in SentSeqs
  PROVE  /\ UpdateScoreboard(w, x) \in Bitmaps
         /\ Pos(UpdateScoreboard(w, x).start) =
              IF Pos(x) >= Pos(w.start) + WinSize THEN Pos(x) - WinSize + 1 ELSE Pos(w.start)
<1>. DEFINE d == GetDistance(x, w.start)
            v == Advance(w, d - WinSize + 1)
<1>1. x \in StartSeqs /\ w.start \in StartSeqs /\ Pos(x) < NumMpdus /\ Pos(w.start) <= NumMpdus
  BY SentIsStart DEF Bitmaps, StartSeqs
<1>2. /\ d = IF Pos(x) >= Pos(w.start) THEN Pos(x) - Pos(w.start) ELSE Pos(x) - Pos(w.start) + SeqSpace
      /\ Pos(x) \in Nat /\ Pos(w.start) \in Nat
  BY <1>1, PosDistance
<1>. HIDE DEF d
<1>3. CASE d < WinSize
  <2>1. UpdateScoreboard(w, x) = [w EXCEPT !.bits = @ \cup {d}] /\ d \in Positions
    BY <1>2, <1>1, <1>3, Sizes DEF UpdateScoreboard, d, Positions
  <2>2. Pos(x) < Pos(w.start) + WinSize
    BY <1>1, <1>2, <1>3, Sizes
  <2>. QED  BY <1>2, <2>1, <2>2, Sizes DEF Bitmaps, Windows
<1>4. CASE d >= WinSize /\ d < HalfSpace
  <2>1. UpdateScoreboard(w, x) = [v EXCEPT !.bits = @ \cup {WinSize - 1}] /\ WinSize - 1 \in Positions
    BY <1>1, <1>2, <1>4, Sizes DEF UpdateScoreboard, d, Positions
  <2>2. d = Pos(x) - Pos(w.start) /\ d - WinSize + 1 \in Nat
        /\ Pos(w.start) + (d - WinSize + 1) <= NumMpdus
    BY <1>1, <1>2, <1>4, Sizes
  <2>3. v.start \in StartSeqs /\ v \in Windows /\ Pos(v.start) = Pos(w.start) + (d - WinSize + 1)
    BY <1>1, <2>2, AdvanceKeeps DEF StartSeqs
  <2>. HIDE DEF v
  <2>4. UpdateScoreboard(w, x) \in Bitmaps /\ UpdateScoreboard(w, x).start = v.start
    BY <2>1, <2>3 DEF Bitmaps, Windows
  <2>. QED  BY <1>2, <1>4, <2>2, <2>3, <2>4, Sizes
<1>5. CASE d >= HalfSpace
  <2>1. UpdateScoreboard(w, x) = w
    BY <1>2, <1>1, <1>5, Sizes DEF UpdateScoreboard, d
  <2>2. Pos(x) < Pos(w.start)
    BY <1>1, <1>2, <1>5, Sizes
  <2>. QED  BY <1>2, <2>1, <2>2, Sizes
<1>. QED  BY <1>1, <1>2, <1>3, <1>4, <1>5, Sizes

(***************************************************************************)
(* What the recipient does with an MPDU and with a block ack request.      *)
(***************************************************************************)
Unmoved(r, q) == q.start = r.start /\ q.buf = r.buf /\ q.up = r.up /\ q.last = r.last

\* t is r with the MPDU in the buffer.
Stored(r, t, x, n) ==
  /\ t.start = r.start /\ t.up = r.up /\ t.last = r.last
  /\ \/ t.buf = r.buf /\ x \in BufferedSeqs(r)
     \/ t.buf = r.buf \cup {<<x, n>>} /\ x \notin BufferedSeqs(r)

\* An MPDU that is not old is stored, and the buffer moves.
Receives(r, q, x, n) ==
  \/ Unmoved(r, q) /\ Pos(x) < Pos(r.start)
  \/ \E t \in RecipientTypes : /\ Stored(r, t, x, n) /\ Pos(r.start) <= Pos(x)
                               /\ \E E : MovedBy(t, q, E)

LEMMA ReceivedMpduMoves ==
  ASSUME NEW r \in Recipients, NEW x \in SentSeqs, NEW n \in Mpdus
  PROVE  /\ NotifyReceivedMpdu(r, x, n) \in Recipients
         /\ LastBefore(r) => Receives(r, NotifyReceivedMpdu(r, x, n), x, n)
         /\ NotifyReceivedMpdu(r, x, n).score = UpdateScoreboard(r.score, x)
         /\ Filled(r, NotifyReceivedMpdu(r, x, n), {x})
<1>. DEFINE score == UpdateScoreboard(r.score, x)
            s == [r EXCEPT !.score = score]
            d == GetDistance(x, r.start)
            t == StoreMpdu(s, x, n)
            far == (x - WinSize + 1 + SeqSpace) % SeqSpace
            u == PassBufferedMpdusWithSeqNumberLessThan(t, far)
<1>1. /\ r \in RecipientTypes /\ r.score \in Bitmaps /\ r.start \in StartSeqs
      /\ Pos(r.score.start) <= Pos(r.start) /\ Pos(r.start) <= Pos(r.score.start) + WinSize
      /\ r.score.start \in StartSeqs
      /\ \A e \in r.buf : e[1] \in SentSeqs /\ Pos(r.start) < Pos(e[1])
                          /\ Pos(e[1]) < Pos(r.score.start) + WinSize
  BY DEF Recipients, RecipientTypes, Bitmaps
<1>2. /\ score \in Bitmaps
      /\ Pos(score.start) = IF Pos(x) >= Pos(r.score.start) + WinSize THEN Pos(x) - WinSize + 1
                            ELSE Pos(r.score.start)
  BY <1>1, ScoreboardKeeps
<1>3. /\ x \in StartSeqs /\ Pos(x) \in Nat /\ Pos(x) < NumMpdus
      /\ Pos(r.start) \in Nat /\ Pos(r.score.start) \in Nat /\ score.start \in StartSeqs
      /\ d = IF Pos(x) >= Pos(r.start) THEN Pos(x) - Pos(r.start) ELSE Pos(x) - Pos(r.start) + SeqSpace
  BY <1>1, <1>2, SentIsStart, PosDistance DEF Bitmaps
<1>. HIDE DEF score, d
<1>4. /\ Pos(score.start) \in Nat /\ Pos(r.score.start) <= Pos(score.start)
      /\ Pos(x) < Pos(score.start) + WinSize
  BY <1>2, <1>3, Sizes
<1>5. /\ s \in RecipientTypes /\ s.score = score /\ Unmoved(r, s)
      /\ \A e \in r.buf : e[1] \in SentSeqs /\ Pos(e[1]) < Pos(score.start) + WinSize
  <2>1. \A e \in r.buf : e[1] \in SentSeqs /\ Pos(e[1]) < Pos(score.start) + WinSize
    BY <1>1, <1>3, <1>4, SentIsStart, Sizes
  <2>. QED  BY <1>1, <1>2, <2>1 DEF RecipientTypes, Unmoved
<1>. HIDE DEF s
<1>6. /\ t \in RecipientTypes /\ t.score = score /\ t.start = r.start /\ Stored(r, t, x, n)
      /\ \A e \in t.buf : e \in r.buf \/ e = <<x, n>>
      /\ \A e, f \in t.buf : e[1] = f[1] => e = f
  <2>1. \A e, f \in r.buf : e[1] = f[1] => e = f
    BY DEF Recipients
  <2>2. CASE x \in BufferedSeqs(s)
    BY <1>5, <2>1, <2>2 DEF StoreMpdu, BufferedSeqs, Stored, Unmoved
  <2>3. CASE x \notin BufferedSeqs(s)
    <3>1. t = [s EXCEPT !.buf = @ \cup {<<x, n>>}]
      BY <2>3 DEF StoreMpdu
    <3>2. \A e \in r.buf : e[1] # x
      BY <1>5, <2>3 DEF BufferedSeqs, Unmoved
    <3>3. /\ t \in RecipientTypes /\ t.buf = r.buf \cup {<<x, n>>} /\ t.score = score
          /\ t.start = r.start /\ t.up = r.up /\ t.last = r.last
      BY <1>5, <3>1 DEF RecipientTypes, Unmoved
    <3>4. Stored(r, t, x, n)
      BY <3>2, <3>3 DEF Stored, BufferedSeqs
    <3>. QED  BY <2>1, <3>2, <3>3, <3>4
  <2>. QED  BY <2>2, <2>3
<1>7. ASSUME Pos(x) >= Pos(r.start) PROVE t \in Storing
  <2>1. \A e \in t.buf : Pos(r.start) <= Pos(e[1]) /\ Pos(e[1]) < Pos(score.start) + WinSize
    <3>1. \A e \in r.buf : Pos(r.start) <= Pos(e[1])
      BY <1>1, <1>3, SentIsStart
    <3>. QED  BY <1>4, <1>5, <1>6, <1>7, <3>1
  <2>. QED  BY <1>6, <2>1 DEF Storing
<1>8. NotifyReceivedMpdu(r, x, n) =
        IF d < WinSize THEN PassBufferedMpdusUntilFirstLost(t)
        ELSE IF d < HalfSpace THEN PassBufferedMpdusUntilFirstLost(u)
        ELSE s
  BY <1>5 DEF NotifyReceivedMpdu, Unmoved, s, d, score
<1>. HIDE DEF t
<1>12. LastBefore(r) => LastBefore(t)
  BY <1>6 DEF Stored, LastBefore
<1>13. BufferedSeqs(t) \subseteq BufferedSeqs(r) \cup {x}
  BY <1>6 DEF BufferedSeqs
<1>9. CASE d < WinSize
  <2>1. Pos(x) >= Pos(r.start) /\ Pos(x) - Pos(r.start) < WinSize
    BY <1>1, <1>3, <1>9, Sizes DEF StartSeqs
  <2>2. Pos(score.start) <= Pos(r.start) /\ Pos(r.start) <= Pos(score.start) + WinSize
    BY <1>1, <1>2, <1>3, <1>4, <2>1, Sizes
  <2>3. PassBufferedMpdusUntilFirstLost(t) \in Recipients
    BY <1>6, <1>7, <2>1, <2>2, PassUntilKeeps
  <2>4. PICK q : q = PassBufferedMpdusUntilFirstLost(t)
    OBVIOUS
  <2>5. LastBefore(r) => \E E : MovedBy(t, q, E)
    BY <1>6, <1>7, <1>12, <2>1, <2>2, <2>4, PassUntilMoves
  <2>6. LastBefore(r) => Receives(r, q, x, n)
    BY <1>6, <2>1, <2>5, Zenon DEF Receives
  <2>7. q.score = score /\ Filled(t, q, {})
    BY <1>6, <1>7, <2>1, <2>2, <2>4, PassUntilFills
  <2>8. Filled(r, q, {x})
    BY <1>6, <1>13, <2>7 DEF Filled
  <2>9. NotifyReceivedMpdu(r, x, n) = q
    BY <1>8, <1>9, <2>4
  <2>. QED  BY <2>3, <2>4, <2>6, <2>7, <2>8, <2>9 DEF score
<1>10. CASE ~(d < WinSize) /\ d < HalfSpace
  <2>1. d = Pos(x) - Pos(r.start) /\ Pos(x) >= Pos(r.start) + WinSize
    BY <1>1, <1>3, <1>10, Sizes DEF StartSeqs
  <2>2. far \in StartSeqs /\ Pos(far) = Pos(x) - WinSize + 1
    <3>1. Pos(x) >= WinSize
      BY <1>3, <2>1, Sizes
    <3>. QED  BY <1>3, <3>1, PosMinus
  <2>3. Pos(score.start) = Pos(far) /\ Pos(r.start) <= Pos(far)
    BY <1>1, <1>2, <1>3, <2>1, <2>2, Sizes
  <2>. HIDE DEF far
  <2>4. u \in Storing /\ u.start = far /\ u.score = score /\ u.buf \subseteq t.buf
    BY <1>3, <1>6, <1>7, <2>1, <2>2, <2>3, PassLessKeeps, Sizes
  <2>8. PICK v : v = u
    OBVIOUS
  <2>9. LastBefore(r) => \E A : MovedBy(t, v, A)
    <3>1. t \in Storing /\ Pos(t.start) <= Pos(far)
      BY <1>3, <1>6, <1>7, <2>1, <2>3, Sizes
    <3>. QED  BY <1>12, <2>2, <2>8, <3>1, PassLessMoves
  <2>. HIDE DEF u
  <2>7. Pos(x) >= Pos(r.start) /\ t \in Storing /\ Pos(t.start) <= Pos(far)
    BY <1>3, <1>6, <1>7, <2>1, <2>3, Sizes
  <2>5. Pos(u.score.start) <= Pos(u.start) /\ Pos(u.start) <= Pos(u.score.start) + WinSize
    BY <1>4, <2>3, <2>4, Sizes
  <2>6. PassBufferedMpdusUntilFirstLost(u) \in Recipients
    BY <2>4, <2>5, PassUntilKeeps
  <2>10. PICK q : q = PassBufferedMpdusUntilFirstLost(u)
    OBVIOUS
  <2>11. ASSUME LastBefore(r) PROVE \E E : MovedBy(t, q, E)
    <3>1. PICK A : MovedBy(t, v, A)
      BY <2>9, <2>11
    <3>2. LastBefore(v)
      BY <3>1 DEF MovedBy
    <3>3. PICK B : MovedBy(v, q, B)
      BY <2>4, <2>5, <2>8, <2>10, <3>2, PassUntilMoves
    <3>4. q \in RecipientTypes
      BY <2>6, <2>10 DEF Recipients, RecipientTypes
    <3>5. MovedBy(t, q, A \cup B)
      BY <1>6, <3>1, <3>3, <3>4, MovedTwice
    <3>. QED  BY <3>5, Zenon
  <2>12. LastBefore(r) => Receives(r, q, x, n)
    BY <1>6, <2>7, <2>11, Zenon DEF Receives
  <2>13. q.score = score /\ Filled(u, q, {})
    BY <2>4, <2>5, <2>10, PassUntilFills
  <2>14. Filled(r, q, {x})
    <3>1. BufferedSeqs(u) \subseteq BufferedSeqs(r) \cup {x} /\ Pos(u.start) = Pos(q.score.start)
      BY <1>13, <2>3, <2>4, <2>13 DEF BufferedSeqs
    <3>. QED  BY <2>13, <3>1 DEF Filled
  <2>15. NotifyReceivedMpdu(r, x, n) = q
    BY <1>8, <1>10, <2>10
  <2>. QED  BY <2>6, <2>10, <2>12, <2>13, <2>14, <2>15 DEF score
<1>11. CASE ~(d < WinSize) /\ ~(d < HalfSpace)
  <2>1. Pos(x) < Pos(r.start)
    BY <1>1, <1>3, <1>11, Sizes DEF StartSeqs
  <2>2. score.start \in StartSeqs /\ Pos(score.start) = Pos(r.score.start)
    BY <1>1, <1>2, <1>3, <2>1, Sizes
  <2>3. s \in Recipients
    BY <1>1, <1>5, <2>2 DEF Recipients, RecipientTypes, Unmoved
  <2>4. NotifyReceivedMpdu(r, x, n) = s
    BY <1>8, <1>11
  <2>5. Filled(r, s, {x})
    BY <1>1, <1>5, PosDistance DEF Filled, Unmoved
  <2>. QED  BY <1>5, <2>1, <2>3, <2>4, <2>5 DEF Receives, score
<1>. QED  BY <1>9, <1>10, <1>11

\* A block ack request moves the buffer.
FollowsBar(r, q) ==
  \/ Unmoved(r, q)
  \/ \E t \in RecipientTypes : Unmoved(r, t) /\ \E E : MovedBy(t, q, E)

LEMMA ReceivedBarMoves ==
  ASSUME NEW r \in Recipients, NEW x \in StartSeqs
  PROVE  /\ NotifyReceivedBar(r, x) \in Recipients
         /\ LastBefore(r) => FollowsBar(r, NotifyReceivedBar(r, x))
         /\ \/ NotifyReceivedBar(r, x).score = r.score
            \/ \E k \in Nat : NotifyReceivedBar(r, x).score = Advance(r.score, k)
         /\ Pos(r.score.start) <= Pos(NotifyReceivedBar(r, x).score.start)
         /\ Filled(r, NotifyReceivedBar(r, x), {})
<1>. DEFINE later(y) == GetDistance(x, y) \in 1 .. HalfSpace - 1
            moved == Advance(r.score, GetDistance(x, r.score.start))
            s == IF later(r.score.start) THEN [r EXCEPT !.score = moved] ELSE r
            u == PassBufferedMpdusWithSeqNumberLessThan(s, x)
<1>1. /\ r \in RecipientTypes /\ r.score \in Bitmaps /\ r.start \in StartSeqs
      /\ Pos(r.score.start) <= Pos(r.start) /\ Pos(r.start) <= Pos(r.score.start) + WinSize
      /\ r.score.start \in StartSeqs
      /\ \A e \in r.buf : e[1] \in SentSeqs /\ Pos(r.start) < Pos(e[1])
                          /\ Pos(e[1]) < Pos(r.score.start) + WinSize
      /\ \A e, f \in r.buf : e[1] = f[1] => e = f
  BY DEF Recipients, RecipientTypes, Bitmaps
<1>2. Pos(x) \in Nat /\ Pos(r.start) \in Nat /\ Pos(r.score.start) \in Nat /\ Pos(x) <= NumMpdus
  BY <1>1, PosDistance DEF StartSeqs
<1>3. \A y \in StartSeqs : /\ later(y) <=> Pos(x) > Pos(y)
                           /\ later(y) => GetDistance(x, y) = Pos(x) - Pos(y)
  <2>. SUFFICES ASSUME NEW y \in StartSeqs
                PROVE  /\ later(y) <=> Pos(x) > Pos(y)
                       /\ later(y) => GetDistance(x, y) = Pos(x) - Pos(y)
    OBVIOUS
  <2>1. /\ Pos(y) \in Nat /\ Pos(y) <= NumMpdus
        /\ GetDistance(x, y) = IF Pos(x) >= Pos(y) THEN Pos(x) - Pos(y) ELSE Pos(x) - Pos(y) + SeqSpace
    BY PosDistance DEF StartSeqs
  <2>. QED  BY <1>2, <2>1, Sizes
<1>4. /\ s \in RecipientTypes /\ Unmoved(r, s) /\ s.start = r.start /\ s.buf = r.buf
      /\ s.score.start \in StartSeqs
      /\ s.score = r.score \/ \E k \in Nat : s.score = Advance(r.score, k)
      /\ Pos(s.score.start) = IF Pos(x) > Pos(r.score.start) THEN Pos(x) ELSE Pos(r.score.start)
  <2>1. CASE later(r.score.start)
    <3>1. GetDistance(x, r.score.start) = Pos(x) - Pos(r.score.start) /\ Pos(x) > Pos(r.score.start)
      BY <1>1, <1>3, <2>1
    <3>2. /\ GetDistance(x, r.score.start) \in Nat
          /\ Pos(r.score.start) + GetDistance(x, r.score.start) = Pos(x)
      BY <1>2, <3>1
    <3>3. moved \in Windows /\ moved.start \in StartSeqs /\ Pos(moved.start) = Pos(x)
      BY <1>1, <1>2, <3>2, AdvanceKeeps DEF StartSeqs
    <3>5. \E k \in Nat : moved = Advance(r.score, k)
      BY <3>2
    <3>. HIDE DEF moved
    <3>4. s = [r EXCEPT !.score = moved] /\ moved \in Bitmaps
      BY <2>1, <3>3 DEF Bitmaps
    <3>. HIDE DEF s
    <3>. QED  BY <1>1, <3>1, <3>3, <3>4, <3>5 DEF RecipientTypes, Unmoved
  <2>2. CASE ~later(r.score.start)
    <3>1. s = r /\ ~(Pos(x) > Pos(r.score.start))
      BY <1>1, <1>3, <2>2
    <3>. HIDE DEF s
    <3>. QED  BY <1>1, <3>1 DEF Unmoved
  <2>. HIDE DEF s, later
  <2>. QED  BY <2>1, <2>2
<1>. HIDE DEF s
<1>5. /\ Pos(s.score.start) \in Nat /\ Pos(r.score.start) <= Pos(s.score.start)
      /\ \A e \in s.buf : Pos(r.start) < Pos(e[1]) /\ Pos(e[1]) < Pos(s.score.start) + WinSize
  <2>1. Pos(s.score.start) \in Nat /\ Pos(r.score.start) <= Pos(s.score.start)
    BY <1>2, <1>4
  <2>2. \A e \in s.buf : Pos(e[1]) < Pos(s.score.start) + WinSize
    BY <1>1, <1>2, <1>4, <2>1, SentIsStart, Sizes
  <2>. QED  BY <1>1, <1>4, <2>1, <2>2
<1>6. NotifyReceivedBar(r, x) =
        IF later(r.start) THEN PassBufferedMpdusUntilFirstLost(u) ELSE s
  BY <1>4 DEF NotifyReceivedBar, s
<1>. HIDE DEF later
<1>7. CASE later(r.start)
  <2>1. Pos(x) > Pos(r.start)
    BY <1>1, <1>3, <1>7
  <2>2. s \in Storing
    <3>1. \A e \in s.buf : Pos(s.start) <= Pos(e[1])
      BY <1>1, <1>2, <1>4, SentIsStart
    <3>. QED  BY <1>1, <1>4, <1>5, <3>1 DEF Storing
  <2>3. u \in Storing /\ u.start = x /\ u.score = s.score /\ u.buf \subseteq s.buf
    BY <1>2, <1>4, <2>1, <2>2, PassLessKeeps
  <2>6. PICK v : v = u
    OBVIOUS
  <2>7. LastBefore(r) => \E A : MovedBy(s, v, A)
    <3>1. Pos(s.start) <= Pos(x) /\ (LastBefore(r) => LastBefore(s))
      BY <1>2, <1>4, <2>1 DEF Unmoved, LastBefore
    <3>. QED  BY <2>2, <2>6, <3>1, PassLessMoves
  <2>. HIDE DEF u
  <2>4. Pos(u.score.start) <= Pos(u.start) /\ Pos(u.start) <= Pos(u.score.start) + WinSize
    BY <1>1, <1>2, <1>4, <2>1, <2>3, Sizes
  <2>5. PassBufferedMpdusUntilFirstLost(u) \in Recipients
    BY <2>3, <2>4, PassUntilKeeps
  <2>8. PICK q : q = PassBufferedMpdusUntilFirstLost(u)
    OBVIOUS
  <2>9. ASSUME LastBefore(r) PROVE \E E : MovedBy(s, q, E)
    <3>1. PICK A : MovedBy(s, v, A)
      BY <2>7, <2>9
    <3>2. LastBefore(v)
      BY <3>1 DEF MovedBy
    <3>3. PICK B : MovedBy(v, q, B)
      BY <2>3, <2>4, <2>6, <2>8, <3>2, PassUntilMoves
    <3>4. q \in RecipientTypes
      BY <2>5, <2>8 DEF Recipients, RecipientTypes
    <3>5. MovedBy(s, q, A \cup B)
      BY <1>4, <3>1, <3>3, <3>4, MovedTwice
    <3>. QED  BY <3>5, Zenon
  <2>10. LastBefore(r) => FollowsBar(r, q)
    BY <1>4, <2>9, Zenon DEF FollowsBar
  <2>11. q.score = s.score /\ Filled(u, q, {})
    BY <2>3, <2>4, <2>8, PassUntilFills
  <2>12. Filled(r, q, {})
    <3>1. BufferedSeqs(u) \subseteq BufferedSeqs(r)
      BY <1>4, <2>3 DEF BufferedSeqs
    <3>2. Pos(u.start) = Pos(q.score.start)
      BY <1>1, <1>2, <1>4, <2>1, <2>3, <2>11
    <3>. QED  BY <2>11, <3>1, <3>2 DEF Filled
  <2>13. NotifyReceivedBar(r, x) = q
    BY <1>6, <1>7, <2>8
  <2>. QED  BY <1>4, <1>5, <2>5, <2>8, <2>10, <2>11, <2>12, <2>13
<1>8. CASE ~later(r.start)
  <2>1. Pos(s.score.start) <= Pos(s.start) /\ Pos(s.start) <= Pos(s.score.start) + WinSize
    BY <1>1, <1>2, <1>3, <1>4, <1>5, <1>8, Sizes
  <2>2. s \in Recipients
    BY <1>1, <1>4, <1>5, <2>1 DEF Recipients, RecipientTypes
  <2>3. NotifyReceivedBar(r, x) = s
    BY <1>6, <1>8
  <2>4. Filled(r, s, {})
    BY <1>1, <1>4, PosDistance DEF Filled
  <2>. QED  BY <1>4, <1>5, <2>2, <2>3, <2>4 DEF FollowsBar
<1>. QED  BY <1>7, <1>8

----------------------------------------------------------------------------
(***************************************************************************)
(* The originator.                                                         *)
(***************************************************************************)
LEMMA OrigFields ==
  ASSUME NEW sq, NEW ar \in 0 .. NumMpdus, NEW o \in Originators(sq, ar)
  PROVE  /\ o.arrived = ar /\ o.seq = sq /\ ar \in Nat /\ 1 .. ar \subseteq Mpdus
         /\ o.queued \subseteq 1 .. ar /\ o.overdue \in 0 .. ar /\ o.firing \in Seq(1 .. ar)
         /\ o.numbered \subseteq Known(sq, ar) /\ o.retry \subseteq Known(sq, ar)
         /\ Known(sq, ar) \subseteq 1 .. ar /\ \A n \in Known(sq, ar) : sq[n] \in SentSeqs
         /\ o.fly \in [Mpdus -> SUBSET Links] /\ \A n \in Mpdus : o.fly[n] # {} => n \in Known(sq, ar)
         /\ o.tries \in [Mpdus -> Nat] /\ o.next \in StartSeqs /\ o.win \in TxWindows
         /\ o.list \in Seq(Known(sq, ar)) /\ o.bars \in [BarQueues -> Seq({"QUEUED", "SENT"})]
         /\ o.barIfData \in BOOLEAN /\ o.ok \subseteq 1 .. ar /\ o.repeats \in Nat
         /\ Pos(o.next) <= Cardinality(o.numbered)
BY Sizes DEF Originators, Known, Mpdus

\* One field at a time.
LEMMA SetFields ==
  ASSUME NEW sq, NEW ar, NEW o \in Originators(sq, ar)
  PROVE  /\ \A v \in SUBSET (1 .. ar) : [o EXCEPT !.queued = v] \in Originators(sq, ar)
         /\ \A v \in 0 .. ar : [o EXCEPT !.overdue = v] \in Originators(sq, ar)
         /\ \A v \in Seq(1 .. ar) : [o EXCEPT !.firing = v] \in Originators(sq, ar)
         /\ \A v \in SUBSET Known(sq, ar) : [o EXCEPT !.retry = v] \in Originators(sq, ar)
         /\ \A v \in [Mpdus -> SUBSET Links] :
              (\A n \in Mpdus : v[n] # {} => n \in Known(sq, ar)) =>
                [o EXCEPT !.fly = v] \in Originators(sq, ar)
         /\ \A v \in [Mpdus -> Nat] : [o EXCEPT !.tries = v] \in Originators(sq, ar)
         /\ \A v \in TxWindows : [o EXCEPT !.win = v] \in Originators(sq, ar)
         /\ \A v \in Seq(Known(sq, ar)) : [o EXCEPT !.list = v] \in Originators(sq, ar)
         /\ \A v \in [BarQueues -> Seq({"QUEUED", "SENT"})] : [o EXCEPT !.bars = v] \in Originators(sq, ar)
         /\ \A v \in BOOLEAN : [o EXCEPT !.barIfData = v] \in Originators(sq, ar)
         /\ \A v \in SUBSET (1 .. ar) : [o EXCEPT !.ok = v] \in Originators(sq, ar)
         /\ \A v \in Nat : [o EXCEPT !.repeats = v] \in Originators(sq, ar)
<1>. DEFINE K == Known(sq, ar) B == [BarQueues -> Seq({"QUEUED", "SENT"})]
<1>1. \A v \in SUBSET (1 .. ar) : [o EXCEPT !.queued = v] \in Originators(sq, ar)
  BY DEF Originators
<1>2. \A v \in 0 .. ar : [o EXCEPT !.overdue = v] \in Originators(sq, ar)
  BY DEF Originators
<1>3. \A v \in Seq(1 .. ar) : [o EXCEPT !.firing = v] \in Originators(sq, ar)
  BY DEF Originators
<1>4. \A v \in SUBSET Known(sq, ar) : [o EXCEPT !.retry = v] \in Originators(sq, ar)
  BY DEF Originators
<1>5. \A v \in [Mpdus -> SUBSET Links] :
              (\A n \in Mpdus : v[n] # {} => n \in Known(sq, ar)) =>
                [o EXCEPT !.fly = v] \in Originators(sq, ar)
  BY DEF Originators
<1>6. \A v \in [Mpdus -> Nat] : [o EXCEPT !.tries = v] \in Originators(sq, ar)
  BY DEF Originators
<1>7. \A v \in TxWindows : [o EXCEPT !.win = v] \in Originators(sq, ar)
  BY DEF Originators
<1>8. \A v \in Seq(Known(sq, ar)) : [o EXCEPT !.list = v] \in Originators(sq, ar)
  BY DEF Originators
<1>9. \A v \in [BarQueues -> Seq({"QUEUED", "SENT"})] : [o EXCEPT !.bars = v] \in Originators(sq, ar)
  BY DEF Originators
<1>10. \A v \in BOOLEAN : [o EXCEPT !.barIfData = v] \in Originators(sq, ar)
  BY DEF Originators
<1>11. \A v \in SUBSET (1 .. ar) : [o EXCEPT !.ok = v] \in Originators(sq, ar)
  BY DEF Originators
<1>12. \A v \in Nat : [o EXCEPT !.repeats = v] \in Originators(sq, ar)
  BY DEF Originators
<1>. QED  BY <1>1, <1>2, <1>3, <1>4, <1>5, <1>6, <1>7, <1>8, <1>9, <1>10, <1>11, <1>12

LEMMA SeqOfSuperset ==
  ASSUME NEW A, NEW B, A \subseteq B, NEW s \in Seq(A)
  PROVE  s \in Seq(B)
OBVIOUS

LEMMA ByNumberEnumerates ==
  ASSUME NEW S \in SUBSET Mpdus
  PROVE  ByNumber(S) \in Seq(S) /\ IsInjective(ByNumber(S))
<1>. DEFINE place == [n \in S |-> n]
<1>1. /\ place \in [S -> Nat] /\ NumMpdus + 1 \in Nat /\ \A n \in S : place[n] < NumMpdus + 1
      /\ \A m, n \in S : place[m] = place[n] => m = n
  BY Sizes DEF Mpdus
<1>2. ByNumber(S) = InOrder(S, place)
  BY DEF ByNumber
<1>. HIDE DEF place
<1>3. InOrder(S, place) \in Seq(S) /\ IsInjective(InOrder(S, place))
  BY <1>1, InOrderEnumerates, Zenon
<1>. QED  BY <1>2, <1>3

LEMMA ByNumberIsOrdered ==
  ASSUME NEW S \in SUBSET Mpdus
  PROVE  /\ ByNumber(S) \in [1 .. Cardinality(S) -> S] /\ Cardinality(S) \in Nat
         /\ \A i, j \in 1 .. Cardinality(S) : i < j => ByNumber(S)[i] < ByNumber(S)[j]
         /\ \A n \in S : \E i \in 1 .. Cardinality(S) : ByNumber(S)[i] = n
<1>. DEFINE place == [n \in S |-> n]
<1>1. /\ place \in [S -> Nat] /\ NumMpdus + 1 \in Nat /\ \A n \in S : place[n] < NumMpdus + 1
      /\ \A m, n \in S : place[m] = place[n] => m = n
  BY Sizes DEF Mpdus
<1>2. ByNumber(S) = InOrder(S, place) /\ \A n \in S : place[n] = n
  BY DEF ByNumber
<1>. HIDE DEF place
<1>3. Enumerates(ByNumber(S), Cardinality(S), S, place)
  <2>1. Enumerates(InOrder(S, place), Cardinality(S), S, place)
    BY <1>1, InOrderIsOrdered, Zenon
  <2>. QED  BY <1>2, <2>1, Zenon
<1>4. \A i, j \in 1 .. Cardinality(S) : i < j => ByNumber(S)[i] < ByNumber(S)[j]
  BY <1>2, <1>3 DEF Enumerates
<1>. QED  BY <1>3, <1>4 DEF Enumerates

LEMMA EraseKeeps ==
  ASSUME NEW sq, NEW ar \in 0 .. NumMpdus, NEW o \in Originators(sq, ar), NEW ns
  PROVE  Erase(o, ns) \in Originators(sq, ar)
<1>1. o.list \in Seq(Known(sq, ar))
  BY OrigFields
<1>2. Only(o.list, Mpdus \ ns) \in Seq(Known(sq, ar) \cap (Mpdus \ ns))
  BY <1>1, OnlyIsOfSet, Zenon
<1>3. Only(o.list, Mpdus \ ns) \in Seq(Known(sq, ar))
  BY <1>2
<1>. QED  BY <1>3, SetFields DEF Erase

LEMMA DequeueKeeps ==
  ASSUME NEW sq, NEW ar \in 0 .. NumMpdus, NEW o \in Originators(sq, ar), NEW ns
  PROVE  Dequeue(o, ns) \in Originators(sq, ar)
<1>. DEFINE fly == [n \in Mpdus |-> IF n \in ns THEN {} ELSE o.fly[n]]
<1>1. o.queued \ ns \in SUBSET (1 .. ar)
  BY OrigFields
<1>2. fly \in [Mpdus -> SUBSET Links] /\ \A n \in Mpdus : fly[n] # {} => n \in Known(sq, ar)
  BY OrigFields
<1>3. Dequeue(o, ns) = [o EXCEPT !.queued = o.queued \ ns, !.fly = fly]
  BY DEF Dequeue
<1>. HIDE DEF fly
<1>. QED  BY <1>1, <1>2, <1>3 DEF Originators

LEMMA ScheduleBarKeeps ==
  ASSUME NEW sq, NEW ar \in 0 .. NumMpdus, NEW o \in Originators(sq, ar), NEW q \in BarQueues
  PROVE  ScheduleBar(o, q) \in Originators(sq, ar)
<1>. DEFINE T == Seq({"QUEUED", "SENT"})
            bar == IF o.bars[q] = <<>> THEN <<"QUEUED">> ELSE [o.bars[q] EXCEPT ![1] = "QUEUED"]
            bars == [o.bars EXCEPT ![q] = bar]
<1>1. o.bars \in [BarQueues -> T] /\ o.bars[q] \in T
  BY OrigFields
<1>2. bar \in T
  <2>1. CASE o.bars[q] = <<>>
    BY <2>1
  <2>2. CASE o.bars[q] # <<>>
    <3>1. PICK b \in T : b = o.bars[q]
      BY <1>1
    <3>2. 1 \in 1 .. Len(b)
      BY <2>2, <3>1
    <3>3. [b EXCEPT ![1] = "QUEUED"] \in T
      BY <3>2, ExceptSeq
    <3>. QED  BY <2>2, <3>1, <3>3
  <2>. QED  BY <2>1, <2>2
<1>3. bars \in [BarQueues -> T]
  <2>. HIDE DEF T, bar
  <2>. QED  BY <1>1, <1>2
<1>4. ScheduleBar(o, q) = [o EXCEPT !.bars = bars]
  BY DEF ScheduleBar
<1>. HIDE DEF bars
<1>. QED  BY <1>3, <1>4, SetFields

LEMMA WipeKeeps ==
  ASSUME NEW sq, NEW ar \in 0 .. NumMpdus, NEW o \in Originators(sq, ar)
  PROVE  WipeAllExpiredMpdus(o) \in Originators(sq, ar)
<1>. DEFINE out == {n \in o.queued : Expired(o, n) /\ o.fly[n] = {}}
            p == Dequeue(o, out)
<1>1. out \in SUBSET Mpdus /\ out \subseteq 1 .. ar
  BY OrigFields
<1>2. ByNumber(out) \in Seq(out)
  <2>. HIDE DEF out
  <2>. QED  BY <1>1, ByNumberEnumerates
<1>3. ByNumber(out) \in Seq(1 .. ar)
  <2>. HIDE DEF out
  <2>. QED  BY <1>1, <1>2, SeqOfSuperset, Zenon
<1>4. p \in Originators(sq, ar)
  BY DequeueKeeps
<1>5. WipeAllExpiredMpdus(o) = [p EXCEPT !.firing = p.firing \o ByNumber(out)]
  BY DEF WipeAllExpiredMpdus
<1>. HIDE DEF out, p
<1>6. p.firing \o ByNumber(out) \in Seq(1 .. ar)
  <2>1. p.firing \in Seq(1 .. ar)
    BY <1>4, OrigFields
  <2>. QED  BY <1>3, <2>1
<1>7. [p EXCEPT !.firing = p.firing \o ByNumber(out)] \in Originators(sq, ar)
  BY <1>4, <1>6, SetFields
<1>. QED  BY <1>5, <1>7

LEMMA DoStoreKeeps ==
  ASSUME NEW sq, NEW ar \in 0 .. NumMpdus, NEW o \in Originators(sq, ar), NEW n \in Known(sq, ar)
  PROVE  DoStorePacket(o, n) \in Originators(sq, ar)
<1>. DEFINE before(m) == GetDistance(o.seq[m], o.win.start) < GetDistance(o.seq[n], o.win.start)
            P(p) == /\ p > 0 => before(o.list[p])
                    /\ \A i \in p + 1 .. Len(o.list) : ~before(o.list[i])
            pos == CHOOSE p \in 0 .. Len(o.list) : P(p)
            list == InsertAt(o.list, pos + 1, n)
            win == NotifyTransmittedMpdu(o.win, o.seq[n])
<1>1. o.list \in Seq(Known(sq, ar)) /\ o.win \in TxWindows /\ o.seq[n] \in SentSeqs
  BY OrigFields
<1>2. win \in TxWindows
  BY <1>1, NotifyTransmittedKeeps
<1>3. \E p \in 0 .. Len(o.list) : P(p)
  <2>. DEFINE T == {i \in 0 .. Len(o.list) : \A j \in i + 1 .. Len(o.list) : ~before(o.list[j])}
  <2>. HIDE DEF before
  <2>1. Len(o.list) \in Nat
    BY <1>1
  <2>2. T # {} /\ T \subseteq Nat
    BY <2>1
  <2>3. PICK p \in T : \A k \in T : ~(<<k, p>> \in OpToRel(<, Nat))
    <3>. HIDE DEF T
    <3>. QED  BY <2>2, NatLessThanWellFounded, WFMin, Zenon
  <2>4. \A k \in T : ~(k < p)
    <3>. HIDE DEF T
    <3>. QED  BY <2>2, <2>3 DEF OpToRel
  <2>5. p > 0 => before(o.list[p])
    <3>. SUFFICES ASSUME p > 0, ~before(o.list[p]) PROVE FALSE
      OBVIOUS
    <3>1. p - 1 \in T
      <4>1. \A j \in (p - 1) + 1 .. Len(o.list) : j = p \/ j \in p + 1 .. Len(o.list)
        BY <2>1
      <4>2. p - 1 \in 0 .. Len(o.list)
        BY <2>1
      <4>. QED  BY <4>1, <4>2
    <3>2. p - 1 < p
      BY <2>1
    <3>. HIDE DEF T
    <3>. QED  BY <2>4, <3>1, <3>2
  <2>. QED  BY <2>5
<1>4. pos \in 0 .. Len(o.list)
  <2>. HIDE DEF P
  <2>. QED  BY <1>3
<1>. HIDE DEF pos
<1>5. list \in Seq(Known(sq, ar))
  BY <1>1, <1>4 DEF InsertAt
<1>. HIDE DEF list, win
<1>6. DoStorePacket(o, n) = o \/ DoStorePacket(o, n) = [o EXCEPT !.list = list, !.win = win]
  BY DEF DoStorePacket, list, pos, win
<1>7. [o EXCEPT !.list = list, !.win = win] \in Originators(sq, ar)
  BY <1>2, <1>5 DEF Originators
<1>. QED  BY <1>6, <1>7

LEMMA BaNotifyDiscardedKeeps ==
  ASSUME NEW sq, NEW ar \in 0 .. NumMpdus, NEW o \in Originators(sq, ar), NEW n \in Mpdus
  PROVE  BaNotifyDiscardedMpdu(o, n) \in Originators(sq, ar)
<1>. SUFFICES ASSUME n \in o.retry \/ o.fly[n] # {}, ~OldMpdu(o, n)
              PROVE  HandleDiscardedMpdu(o, n) \in Originators(sq, ar)
  BY DEF BaNotifyDiscardedMpdu, HandleDiscardedMpdu
<1>. DEFINE w == NotifyDiscardedMpdu(o.win, o.seq[n])
            kept == CHOOSE k \in 0 .. Len(o.list) :
                      /\ \A i \in 1 .. k : IsOld(o.seq[o.list[i]], w.start)
                      /\ k < Len(o.list) => ~IsOld(o.seq[o.list[k + 1]], w.start)
            old == {o.list[i] : i \in 1 .. kept}
            p == Dequeue(Erase(o, old), old)
            q == [p EXCEPT !.win = w]
<1>1. n \in Known(sq, ar) /\ o.seq[n] \in SentSeqs /\ o.win \in TxWindows
  BY OrigFields
<1>2. w \in TxWindows
  BY <1>1, NotifyDiscardedKeeps
<1>3. p \in Originators(sq, ar)
  BY EraseKeeps, DequeueKeeps
<1>4. HandleDiscardedMpdu(o, n) = ScheduleBar(q, AnyLink)
  BY DEF HandleDiscardedMpdu
<1>. HIDE DEF p, w
<1>5. q \in Originators(sq, ar)
  BY <1>2, <1>3, SetFields
<1>. HIDE DEF q
<1>. QED  BY <1>4, <1>5, ScheduleBarKeeps DEF BarQueues

LEMMA DiscardKeeps ==
  ASSUME NEW sq, NEW ar \in 0 .. NumMpdus, NEW o \in Originators(sq, ar), NEW n \in Mpdus
  PROVE  DiscardMpdu(o, n) \in Originators(sq, ar)
BY BaNotifyDiscardedKeeps, DequeueKeeps DEF DiscardMpdu

\* Links leave fly.
LEMMA LessFlyKeeps ==
  ASSUME NEW sq, NEW ar \in 0 .. NumMpdus, NEW o \in Originators(sq, ar),
         NEW fly \in [Mpdus -> SUBSET Links], \A m \in Mpdus : fly[m] \subseteq o.fly[m]
  PROVE  [o EXCEPT !.fly = fly] \in Originators(sq, ar)
<1>1. \A m \in Mpdus : fly[m] # {} => m \in Known(sq, ar)
  BY OrigFields
<1>. QED  BY <1>1, SetFields

LEMMA HandleInFlightKeeps ==
  ASSUME NEW sq, NEW ar \in 0 .. NumMpdus, NEW o \in Originators(sq, ar),
         NEW n \in Known(sq, ar), NEW link, NEW again \in BOOLEAN
  PROVE  HandleInFlightMpdu(o, n, link, again) \in Originators(sq, ar)
<1>. DEFINE p == Erase(o, {n})
            fly == [p.fly EXCEPT ![n] = p.fly[n] \ {link}]
            q == [p EXCEPT !.retry = p.retry \cup {n}]
<1>1. n \in Mpdus /\ p \in Originators(sq, ar)
  BY OrigFields, EraseKeeps
<1>. HIDE DEF p
<1>2. /\ p.fly \in [Mpdus -> SUBSET Links] /\ \A m \in Mpdus : p.fly[m] # {} => m \in Known(sq, ar)
      /\ p.retry \cup {n} \in SUBSET Known(sq, ar)
  BY <1>1, OrigFields
<1>3. fly \in [Mpdus -> SUBSET Links] /\ \A m \in Mpdus : fly[m] # {} => m \in Known(sq, ar)
  BY <1>1, <1>2
<1>. HIDE DEF fly
<1>4. [p EXCEPT !.retry = p.retry \cup {n}, !.fly = fly] \in Originators(sq, ar)
  <2>. DEFINE retry == p.retry \cup {n}
  <2>. HIDE DEF retry
  <2>. SUFFICES [p EXCEPT !.retry = retry, !.fly = fly] \in Originators(sq, ar)
    BY DEF retry
  <2>1. retry \in SUBSET Known(sq, ar)
    BY <1>2 DEF retry
  <2>. QED  BY <1>1, <1>3, <2>1 DEF Originators
<1>5. [Erase(o, {n}) EXCEPT !.retry = @ \cup {n}, !.fly[n] = @ \ {link}]
        = [p EXCEPT !.retry = p.retry \cup {n}, !.fly = fly]
  BY <1>1 DEF p, fly
<1>6. Dequeue(p, {n}) \in Originators(sq, ar)
  BY <1>1, DequeueKeeps
<1>7. Dequeue(BaNotifyDiscardedMpdu(o, n), {n}) \in Originators(sq, ar)
  BY <1>1, BaNotifyDiscardedKeeps, DequeueKeeps
<1>8. Erase(o, {n}) \in Originators(sq, ar)
  BY EraseKeeps
<1>. HIDE DEF q
<1>9. [Erase(o, {n}) EXCEPT !.retry = @ \cup {n}, !.fly[n] = @ \ {link}] \in Originators(sq, ar)
  BY <1>4, <1>5
<1>10. Dequeue(Erase(o, {n}), {n}) \in Originators(sq, ar)
  BY <1>8, DequeueKeeps
<1>. QED  BY <1>7, <1>8, <1>9, <1>10, Zenon DEF HandleInFlightMpdu

LEMMA HandleAllKeeps ==
  ASSUME NEW sq, NEW ar \in 0 .. NumMpdus, NEW o \in Originators(sq, ar), NEW link, NEW again
  PROVE  HandleAll(o, link, again) \in Originators(sq, ar)
<1>. DEFINE O == Originators(sq, ar) K == Known(sq, ar)
<1>1. \A p \in O, n \in K :
        (IF InList(p, n) THEN HandleInFlightMpdu(p, n, link, n \in again) ELSE p) \in O
  <2>1. \A p \in O, n \in K : HandleInFlightMpdu(p, n, link, n \in again) \in O
    <3>. SUFFICES ASSUME NEW p \in O, NEW n \in K
                  PROVE  HandleInFlightMpdu(p, n, link, n \in again) \in O
      OBVIOUS
    <3>1. CASE n \in again
      <4>1. HandleInFlightMpdu(p, n, link, TRUE) \in O
        BY HandleInFlightKeeps
      <4>. QED  BY <3>1, <4>1 DEF HandleInFlightMpdu
    <3>2. CASE n \notin again
      <4>1. HandleInFlightMpdu(p, n, link, FALSE) \in O
        BY HandleInFlightKeeps
      <4>. QED  BY <3>2, <4>1 DEF HandleInFlightMpdu
    <3>. QED  BY <3>1, <3>2
  <2>. QED  BY <2>1
<1>2. o \in O /\ o.list \in Seq(K)
  BY OrigFields
<1>. HIDE DEF O, K
<1>3. HandleAll(o, link, again) \in O
  BY <1>1, <1>2, HandleFold, Zenon
<1>. QED  BY <1>3 DEF O

LEMMA NeedBarKeeps ==
  ASSUME NEW sq, NEW ar \in 0 .. NumMpdus, NEW o \in Originators(sq, ar), NEW link
  PROVE  /\ NeedBarRetransmission(o, link).o \in Originators(sq, ar)
         /\ NeedBarRetransmission(o, link).need \in BOOLEAN
<1>. DEFINE O == Originators(sq, ar) K == Known(sq, ar) X == [o : O, need : BOOLEAN]
            Check(p, n) == (IF p.need \/ ~InList(p.o, n) THEN p ELSE
              [o |-> HandleInFlightMpdu(p.o, n, link, FALSE),
               need |-> InList(HandleInFlightMpdu(p.o, n, link, FALSE), n)])
<1>1. \A p \in X, n \in K : Check(p, n) \in X
  <2>. SUFFICES ASSUME NEW p \in X, NEW n \in K PROVE Check(p, n) \in X
    OBVIOUS
  <2>1. p.o \in O
    OBVIOUS
  <2>2. HandleInFlightMpdu(p.o, n, link, FALSE) \in O
    BY <2>1, HandleInFlightKeeps
  <2>3. InList(HandleInFlightMpdu(p.o, n, link, FALSE), n) \in BOOLEAN
    BY DEF InList
  <2>. QED  BY <2>2, <2>3
<1>2. [o |-> o, need |-> FALSE] \in X /\ o.list \in Seq(K)
  BY OrigFields
<1>3. NeedBarRetransmission(o, link) \in X
  <2>. HIDE DEF O, K, X
  <2>. QED  BY <1>1, <1>2, NeedBarFold, Zenon
<1>. QED  BY <1>3

LEMMA NotifyAckedOfKeeps ==
  ASSUME NEW sq, NEW ar \in 0 .. NumMpdus, NEW o \in Originators(sq, ar), NEW n \in Known(sq, ar)
  PROVE  NotifyAcked(o, n) \in Originators(sq, ar)
<1>. DEFINE win == NotifyAckedMpdu(o.win, o.seq[n])
            ok == o.ok \cup {n}
<1>1. win \in TxWindows
  BY OrigFields, NotifyAckedKeeps
<1>2. ok \in SUBSET (1 .. ar)
  BY OrigFields
<1>3. NotifyAcked(o, n) = [o EXCEPT !.win = win, !.ok = ok]
  BY DEF NotifyAcked
<1>. HIDE DEF win, ok
<1>. QED  BY <1>1, <1>2, <1>3 DEF Originators

LEMMA NotifyGotAckKeeps ==
  ASSUME NEW sq, NEW ar \in 0 .. NumMpdus, NEW o \in Originators(sq, ar), NEW n \in Known(sq, ar)
  PROVE  NotifyGotAck(o, n) \in Originators(sq, ar)
<1>1. NotifyAcked(o, n) \in Originators(sq, ar)
  BY NotifyAckedOfKeeps
<1>2. Erase(NotifyAcked(o, n), {n}) \in Originators(sq, ar)
  BY <1>1, EraseKeeps
<1>3. Dequeue(Erase(NotifyAcked(o, n), {n}), {n}) \in Originators(sq, ar)
  BY <1>2, DequeueKeeps
<1>. QED  BY <1>3 DEF NotifyGotAck

LEMMA NotifyMissedAckKeeps ==
  ASSUME NEW sq, NEW ar \in 0 .. NumMpdus, NEW o \in Originators(sq, ar),
         NEW n \in Known(sq, ar), NEW link
  PROVE  NotifyMissedAck(o, n, link) \in Originators(sq, ar)
<1>. DEFINE fly == [o.fly EXCEPT ![n] = o.fly[n] \ {link}]
            retry == o.retry \cup {n}
            p == [o EXCEPT !.fly = fly, !.retry = retry]
<1>1. /\ retry \in SUBSET Known(sq, ar) /\ fly \in [Mpdus -> SUBSET Links]
      /\ \A m \in Mpdus : fly[m] # {} => m \in Known(sq, ar)
  <2>1. /\ o.fly \in [Mpdus -> SUBSET Links] /\ \A m \in Mpdus : o.fly[m] # {} => m \in Known(sq, ar)
        /\ n \in Mpdus /\ o.retry \subseteq Known(sq, ar)
    BY OrigFields
  <2>. QED  BY <2>1
<1>2. p \in Originators(sq, ar)
  <2>. HIDE DEF fly, retry
  <2>. QED  BY <1>1 DEF Originators
<1>3. [o EXCEPT !.fly[n] = @ \ {link}, !.retry = @ \cup {n}] = p
  OBVIOUS
<1>. HIDE DEF p
<1>4. HandleInFlightMpdu(p, n, link, TRUE) \in Originators(sq, ar)
  BY <1>2, HandleInFlightKeeps
<1>. QED  BY <1>2, <1>3, <1>4, Zenon DEF NotifyMissedAck

LEMMA NotifyGotBlockAckKeeps ==
  ASSUME NEW sq, NEW ar \in 0 .. NumMpdus, NEW o \in Originators(sq, ar), NEW link, NEW blockAck
  PROVE  NotifyGotBlockAck(o, link, blockAck) \in Originators(sq, ar)
<1>. DEFINE O == Originators(sq, ar) K == Known(sq, ar)
            got == {n \in Mpdus : IsPacketReceived(blockAck, o.seq[n])}
            acked == Only(o.list, got)
            p == FoldLeft(NotifyAcked, o, acked)
            q == Dequeue(Erase(p, ToSet(acked)), ToSet(acked))
<1>1. acked \in Seq(K)
  <2>. HIDE DEF got, K
  <2>1. o.list \in Seq(K)
    BY OrigFields DEF K
  <2>2. acked \in Seq(K \cap got)
    BY <2>1, OnlyIsOfSet, Zenon
  <2>. HIDE DEF acked
  <2>. QED  BY <2>2, SeqOfSuperset, K \cap got \subseteq K
<1>2. \A r \in O, n \in K : NotifyAcked(r, n) \in O
  BY NotifyAckedOfKeeps
<1>3. p \in O
  <2>. HIDE DEF O, K, acked
  <2>1. o \in O
    BY DEF O
  <2>. QED  BY <1>1, <1>2, <2>1, NotifyAckedFold, Zenon
<1>4. q \in O
  <2>. HIDE DEF p, acked
  <2>1. Erase(p, ToSet(acked)) \in O
    BY <1>3, EraseKeeps
  <2>. QED  BY <2>1, DequeueKeeps
<1>5. NotifyGotBlockAck(o, link, blockAck) = HandleAll(q, link, {n \in Mpdus : q.fly[n] = {link}})
  BY DEF NotifyGotBlockAck
<1>. HIDE DEF q
<1>. QED  BY <1>4, <1>5, HandleAllKeeps

LEMMA NotifyMissedBlockAckKeeps ==
  ASSUME NEW sq, NEW ar \in 0 .. NumMpdus, NEW o \in Originators(sq, ar), NEW link
  PROVE  NotifyMissedBlockAck(o, link) \in Originators(sq, ar)
BY HandleAllKeeps DEF NotifyMissedBlockAck

LEMMA DropKeeps ==
  ASSUME NEW sq, NEW ar \in 0 .. NumMpdus, NEW o \in Originators(sq, ar), NEW psdu \in Seq(Known(sq, ar))
  PROVE  DropMpduIfRetryLimitReached(o, psdu) \in Originators(sq, ar)
<1>. SUFFICES ASSUME RetryLimit # 0
              PROVE  DropMpduIfRetryLimitReached(o, psdu) \in Originators(sq, ar)
  BY DEF DropMpduIfRetryLimitReached
<1>. DEFINE O == Originators(sq, ar) K == Known(sq, ar)
            tries == [n \in Mpdus |-> IF n \in ToSet(psdu) THEN o.tries[n] + 1 ELSE o.tries[n]]
            p == [o EXCEPT !.tries = tries]
            last == {n \in Mpdus : p.tries[n] = RetryLimit}
            drop == Only(psdu, last)
<1>1. tries \in [Mpdus -> Nat]
  <2>1. o.tries \in [Mpdus -> Nat]
    BY OrigFields
  <2>. QED  BY <2>1
<1>2. p \in O
  <2>. HIDE DEF tries
  <2>. QED  BY <1>1, SetFields
<1>3. drop \in Seq(K)
  <2>. HIDE DEF last, K
  <2>1. drop \in Seq(K \cap last)
    BY OnlyIsOfSet, psdu \in Seq(K), Zenon DEF K
  <2>. HIDE DEF drop
  <2>. QED  BY <2>1, SeqOfSuperset, K \cap last \subseteq K
<1>4. DropMpduIfRetryLimitReached(o, psdu) = FoldLeft(DiscardMpdu, p, drop)
  BY DEF DropMpduIfRetryLimitReached
<1>5. \A r \in O, n \in K : DiscardMpdu(r, n) \in O
  <2>1. \A n \in K : n \in Mpdus
    BY OrigFields
  <2>. QED  BY <2>1, DiscardKeeps
<1>6. FoldLeft(DiscardMpdu, p, drop) \in O
  <2>. HIDE DEF O, K, p, drop
  <2>. QED  BY <1>2, <1>3, <1>5, DiscardFold, Zenon
<1>. QED  BY <1>4, <1>6

\* The last sequence number assigned becomes available again: one MPDU less
\* has one.
LEMMA ReleaseKeeps ==
  ASSUME NEW sq, NEW ar \in 0 .. NumMpdus, NEW o \in Originators(sq, ar), NEW n \in Known(sq, ar)
  PROVE  ReleaseSequenceNumber(o, n) \in Originators(sq, ar)
<1>. SUFFICES ASSUME (o.seq[n] + 1) % SeqSpace = o.next
              PROVE  [o EXCEPT !.next = o.seq[n], !.numbered = o.numbered \ {n}] \in Originators(sq, ar)
  BY DEF ReleaseSequenceNumber
<1>. DEFINE next == o.seq[n] numbered == o.numbered \ {n}
<1>1. next \in SentSeqs /\ numbered \in SUBSET Known(sq, ar) /\ o.numbered \subseteq 1 .. ar
      /\ Pos(o.next) <= Cardinality(o.numbered)
  BY OrigFields
<1>2. next \in StartSeqs /\ next \in Seqs /\ Pos(next) \in Nat /\ Pos(next) < NumMpdus
  BY <1>1, SentIsStart
<1>3. Pos(o.next) = Pos(next) + 1
  <2>1. Pos(next) + 1 <= NumMpdus
    BY <1>2, Sizes
  <2>. HIDE DEF next
  <2>2. Pos((next + 1) % SeqSpace) = Pos(next) + 1
    BY <1>2, <2>1, PosPlus
  <2>. QED  BY <2>2 DEF next
<1>4. Cardinality(numbered) \in Nat /\ Cardinality(numbered) >= Cardinality(o.numbered) - 1
      /\ Cardinality(o.numbered) \in Nat
  <2>1. ar \in Int /\ 1 \in Int
    OBVIOUS
  <2>2. IsFiniteSet(1 .. ar)
    BY <2>1, FS_Interval
  <2>3. IsFiniteSet(o.numbered)
    BY <1>1, <2>2, FS_Subset
  <2>4. Cardinality(o.numbered) \in Nat
    BY <2>3, FS_CardinalityType
  <2>5. Cardinality(o.numbered \ {n}) = IF n \in o.numbered THEN Cardinality(o.numbered) - 1
                                        ELSE Cardinality(o.numbered)
    BY <2>3, FS_RemoveElement
  <2>6. IsFiniteSet(numbered)
    BY <2>3, FS_RemoveElement
  <2>7. Cardinality(numbered) \in Nat
    <3>. HIDE DEF numbered
    <3>. QED  BY <2>6, FS_CardinalityType
  <2>. QED  BY <2>4, <2>5, <2>7
<1>5. Pos(next) <= Cardinality(numbered)
  BY <1>1, <1>2, <1>3, <1>4
<1>. HIDE DEF next, numbered
<1>6. [o EXCEPT !.next = next, !.numbered = numbered] \in Originators(sq, ar)
  BY <1>1, <1>2, <1>5 DEF Originators
<1>. QED  BY <1>6 DEF next, numbered

LEMMA ReleaseAllKeeps ==
  ASSUME NEW sq, NEW ar \in 0 .. NumMpdus, NEW o \in Originators(sq, ar), NEW psdu \in Seq(Known(sq, ar))
  PROVE  ReleaseSequenceNumbers(o, psdu) \in Originators(sq, ar)
<1>. DEFINE O == Originators(sq, ar) K == Known(sq, ar)
<1>1. Reverse(psdu) \in Seq(K)
  BY DEF Reverse
<1>2. \A r \in O, n \in K : ReleaseSequenceNumber(r, n) \in O
  BY ReleaseKeeps
<1>3. o \in O
  OBVIOUS
<1>. HIDE DEF O, K
<1>4. FoldLeft(ReleaseSequenceNumber, o, Reverse(psdu)) \in O
  BY <1>1, <1>2, <1>3, ReleaseFold, Zenon
<1>. QED  BY <1>4 DEF ReleaseSequenceNumbers, O

\* A response to an ADDBA request that was answered before.
LEMMA GotAddBaResponseKeeps ==
  ASSUME NEW sq, NEW ar \in 0 .. NumMpdus, NEW o \in Originators(sq, ar)
  PROVE  GotAddBaResponse(o) \in Originators(sq, ar)
<1>. DEFINE p     == WipeAllExpiredMpdus(o)
            first == CHOOSE n \in p.queued : \A m \in p.queued : n <= m
            start == IF p.queued # {} /\ first \in p.numbered THEN p.seq[first] ELSE p.next
            win == InitWindow(start)
            repeats == p.repeats + 1
<1>1. p \in Originators(sq, ar)
  BY WipeKeeps
<1>. HIDE DEF p, first
<1>2. start \in StartSeqs
  <2>1. p.numbered \subseteq Known(sq, ar) /\ p.seq = sq /\ p.next \in StartSeqs
        /\ \A n \in Known(sq, ar) : sq[n] \in SentSeqs
    BY <1>1, OrigFields
  <2>. QED  BY <2>1, SentIsStart
<1>3. win \in TxWindows
  <2>. HIDE DEF start
  <2>. QED  BY <1>2, StartInTxWindows
<1>4. repeats \in Nat
  BY <1>1, OrigFields
<1>5. GotAddBaResponse(o) = [p EXCEPT !.win = win, !.repeats = repeats]
  BY DEF GotAddBaResponse, p, first
<1>. HIDE DEF win, repeats
<1>. QED  BY <1>1, <1>3, <1>4, <1>5 DEF Originators

LEMMA TransmitKeeps ==
  ASSUME NEW sq, NEW ar \in 0 .. NumMpdus, NEW o \in Originators(sq, ar), NEW l \in Links,
         NEW kind, NEW psdu \in Seq(Known(sq, ar))
  PROVE  Transmit(o, l, kind, psdu) \in Originators(sq, ar)
<1>. DEFINE O == Originators(sq, ar) K == Known(sq, ar)
<1>1. \A r \in O, n \in K : DoStorePacket(r, n) \in O
  BY DoStoreKeeps
<1>2. o \in O /\ psdu \in Seq(K)
  OBVIOUS
<1>3. FoldLeft(DoStorePacket, o, psdu) \in O
  <2>. HIDE DEF O, K
  <2>. QED  BY <1>1, <1>2, DoStoreFold, Zenon
<1>4. BarQueue(l) \in BarQueues
  BY DEF BarQueue, BarQueues
<1>5. ScheduleBar(FoldLeft(DoStorePacket, o, psdu), BarQueue(l)) \in O
  BY <1>3, <1>4, ScheduleBarKeeps
<1>. QED  BY <1>3, <1>5, Zenon DEF Transmit

LEMMA DropOldKeeps ==
  ASSUME NEW sq, NEW ar \in 0 .. NumMpdus, NEW o \in Originators(sq, ar)
  PROVE  DropOld(o) \in Originators(sq, ar)
BY DequeueKeeps DEF DropOld

\* The queues of block ack requests.
Tokens == {"QUEUED", "SENT"}

LEMMA BarQueueIsQueue ==
  ASSUME NEW l \in Links
  PROVE  BarQueue(l) \in BarQueues /\ AnyLink \in BarQueues
BY DEF BarQueue, BarQueues

LEMMA SetBar ==
  ASSUME NEW sq, NEW ar \in 0 .. NumMpdus, NEW o \in Originators(sq, ar),
         NEW q, NEW v \in Seq(Tokens)
  PROVE  [o EXCEPT !.bars[q] = v] \in Originators(sq, ar)
<1>. DEFINE bars == [o.bars EXCEPT ![q] = v]
<1>1. bars \in [BarQueues -> Seq({"QUEUED", "SENT"})]
  <2>1. o.bars \in [BarQueues -> Seq({"QUEUED", "SENT"})]
    BY OrigFields
  <2>. QED  BY <2>1 DEF Tokens
<1>2. [o EXCEPT !.bars[q] = v] = [o EXCEPT !.bars = bars]
  OBVIOUS
<1>. HIDE DEF bars
<1>. QED  BY <1>1, <1>2, SetFields

LEMMA FirstToken ==
  ASSUME NEW b \in Seq(Tokens), NEW t \in Tokens
  PROVE  [b EXCEPT ![1] = t] \in Seq(Tokens)
<1>1. CASE b = <<>>
  <2>1. [b EXCEPT ![1] = t] = b
    BY <1>1
  <2>. QED  BY <2>1
<1>2. CASE b # <<>>
  <2>1. 1 \in 1 .. Len(b)
    BY <1>2
  <2>. QED  BY <2>1, ExceptSeq
<1>. QED  BY <1>1, <1>2

LEMMA BarsTyped ==
  ASSUME NEW sq, NEW ar \in 0 .. NumMpdus, NEW o \in Originators(sq, ar), NEW q \in BarQueues
  PROVE  o.bars[q] \in Seq(Tokens)
BY OrigFields DEF Tokens

LEMMA KeepBarKeeps ==
  ASSUME NEW sq, NEW ar \in 0 .. NumMpdus, NEW o \in Originators(sq, ar), NEW l \in Links
  PROVE  KeepBar(o, l) \in Originators(sq, ar)
<1>. DEFINE q == BarQueue(l) b == o.bars[q] v == [i \in DOMAIN b |-> "QUEUED"]
<1>1. b \in Seq(Tokens)
  BY BarsTyped, BarQueueIsQueue
<1>2. v \in Seq(Tokens)
  BY <1>1 DEF Tokens
<1>3. KeepBar(o, l) = [o EXCEPT !.bars[q] = v]
  BY DEF KeepBar
<1>. HIDE DEF q, v
<1>4. [o EXCEPT !.bars[q] = v] \in Originators(sq, ar)
  BY <1>2, SetBar
<1>. QED  BY <1>3, <1>4

LEMMA DequeueBarKeeps ==
  ASSUME NEW sq, NEW ar \in 0 .. NumMpdus, NEW o \in Originators(sq, ar), NEW l \in Links
  PROVE  DequeueBar(o, l) \in Originators(sq, ar)
<1>. DEFINE q == BarQueue(l) b == o.bars[q] v == Only(b, {"QUEUED"})
<1>1. b \in Seq(Tokens)
  BY BarsTyped, BarQueueIsQueue
<1>2. v \in Seq(Tokens)
  <2>. HIDE DEF b
  <2>1. v \in Seq(Tokens \cap {"QUEUED"})
    BY <1>1, OnlyIsOfSet, Zenon
  <2>. HIDE DEF v
  <2>. QED  BY <2>1, SeqOfSuperset, Tokens \cap {"QUEUED"} \subseteq Tokens
<1>3. DequeueBar(o, l) = [o EXCEPT !.bars[q] = v]
  BY DEF DequeueBar
<1>. HIDE DEF q, v
<1>4. [o EXCEPT !.bars[q] = v] \in Originators(sq, ar)
  BY <1>2, SetBar
<1>. QED  BY <1>3, <1>4

LEMMA GetBarKeeps ==
  ASSUME NEW sq, NEW ar \in 0 .. NumMpdus, NEW o \in Originators(sq, ar), NEW l \in Links,
         NEW p \in GetBar(o, l)
  PROVE  p \in Originators(sq, ar)
<1>. DEFINE q == BarQueue(l)
            sent == [o.bars[q] EXCEPT ![1] = "SENT"]
            o1 == [o EXCEPT !.bars[q] = sent]
            p1 == IF IsMld THEN [o1 EXCEPT !.bars[AnyLink] = <<>>] ELSE o1
            o2 == [o EXCEPT !.bars[AnyLink] = Tail(o.bars[AnyLink])]
            p2 == [o2 EXCEPT !.bars[q] = Append(o2.bars[q], "SENT")]
            o3 == [o EXCEPT !.bars[q] = <<"SENT">>]
            p3 == [o3 EXCEPT !.barIfData = FALSE]
<1>0. q \in BarQueues /\ AnyLink \in BarQueues /\ "SENT" \in Tokens
  BY BarQueueIsQueue DEF Tokens
<1>1. p1 \in Originators(sq, ar)
  <2>1. sent \in Seq(Tokens)
    BY <1>0, BarsTyped, FirstToken
  <2>2. o1 \in Originators(sq, ar)
    <3>. HIDE DEF sent, q
    <3>. QED  BY <2>1, SetBar
  <2>. HIDE DEF o1
  <2>3. <<>> \in Seq(Tokens)
    OBVIOUS
  <2>4. [o1 EXCEPT !.bars[AnyLink] = <<>>] \in Originators(sq, ar)
    BY <2>2, <2>3, SetBar
  <2>. QED  BY <2>2, <2>4
<1>2. ASSUME o.bars[AnyLink] # <<>> PROVE p2 \in Originators(sq, ar)
  <2>1. Tail(o.bars[AnyLink]) \in Seq(Tokens)
    <3>1. PICK b : b = o.bars[AnyLink]
      OBVIOUS
    <3>2. b \in Seq(Tokens) /\ b # <<>>
      BY <1>0, <1>2, <3>1, BarsTyped
    <3>3. Tail(b) \in Seq(Tokens)
      BY <3>2
    <3>. QED  BY <3>1, <3>3
  <2>2. o2 \in Originators(sq, ar)
    BY <2>1, SetBar
  <2>. HIDE DEF o2, q
  <2>3. o2.bars[q] \in Seq(Tokens)
    BY <1>0, <2>2, BarsTyped
  <2>4. Append(o2.bars[q], "SENT") \in Seq(Tokens)
    BY <1>0, <2>3
  <2>. QED  BY <2>2, <2>4, SetBar
<1>3. p3 \in Originators(sq, ar)
  <2>1. <<"SENT">> \in Seq(Tokens)
    BY <1>0
  <2>2. o3 \in Originators(sq, ar)
    <3>. HIDE DEF q
    <3>. QED  BY <2>1, SetBar
  <2>. HIDE DEF o3
  <2>. QED  BY <2>2, SetFields
<1>4. p = p1 \/ (p = p2 /\ o.bars[AnyLink] # <<>>) \/ p = p3
  <2>. DEFINE available == {c \in {q, AnyLink} : o.bars[c] # <<>>}
              pick(c) == IF c = q THEN p1 ELSE p2
  <2>1. GetBar(o, l) = IF available # {} THEN {pick(c) : c \in available}
                       ELSE IF o.barIfData /\ o.queued # {} THEN {p3} ELSE {}
    <3>. HIDE DEF q
    <3>1. q = BarQueue(l)
      BY DEF q
    <3>. QED  BY <3>1 DEF GetBar
  <2>. HIDE DEF p1, p2, p3, q
  <2>. QED  BY <2>1
<1>. QED  BY <1>1, <1>2, <1>3, <1>4

LEMMA MissedBlockAckKeeps ==
  ASSUME NEW sq, NEW ar \in 0 .. NumMpdus, NEW o \in Originators(sq, ar), NEW l \in Links,
         NEW isBar \in BOOLEAN
  PROVE  MissedBlockAck(o, l, isBar) \in Originators(sq, ar)
<1>. DEFINE bar == NeedBarRetransmission(o, l)
            b   == IF isBar THEN KeepBar(bar.o, l) ELSE ScheduleBar(bar.o, BarQueue(l))
            c   == IF isBar THEN DequeueBar(bar.o, l) ELSE bar.o
<1>1. bar.o \in Originators(sq, ar)
  BY NeedBarKeeps
<1>2. b \in Originators(sq, ar)
  <2>. HIDE DEF bar
  <2>. QED  BY <1>1, KeepBarKeeps, ScheduleBarKeeps, BarQueueIsQueue
<1>3. c \in Originators(sq, ar)
  <2>. HIDE DEF bar
  <2>. QED  BY <1>1, DequeueBarKeeps
<1>4. [c EXCEPT !.barIfData = TRUE] \in Originators(sq, ar)
  <2>. HIDE DEF c
  <2>. QED  BY <1>3, SetFields
<1>5. MissedBlockAck(o, l, isBar) =
        IF ExplicitBar \/ isBar
        THEN IF bar.need THEN b ELSE [c EXCEPT !.barIfData = TRUE]
        ELSE NotifyMissedBlockAck(o, l)
  BY DEF MissedBlockAck
<1>. HIDE DEF bar, b, c
<1>. QED  BY <1>2, <1>4, <1>5, NotifyMissedBlockAckKeeps

----------------------------------------------------------------------------
(***************************************************************************)
(* Selection of what to send.                                              *)
(***************************************************************************)
LEMMA PrefixKeeps ==
  ASSUME NEW A, NEW s \in Seq(A), IsInjective(s), NEW k \in 0 .. Len(s)
  PROVE  /\ SubSeq(s, 1, k) \in Seq(A) /\ Len(SubSeq(s, 1, k)) = k
         /\ IsInjective(SubSeq(s, 1, k))
<1>1. /\ SubSeq(s, 1, k) \in Seq(A) /\ Len(SubSeq(s, 1, k)) = k
      /\ \A i \in 1 .. k : SubSeq(s, 1, k)[i] = s[i]
  OBVIOUS
<1>2. DOMAIN SubSeq(s, 1, k) = 1 .. k /\ 1 .. k \subseteq DOMAIN s
  BY <1>1
<1>. QED  BY <1>1, <1>2 DEF IsInjective

CanBeSent(o, l) ==
  {n \in o.queued : o.fly[n] # {} => l \notin o.fly[n] /\ Cardinality(o.fly[n]) < MaxInflights}

LEMMA SendableIsPrefix ==
  ASSUME NEW sq, NEW ar \in 0 .. NumMpdus, NEW o \in Originators(sq, ar), NEW l
  PROVE  \E last \in 0 .. Len(Eligible(o, l)) : Sendable(o, l) = SubSeq(Eligible(o, l), 1, last)
<1>. DEFINE ns == Eligible(o, l)
            seqs == SeqToUse(o, ns)
            inWindow == {k \in 0 .. Len(ns) : \A i \in 1 .. k : IsInWindow(seqs[i], o.win.start)}
            last == CHOOSE k \in inWindow : \A j \in inWindow : j <= k
<1>1. ns \in Seq(CanBeSent(o, l))
  <2>1. PICK S : S = CanBeSent(o, l)
    OBVIOUS
  <2>2. S \in SUBSET Mpdus
    BY <2>1, OrigFields DEF CanBeSent
  <2>3. ns = ByNumber(S)
    BY <2>1 DEF CanBeSent, Eligible
  <2>4. PICK m \in Nat : m = Cardinality(S)
    BY <2>2, ByNumberIsOrdered
  <2>5. ns \in [1 .. m -> S]
    BY <2>2, <2>3, <2>4, ByNumberIsOrdered
  <2>6. ns \in Seq(S)
    BY <2>5
  <2>. QED  BY <2>1, <2>6
<1>. HIDE DEF ns, seqs
<1>2. last \in 0 .. Len(ns)
  <2>. DEFINE T == {k + 1 : k \in inWindow} n == Len(ns) + 1
  <2>1. Len(ns) \in Nat
    BY <1>1
  <2>2. T \in SUBSET (1 .. n) /\ 0 \in inWindow /\ inWindow \subseteq 0 .. Len(ns) /\ n \in Nat
    BY <2>1
  <2>3. T # {}
    BY <2>2
  <2>. HIDE DEF n, inWindow
  <2>4. Max(T) \in T /\ \A k \in T : k <= Max(T)
    <3>. HIDE DEF T
    <3>. QED  BY <2>2, <2>3, MaxOfIndices
  <2>5. PICK k \in inWindow : Max(T) = k + 1
    BY <2>4
  <2>6. \A j \in inWindow : j <= k
    <3>1. \A j \in inWindow : j + 1 <= k + 1
      BY <2>4, <2>5
    <3>. QED  BY <2>1, <2>2, <3>1
  <2>7. last \in inWindow
    BY <2>6
  <2>. QED  BY <2>2, <2>7
<1>3. Sendable(o, l) = SubSeq(ns, 1, last)
  BY DEF Sendable, ns, seqs
<1>. HIDE DEF last
<1>. QED  BY <1>2, <1>3 DEF ns

LEMMA SendableIsQueued ==
  ASSUME NEW sq, NEW ar \in 0 .. NumMpdus, NEW o \in Originators(sq, ar), NEW l
  PROVE  Sendable(o, l) \in Seq(1 .. ar) /\ IsInjective(Sendable(o, l))
<1>1. PICK S : S = CanBeSent(o, l)
  OBVIOUS
<1>2. S \in SUBSET Mpdus /\ S \subseteq 1 .. ar
  BY <1>1, OrigFields DEF CanBeSent
<1>3. PICK ns : ns = Eligible(o, l)
  OBVIOUS
<1>4. ns = ByNumber(S)
  BY <1>1, <1>3 DEF CanBeSent, Eligible
<1>5. ns \in Seq(S) /\ IsInjective(ns)
  BY <1>2, <1>4, ByNumberEnumerates
<1>6. ns \in Seq(1 .. ar)
  BY <1>2, <1>5, SeqOfSuperset
<1>7. PICK last \in 0 .. Len(ns) : Sendable(o, l) = SubSeq(ns, 1, last)
  BY <1>3, SendableIsPrefix
<1>. QED  BY <1>5, <1>6, <1>7, PrefixKeeps

(***************************************************************************)
(* Assignment of sequence numbers.                                         *)
(***************************************************************************)
Fresh(o, psdu) == {i \in DOMAIN psdu : psdu[i] \notin o.numbered}
Earlier(o, psdu, i) == {j \in 1 .. i - 1 : psdu[j] \notin o.numbered}

\* The MPDUs of a PSDU that have no sequence number get the next ones: there
\* are enough of them.
LEMMA FreshNumbers ==
  ASSUME NEW sq, NEW ar \in 0 .. NumMpdus, NEW o \in Originators(sq, ar),
         NEW psdu \in Seq(1 .. ar), IsInjective(psdu),
         NEW next, next = (o.next + Cardinality(Fresh(o, psdu))) % SeqSpace
  PROVE  /\ next \in StartSeqs /\ Pos(next) <= Cardinality(o.numbered \cup ToSet(psdu))
         /\ Cardinality(Fresh(o, psdu)) \in Nat /\ Pos(o.next) \in Nat
         /\ Pos(next) = Pos(o.next) + Cardinality(Fresh(o, psdu))
         /\ \A i \in Fresh(o, psdu) :
              LET c == Cardinality(Earlier(o, psdu, i)) IN
              /\ c \in Nat /\ c < Cardinality(Fresh(o, psdu))
              /\ (o.next + c) % SeqSpace \in SentSeqs
              /\ Pos((o.next + c) % SeqSpace) = Pos(o.next) + c
              /\ \A j \in Fresh(o, psdu) : i < j => c < Cardinality(Earlier(o, psdu, j))
<1>. DEFINE fresh == Fresh(o, psdu)
            F == {psdu[i] : i \in fresh}
            earlier(i) == Earlier(o, psdu, i)
            numbered == o.numbered \cup ToSet(psdu)
<1>1. /\ o.numbered \subseteq 1 .. ar /\ o.next \in StartSeqs
      /\ Pos(o.next) <= Cardinality(o.numbered)
  BY OrigFields
<1>2. /\ DOMAIN psdu = 1 .. Len(psdu) /\ Len(psdu) \in Nat /\ psdu \in [1 .. Len(psdu) -> 1 .. ar]
      /\ ToSet(psdu) = {psdu[i] : i \in DOMAIN psdu}
  BY DEF ToSet
<1>3. IsFiniteSet(1 .. ar) /\ Cardinality(1 .. ar) = ar /\ IsFiniteSet(1 .. Len(psdu))
  <2>1. ar \in Int /\ 1 \in Int /\ Len(psdu) \in Int /\ ~(1 > ar /\ ar # 0) /\ ar \in Nat
    BY <1>2, Sizes
  <2>2. IsFiniteSet(1 .. ar) /\ Cardinality(1 .. ar) = IF 1 > ar THEN 0 ELSE ar - 1 + 1
    BY <2>1, FS_Interval
  <2>3. IsFiniteSet(1 .. Len(psdu))
    BY <2>1, FS_Interval
  <2>. QED  BY <2>1, <2>2, <2>3
<1>4. IsFiniteSet(o.numbered) /\ IsFiniteSet(fresh) /\ Cardinality(o.numbered) \in Nat /\ Cardinality(fresh) \in Nat
  <2>1. o.numbered \in SUBSET (1 .. ar) /\ fresh \in SUBSET (1 .. Len(psdu))
    BY <1>1, <1>2 DEF Fresh
  <2>. HIDE DEF fresh
  <2>2. IsFiniteSet(o.numbered) /\ IsFiniteSet(fresh)
    BY <1>3, <2>1, FS_Subset
  <2>. QED  BY <2>2, FS_CardinalityType
<1>5. IsFiniteSet(F) /\ Cardinality(F) = Cardinality(fresh)
  <2>. DEFINE f == [i \in fresh |-> psdu[i]]
  <2>1. f \in Bijection(fresh, F)
    <3>1. \A i, j \in fresh : psdu[i] = psdu[j] => i = j
      BY DEF IsInjective, Fresh
    <3>. HIDE DEF fresh
    <3>2. f \in Injection(fresh, F)
      BY <3>1 DEF Injection, IsInjective
    <3>3. f \in Surjection(fresh, F)
      BY DEF Surjection
    <3>. QED  BY <3>2, <3>3 DEF Bijection
  <2>. HIDE DEF f, fresh, F
  <2>2. ExistsBijection(fresh, F)
    BY <2>1 DEF ExistsBijection
  <2>. QED  BY <1>4, <2>2, FS_Bijection
<1>6. /\ Cardinality(numbered) = Cardinality(o.numbered) + Cardinality(fresh)
      /\ Cardinality(numbered) <= NumMpdus
  <2>1. numbered = o.numbered \cup F /\ o.numbered \cap F = {} /\ numbered \in SUBSET (1 .. ar)
    BY <1>1, <1>2 DEF Fresh
  <2>. HIDE DEF numbered, F, fresh
  <2>2. Cardinality(o.numbered \cap F) = 0
    BY <2>1, FS_EmptySet
  <2>3. Cardinality(numbered) = Cardinality(o.numbered) + Cardinality(F) - Cardinality(o.numbered \cap F)
    BY <1>4, <1>5, <2>1, FS_Union
  <2>4. Cardinality(numbered) <= ar
    BY <1>3, <2>1, FS_Subset
  <2>5. ar \in Nat /\ ar <= NumMpdus
    BY Sizes
  <2>6. Cardinality(numbered) = Cardinality(o.numbered) + Cardinality(fresh)
    BY <1>4, <1>5, <2>2, <2>3
  <2>. QED  BY <1>4, <2>4, <2>5, <2>6, Sizes
<1>7. PICK f \in Nat : f = Cardinality(fresh)
  BY <1>4
<1>8. /\ Pos(o.next) \in Nat /\ o.next \in Seqs /\ Pos(o.next) + f <= NumMpdus
      /\ Pos(o.next) + f <= Cardinality(numbered)
  <2>1. Pos(o.next) \in Nat /\ o.next \in Seqs
    BY <1>1, PosInSeqs, Sizes DEF StartSeqs, Seqs
  <2>. HIDE DEF fresh, numbered
  <2>. QED  BY <1>1, <1>4, <1>6, <1>7, <2>1, Sizes
<1>9. next \in StartSeqs /\ Pos(next) = Pos(o.next) + f /\ Pos(next) <= Cardinality(numbered)
  <2>1. next = (o.next + f) % SeqSpace
    BY <1>7
  <2>. HIDE DEF fresh, numbered
  <2>. QED  BY <1>8, <2>1, PosPlus
\* A set of fresh positions without a later one of them is smaller.
<1>10. ASSUME NEW i \in fresh, NEW S \in SUBSET fresh, earlier(i) \subseteq S, i \in S
       PROVE  /\ Cardinality(earlier(i)) \in Nat /\ Cardinality(S) \in Nat
              /\ Cardinality(earlier(i)) < Cardinality(S)
  <2>1. i \notin earlier(i)
    BY <1>2 DEF Earlier, Fresh
  <2>. HIDE DEF fresh
  <2>2. IsFiniteSet(S) /\ Cardinality(S) \in Nat
    BY <1>4, FS_Subset, FS_CardinalityType
  <2>. HIDE DEF earlier
  <2>3. earlier(i) \in SUBSET S /\ earlier(i) # S
    BY <1>10, <2>1
  <2>4. IsFiniteSet(earlier(i))
    BY <2>2, <2>3, FS_Subset
  <2>5. Cardinality(earlier(i)) < Cardinality(S) /\ Cardinality(earlier(i)) \in Nat
    BY <2>2, <2>3, <2>4, FS_Subset, FS_CardinalityType
  <2>. QED  BY <2>2, <2>5
<1>11. ASSUME NEW i \in fresh
       PROVE  LET c == Cardinality(earlier(i)) IN
              /\ c \in Nat /\ c < Cardinality(fresh)
              /\ (o.next + c) % SeqSpace \in SentSeqs
              /\ Pos((o.next + c) % SeqSpace) = Pos(o.next) + c
              /\ \A j \in fresh : i < j => c < Cardinality(earlier(j))
  <2>1. earlier(i) \subseteq fresh /\ fresh \in SUBSET fresh
    BY <1>2 DEF Earlier, Fresh
  <2>2. \A j \in fresh : i < j => i \in earlier(j) /\ earlier(i) \subseteq earlier(j)
                                  /\ earlier(j) \in SUBSET fresh
    BY <1>2 DEF Earlier, Fresh
  <2>. HIDE DEF fresh, earlier
  <2>3. Cardinality(earlier(i)) \in Nat /\ Cardinality(earlier(i)) < f
    BY <1>7, <1>10, <2>1
  <2>4. \A j \in fresh : i < j => Cardinality(earlier(i)) < Cardinality(earlier(j))
    BY <1>10, <2>2
  <2>5. PICK c \in Nat : c = Cardinality(earlier(i)) /\ c < f
    BY <2>3
  <2>6. Pos(o.next) + c < NumMpdus /\ Pos(o.next) + c <= NumMpdus
    BY <1>7, <1>8, <2>5, Sizes
  <2>7. (o.next + c) % SeqSpace \in StartSeqs /\ Pos((o.next + c) % SeqSpace) = Pos(o.next) + c
    BY <1>8, <2>5, <2>6, PosPlus
  <2>8. (o.next + c) % SeqSpace \in SentSeqs
    BY <2>6, <2>7 DEF SentSeqs, StartSeqs
  <2>. QED  BY <1>7, <2>4, <2>5, <2>7, <2>8
<1>. QED  BY <1>7, <1>8, <1>9, <1>11

\* The MPDUs of a PSDU have or get a sequence number: there are at most
\* NumMpdus numbers.
LEMMA TakeKeeps ==
  ASSUME NEW sq \in [Mpdus -> Seqs], NEW ar \in 0 .. NumMpdus, NEW o \in Originators(sq, ar),
         NEW l \in Links, NEW psdu \in Seq(1 .. ar), IsInjective(psdu)
  PROVE  /\ Take(o, l, psdu).seq \in [Mpdus -> Seqs]
         /\ Take(o, l, psdu) \in Originators(Take(o, l, psdu).seq, ar)
         /\ Known(sq, ar) \subseteq Known(Take(o, l, psdu).seq, ar)
         /\ psdu \in Seq(Known(Take(o, l, psdu).seq, ar))
<1>. DEFINE seqs == SeqToUse(o, psdu)
            fresh == Fresh(o, psdu)
            earlier(i) == Earlier(o, psdu, i)
            place(n) == CHOOSE i \in DOMAIN psdu : psdu[i] = n
            seq == [n \in Mpdus |-> IF n \in ToSet(psdu) THEN seqs[place(n)] ELSE o.seq[n]]
            numbered == o.numbered \cup ToSet(psdu)
            next == (o.next + Cardinality(fresh)) % SeqSpace
            fly == [n \in Mpdus |-> IF n \in ToSet(psdu) THEN o.fly[n] \cup {l} ELSE o.fly[n]]
            p == [o EXCEPT !.seq = seq, !.numbered = numbered, !.next = next, !.fly = fly]
<1>1. /\ o.seq = sq /\ o.numbered \subseteq Known(sq, ar) /\ Known(sq, ar) \subseteq 1 .. ar
      /\ \A n \in Known(sq, ar) : sq[n] \in SentSeqs
      /\ o.next \in StartSeqs /\ Pos(o.next) <= Cardinality(o.numbered) /\ 1 .. ar \subseteq Mpdus
      /\ o.fly \in [Mpdus -> SUBSET Links] /\ \A n \in Mpdus : o.fly[n] # {} => n \in Known(sq, ar)
      /\ o.retry \subseteq Known(sq, ar) /\ o.list \in Seq(Known(sq, ar))
  BY OrigFields
<1>2. /\ DOMAIN psdu = 1 .. Len(psdu) /\ Len(psdu) \in Nat /\ psdu \in [1 .. Len(psdu) -> 1 .. ar]
      /\ ToSet(psdu) = {psdu[i] : i \in DOMAIN psdu}
  BY DEF ToSet
<1>3. /\ next \in StartSeqs /\ Pos(next) <= Cardinality(numbered) /\ numbered \subseteq 1 .. ar
      /\ \A i \in fresh : (o.next + Cardinality(earlier(i))) % SeqSpace \in SentSeqs
  BY <1>1, <1>2, FreshNumbers
<1>4. ASSUME NEW i \in DOMAIN psdu PROVE seqs[i] \in SentSeqs
  <2>1. seqs[i] = IF psdu[i] \in o.numbered THEN o.seq[psdu[i]]
                  ELSE (o.next + Cardinality(earlier(i))) % SeqSpace
    BY DEF SeqToUse, Earlier
  <2>2. psdu[i] \notin o.numbered => i \in fresh
    BY DEF Fresh
  <2>. HIDE DEF seqs, earlier, fresh
  <2>. QED  BY <1>1, <1>3, <2>1, <2>2
<1>5. \A n \in ToSet(psdu) : place(n) \in DOMAIN psdu /\ n \in 1 .. ar
  BY <1>2
<1>. HIDE DEF seqs, place, fresh, numbered, next
<1>6. /\ \A n \in ToSet(psdu) : seq[n] \in SentSeqs
      /\ \A n \in Known(sq, ar) : seq[n] \in SentSeqs
      /\ seq \in [Mpdus -> Seqs]
  <2>1. \A n \in ToSet(psdu) : n \in Mpdus /\ seq[n] \in SentSeqs
    BY <1>1, <1>4, <1>5
  <2>2. \A n \in Known(sq, ar) : seq[n] \in SentSeqs
    BY <1>1, <2>1
  <2>3. \A n \in Mpdus : seq[n] \in Seqs
    BY <1>1, <2>1, SentIsStart
  <2>. QED  BY <2>1, <2>2, <2>3
<1>7. Take(o, l, psdu) = p
  BY DEF Take, seqs, place, fresh, numbered, next, Fresh
<1>8. fly \in [Mpdus -> SUBSET Links] /\ \A n \in Mpdus : fly[n] # {} => n \in ToSet(psdu) \cup Known(sq, ar)
  BY <1>1
<1>. HIDE DEF seq, fly
<1>9. p.seq = seq
  BY DEF Originators
<1>10. Known(sq, ar) \subseteq Known(seq, ar) /\ ToSet(psdu) \subseteq Known(seq, ar)
  BY <1>1, <1>5, <1>6 DEF Known
<1>11. psdu \in Seq(Known(seq, ar))
  BY <1>2, <1>10
<1>12. o.list \in Seq(Known(seq, ar)) /\ o.retry \subseteq Known(seq, ar)
       /\ \A n \in Mpdus : fly[n] # {} => n \in Known(seq, ar)
  BY <1>1, <1>8, <1>10, SeqOfSuperset
<1>13. numbered \in SUBSET Known(seq, ar)
  BY <1>1, <1>10 DEF numbered
<1>14. p \in Originators(seq, ar)
  BY <1>3, <1>8, <1>12, <1>13 DEF Originators
<1>. QED  BY <1>6, <1>7, <1>9, <1>10, <1>11, <1>14

----------------------------------------------------------------------------
(***************************************************************************)
(* Frame exchanges.                                                        *)
(***************************************************************************)
LEMMA StartSeqIsStart ==
  /\ StartSeq \in StartSeqs /\ Pos(StartSeq) = 0
  /\ InitWindow(StartSeq) \in TxWindows /\ InitWindow(StartSeq) \in Bitmaps
<1>1. StartSeq \in StartSeqs /\ Pos(StartSeq) = 0
  <2>1. StartSeq \in Seqs /\ StartSeq \in Nat
    BY Sizes DEF Seqs
  <2>2. Pos(StartSeq) = IF StartSeq >= StartSeq THEN StartSeq - StartSeq
                        ELSE StartSeq - StartSeq + SeqSpace
    BY <2>1, PosInSeqs
  <2>. HIDE DEF Pos
  <2>3. Pos(StartSeq) = 0
    BY <2>1, <2>2
  <2>. QED  BY <2>1, <2>3, Sizes DEF StartSeqs
<1>2. InitWindow(StartSeq) \in TxWindows
  BY <1>1, StartInTxWindows
<1>. QED  BY <1>1, <1>2 DEF TxWindows, Bitmaps

LEMMA HeadAndTail ==
  ASSUME NEW S, NEW s \in Seq(S), s # <<>>
  PROVE  Head(s) \in S /\ Tail(s) \in Seq(S)
OBVIOUS

LEMMA IdleIsExchange ==
  ASSUME NEW K
  PROVE  Idle \in Exchanges(K)
BY StartSeqIsStart DEF Idle, Exchanges

LEMMA OnAirIsExchange ==
  ASSUME NEW K, NEW kind \in {"ACK", "BA", "LATER", "BAR"}, NEW psdu \in Seq(K),
         kind = "ACK" => psdu # <<>>
  PROVE  OnAir(kind, psdu) \in Exchanges(K)
<1>1. PICK i : i = Idle
  OBVIOUS
<1>2. i \in Exchanges(K)
  BY <1>1, IdleIsExchange
<1>3. [i EXCEPT !.phase = "AIR", !.kind = kind, !.psdu = psdu, !.todo = psdu] \in Exchanges(K)
  BY <1>2 DEF Exchanges
<1>. QED  BY <1>1, <1>3 DEF OnAir

LEMMA ExchangesGrow ==
  ASSUME NEW A, NEW B, A \subseteq B, NEW e \in Exchanges(A)
  PROVE  e \in Exchanges(B)
<1>1. e.psdu \in Seq(B) /\ e.todo \in Seq(B)
  BY SeqOfSuperset DEF Exchanges
<1>. QED  BY <1>1 DEF Exchanges

----------------------------------------------------------------------------
(***************************************************************************)
(* The actions.                                                            *)
(***************************************************************************)
O == Originators(orig.seq, orig.arrived)
K == Known(orig.seq, orig.arrived)

LEMMA InitIInv == Init => IInv
<1>. SUFFICES ASSUME Init PROVE IInv
  OBVIOUS
<1>1. orig = NewOriginator(StartSeq) /\ recip = NewRecipientAgreement(StartSeq)
      /\ exch = [l \in Links |-> Idle]
  BY DEF Init
<1>2. /\ StartSeq \in StartSeqs /\ InitWindow(StartSeq) \in TxWindows
      /\ InitWindow(StartSeq) \in Bitmaps /\ InitWindow(StartSeq).start = StartSeq
      /\ Pos(StartSeq) = 0 /\ StartSeq \in Seqs
  BY StartSeqIsStart, Sizes DEF InitWindow
<1>3. /\ orig.arrived = 0 /\ orig.seq = [n \in Mpdus |-> 0] /\ 0 \in Seqs /\ 0 \in 0 .. NumMpdus
      /\ Cardinality({}) = 0
  BY <1>1, Sizes, FS_EmptySet DEF NewOriginator, Seqs
<1>4. orig \in Originators(orig.seq, orig.arrived)
  <2>. DEFINE zero == [n \in Mpdus |-> 0] w == InitWindow(StartSeq)
              fly == [n \in Mpdus |-> {}] bars == [q \in BarQueues |-> <<>>]
  <2>0. PICK z \in Nat : z = 0
    OBVIOUS
  <2>1. orig = [arrived |-> z, queued |-> {}, overdue |-> z, firing |-> <<>>,
                seq |-> zero, numbered |-> {}, retry |-> {},
                fly |-> fly, tries |-> zero,
                next |-> StartSeq, win |-> w, list |-> <<>>,
                bars |-> bars, barIfData |-> FALSE, ok |-> {},
                repeats |-> z]
    BY <1>1, <2>0 DEF NewOriginator
  <2>2. zero \in [Mpdus -> Nat] /\ Pos(StartSeq) <= Cardinality({}) /\ w \in TxWindows
        /\ z \in 0 .. z /\ orig.seq = zero /\ orig.arrived = z
    BY <1>2, <1>3, <2>0
  <2>3. bars \in [BarQueues -> Seq({"QUEUED", "SENT"})]
    OBVIOUS
  <2>4. fly \in [Mpdus -> SUBSET Links] /\ \A n \in Mpdus : fly[n] = {}
    OBVIOUS
  <2>5. PICK S : S = Known(zero, z)
    OBVIOUS
  <2>. HIDE DEF zero, w, fly, bars
  <2>6. PICK none : none = <<>>
    OBVIOUS
  <2>7. none \in Seq(1 .. z) /\ none \in Seq(S)
    BY <2>6
  <2>8. orig \in [arrived : {z}, queued : SUBSET (1 .. z), overdue : 0 .. z,
          firing : Seq(1 .. z), seq : {zero}, numbered : SUBSET S,
          retry : SUBSET S, fly : [Mpdus -> SUBSET Links],
          tries : [Mpdus -> Nat], next : StartSeqs, win : TxWindows,
          list : Seq(S), bars : [BarQueues -> Seq({"QUEUED", "SENT"})],
          barIfData : BOOLEAN, ok : SUBSET (1 .. z), repeats : Nat]
    BY <1>2, <2>0, <2>1, <2>2, <2>3, <2>4, <2>6, <2>7
  <2>9. /\ \A n \in Mpdus : orig.fly[n] # {} => n \in S
        /\ Pos(orig.next) <= Cardinality(orig.numbered)
    BY <2>1, <2>2, <2>4
  <2>. QED  BY <2>2, <2>5, <2>8, <2>9 DEF Originators
<1>5. recip \in Recipients
  BY <1>1, <1>2, Sizes DEF NewRecipientAgreement, Recipients
<1>6. exch \in [Links -> Exchanges(K)]
  BY <1>1, IdleIsExchange
<1>. QED  BY <1>3, <1>4, <1>5, <1>6 DEF IInv, K

LEMMA IInvFields ==
  ASSUME IInv
  PROVE  /\ orig.arrived \in 0 .. NumMpdus /\ orig.arrived \in Nat
         /\ orig.seq \in [Mpdus -> Seqs] /\ orig \in O
         /\ recip \in Recipients /\ exch \in [Links -> Exchanges(K)]
BY DEF IInv, O, K

\* A step that leaves the sequence numbers and the number of MPDUs alone.
LEMMA SameNumbers ==
  ASSUME IInv, orig' \in O, recip' \in Recipients, exch' \in [Links -> Exchanges(K)]
  PROVE  IInv'
<1>1. orig'.seq = orig.seq /\ orig'.arrived = orig.arrived
  BY DEF O, Originators
<1>. QED  BY <1>1 DEF IInv, O, K

\* A step of the frame exchange of a link.
LEMMA SetExchange ==
  ASSUME IInv, NEW l \in Links, NEW e \in Exchanges(K), exch' = [exch EXCEPT ![l] = e]
  PROVE  exch' \in [Links -> Exchanges(K)]
BY DEF IInv, K

LEMMA EnqueueStep ==
  ASSUME IInv, Enqueue
  PROVE  IInv'
<1>. DEFINE sq == orig.seq ar == orig.arrived
            o == WipeAllExpiredMpdus(orig)
            more == 1 .. ar + 1
            queued == o.queued \cup {ar + 1}
<1>1. /\ ar \in 0 .. NumMpdus /\ ar + 1 \in 0 .. NumMpdus /\ ar \in Nat
      /\ sq \in [Mpdus -> Seqs] /\ orig \in Originators(sq, ar)
      /\ orig' = [o EXCEPT !.arrived = o.arrived + 1, !.queued = queued]
      /\ recip' = recip /\ exch' = exch
  BY Sizes DEF IInv, Enqueue
<1>. HIDE DEF sq, ar
<1>2. o \in Originators(sq, ar)
  BY <1>1, WipeKeeps
<1>. HIDE DEF o
<1>3. /\ o.arrived = ar /\ o.seq = sq /\ o.queued \subseteq 1 .. ar /\ o.overdue \in 0 .. ar
      /\ o.firing \in Seq(1 .. ar) /\ o.ok \subseteq 1 .. ar
      /\ o.list \in Seq(Known(sq, ar))
  BY <1>1, <1>2, OrigFields
<1>4. 1 .. ar \subseteq more /\ ar + 1 \in more /\ 0 .. ar \subseteq 0 .. ar + 1
      /\ Known(sq, ar) \subseteq Known(sq, ar + 1)
  BY <1>1 DEF Known
<1>5. o.firing \in Seq(more) /\ queued \in SUBSET more /\ o.ok \in SUBSET more
      /\ o.list \in Seq(Known(sq, ar + 1)) /\ o.overdue \in 0 .. ar + 1
  <2>1. o.firing \in Seq(more)
    <3>1. PICK A, B : A = 1 .. ar /\ B = more
      OBVIOUS
    <3>2. A \subseteq B /\ o.firing \in Seq(A)
      BY <1>3, <1>4, <3>1, Zenon
    <3>3. o.firing \in Seq(B)
      BY <3>2, SeqOfSuperset, Zenon
    <3>. QED  BY <3>1, <3>3, Zenon
  <2>2. o.list \in Seq(Known(sq, ar + 1))
    <3>1. PICK A, B : A = Known(sq, ar) /\ B = Known(sq, ar + 1)
      OBVIOUS
    <3>2. A \subseteq B /\ o.list \in Seq(A)
      BY <1>3, <1>4, <3>1, Zenon
    <3>3. o.list \in Seq(B)
      BY <3>2, SeqOfSuperset, Zenon
    <3>. QED  BY <3>1, <3>3, Zenon
  <2>. HIDE DEF more
  <2>. QED  BY <1>3, <1>4, <2>1, <2>2
<1>6. orig' = [o EXCEPT !.arrived = ar + 1, !.queued = queued]
  BY <1>1, <1>3
<1>. HIDE DEF queued
<1>7. orig' \in Originators(sq, ar + 1)
  <2>1. PICK up : up = ar + 1
    OBVIOUS
  <2>2. [o EXCEPT !.arrived = up, !.queued = queued] \in Originators(sq, up)
    BY <1>2, <1>4, <1>5, <2>1, ZenonT(30) DEF Originators
  <2>. QED  BY <1>6, <2>1, <2>2
<1>8. orig'.seq = sq /\ orig'.arrived = ar + 1
  BY <1>7 DEF Originators
<1>9. exch' \in [Links -> Exchanges(Known(sq, ar + 1))]
  <2>1. exch \in [Links -> Exchanges(Known(sq, ar))]
    BY DEF IInv, sq, ar
  <2>2. \A l \in Links : exch[l] \in Exchanges(Known(sq, ar + 1))
    BY <1>4, <2>1, ExchangesGrow
  <2>. QED  BY <1>1, <2>1, <2>2
<1>10. recip' \in Recipients
  BY <1>1 DEF IInv
<1>. QED  BY <1>1, <1>7, <1>8, <1>9, <1>10 DEF IInv

LEMMA LifetimeOverStep ==
  ASSUME IInv, LifetimeOver
  PROVE  IInv'
<1>1. orig.overdue + 1 \in 0 .. orig.arrived
  BY IInvFields, OrigFields DEF LifetimeOver, O
<1>2. orig' \in O
  BY <1>1, IInvFields, SetFields DEF LifetimeOver, O
<1>. QED  BY <1>2, IInvFields, SameNumbers DEF LifetimeOver

LEMMA WipeExpiredStep ==
  ASSUME IInv, WipeExpired
  PROVE  IInv'
<1>1. orig' \in O
  BY IInvFields, WipeKeeps DEF WipeExpired, O
<1>. QED  BY <1>1, IInvFields, SameNumbers DEF WipeExpired

LEMMA FireExpiredStep ==
  ASSUME IInv, FireExpired
  PROVE  IInv'
<1>. DEFINE n == Head(orig.firing) firing == Tail(orig.firing)
            p == [orig EXCEPT !.firing = firing]
<1>1. orig.firing \in Seq(1 .. orig.arrived) /\ 1 .. orig.arrived \subseteq Mpdus
      /\ orig.firing # <<>>
  BY IInvFields, OrigFields DEF FireExpired, Firing, O
<1>2. n \in Mpdus /\ firing \in Seq(1 .. orig.arrived)
  <2>1. Head(orig.firing) \in 1 .. orig.arrived /\ Tail(orig.firing) \in Seq(1 .. orig.arrived)
    BY <1>1, HeadAndTail, Zenon
  <2>. QED  BY <1>1, <2>1
<1>3. p \in O
  <2>. HIDE DEF firing
  <2>. QED  BY <1>2, IInvFields, SetFields DEF O
<1>4. orig' = BaNotifyDiscardedMpdu(p, n)
  BY DEF FireExpired
<1>. HIDE DEF p, n
<1>5. orig' \in O
  BY <1>2, <1>3, <1>4, IInvFields, BaNotifyDiscardedKeeps DEF O
<1>. QED  BY <1>5, IInvFields, SameNumbers DEF FireExpired

LEMMA RepeatedAddBaResponseStep ==
  ASSUME IInv, RepeatedAddBaResponse
  PROVE  IInv'
<1>1. orig' \in O
  BY IInvFields, GotAddBaResponseKeeps DEF RepeatedAddBaResponse, O
<1>. QED  BY <1>1, IInvFields, SameNumbers DEF RepeatedAddBaResponse

\* A step of a link that assigns no sequence numbers.
LEMMA LinkStep ==
  ASSUME IInv, NEW l \in Links, NEW e \in Exchanges(K),
         orig' \in O, recip' \in Recipients, exch' = [exch EXCEPT ![l] = e]
  PROVE  IInv'
BY SameNumbers, SetExchange

LEMMA ExchangeFields ==
  ASSUME NEW S, NEW e \in Exchanges(S)
  PROVE  /\ e.phase \in {"IDLE", "RTS", "AIR", "RESP"}
         /\ e.kind \in {"NONE", "ACK", "BA", "LATER", "BAR"}
         /\ e.psdu \in Seq(S) /\ e.todo \in Seq(S) /\ e.got \in BOOLEAN
         /\ e.blockAck \in Bitmaps
         /\ e.phase # "IDLE" => e.kind # "NONE"
         /\ e.phase = "RESP" => e.kind # "LATER"
         /\ e.kind = "ACK" => e.psdu # <<>> /\ e.psdu[1] \in S
<1>1. e.kind = "ACK" => e.psdu[1] \in S
  <2>. SUFFICES ASSUME e.kind = "ACK" PROVE e.psdu[1] \in S
    OBVIOUS
  <2>1. PICK s \in Seq(S) : s = e.psdu /\ s # <<>>
    BY DEF Exchanges
  <2>2. s[1] \in S
    BY <2>1
  <2>. QED  BY <2>1, <2>2
<1>. QED  BY <1>1 DEF Exchanges

LEMMA SetExchangeFields ==
  ASSUME NEW S, NEW e \in Exchanges(S)
  PROVE  /\ \A v \in Seq(S) : [e EXCEPT !.todo = v] \in Exchanges(S)
         /\ \A v \in Seq(S) : [e EXCEPT !.todo = v, !.got = TRUE] \in Exchanges(S)
         /\ [e EXCEPT !.got = TRUE] \in Exchanges(S)
         /\ \A v \in Bitmaps : [e EXCEPT !.blockAck = v] \in Exchanges(S)
         /\ e.kind \notin {"NONE", "LATER"} =>
              \A v \in Bitmaps : [e EXCEPT !.phase = "RESP", !.blockAck = v] \in Exchanges(S)
         /\ e.kind # "NONE" =>
              \A v \in Seq(S) : [e EXCEPT !.phase = "RTS", !.todo = v] \in Exchanges(S)
BY DEF Exchanges

LEMMA NothingIsSequence ==
  ASSUME NEW S
  PROVE  <<>> \in Seq(S)
OBVIOUS

LEMMA SendBarStep ==
  ASSUME IInv, NEW l \in Links, SendBar(l)
  PROVE  IInv'
<1>1. orig' \in GetBar(WipeAllExpiredMpdus(orig), l) /\ recip' = recip
  BY DEF SendBar
<1>2. WipeAllExpiredMpdus(orig) \in O
  BY IInvFields, WipeKeeps DEF O
<1>3. orig' \in O
  BY <1>1, <1>2, IInvFields, GetBarKeeps DEF O
<1>4. InitWindow(orig'.win.start) \in Bitmaps
  BY <1>3, IInvFields, OrigFields, SeqWindowAssumption DEF O, TxWindows, Bitmaps, InitWindow, Windows, StartSeqs
<1>5. OnAir("BAR", <<>>) \in Exchanges(K)
  BY NothingIsSequence, OnAirIsExchange
<1>. DEFINE e == [OnAir("BAR", <<>>) EXCEPT !.blockAck = InitWindow(orig'.win.start)]
<1>6. e \in Exchanges(K)
  BY <1>4, <1>5, SetExchangeFields
<1>7. exch' = [exch EXCEPT ![l] = e]
  BY DEF SendBar
<1>. HIDE DEF e
<1>. QED  BY <1>1, <1>3, <1>6, <1>7, IInvFields, LinkStep

\* What selection leaves of the originator when no MPDU is taken.
LEMMA AfterBarKeeps ==
  ASSUME IInv, NEW l \in Links, NEW s \in AfterBar(l)
  PROVE  KeepBar(s, l) \in O
<1>1. WipeAllExpiredMpdus(orig) \in O
  BY IInvFields, WipeKeeps DEF O
<1>2. \A p \in GetBar(WipeAllExpiredMpdus(orig), l) : p \in O
  BY <1>1, IInvFields, GetBarKeeps DEF O
<1>3. PICK p \in O : s = DropOld(p)
  BY <1>1, <1>2 DEF AfterBar
<1>4. s \in O
  BY <1>3, IInvFields, DropOldKeeps DEF O
<1>. QED  BY <1>4, IInvFields, KeepBarKeeps DEF O

LEMMA StartNothingStep ==
  ASSUME IInv, NEW l \in Links, StartNothing(l)
  PROVE  IInv'
<1>1. orig' \in O
  BY AfterBarKeeps DEF StartNothing
<1>. QED  BY <1>1, IInvFields, SameNumbers DEF StartNothing

LEMMA StartDataStep ==
  ASSUME IInv, NEW l \in Links, StartData(l)
  PROVE  IInv'
<1>. DEFINE sq == orig.seq ar == orig.arrived
<1>1. PICK s \in AfterBar(l) :
        LET o == KeepBar(s, l) ns == Sendable(o, l) IN
        \E k \in 1 .. Len(ns) :
          /\ k <= MaxAmpdu
          /\ LET psdu == SubSeq(ns, 1, k)
                 kind == AckMethod(o, l, psdu)
                 p == Take(o, l, psdu)
             IN \/ /\ UseRts
                   /\ orig' = p
                   /\ exch' = [exch EXCEPT ![l] =
                        [OnAir(kind, psdu) EXCEPT !.phase = "RTS", !.todo = <<>>]]
                \/ /\ orig' = Transmit(p, l, kind, psdu)
                   /\ exch' = [exch EXCEPT ![l] = OnAir(kind, psdu)]
  BY DEF StartData
<1>2. KeepBar(s, l) \in Originators(sq, ar) /\ ar \in 0 .. NumMpdus /\ sq \in [Mpdus -> Seqs]
  BY <1>1, IInvFields, AfterBarKeeps DEF O
<1>3. PICK o \in Originators(sq, ar) : o = KeepBar(s, l)
  BY <1>2
<1>4. PICK ns : ns = Sendable(o, l)
  OBVIOUS
<1>5. ns \in Seq(1 .. ar) /\ IsInjective(ns)
  BY <1>2, <1>4, SendableIsQueued
<1>6. PICK k \in 1 .. Len(ns) :
        LET psdu == SubSeq(ns, 1, k)
            kind == AckMethod(o, l, psdu)
            p == Take(o, l, psdu)
        IN \/ /\ orig' = p
              /\ exch' = [exch EXCEPT ![l] =
                   [OnAir(kind, psdu) EXCEPT !.phase = "RTS", !.todo = <<>>]]
           \/ /\ orig' = Transmit(p, l, kind, psdu)
              /\ exch' = [exch EXCEPT ![l] = OnAir(kind, psdu)]
  BY <1>1, <1>3, <1>4, Zenon
<1>7. PICK psdu : psdu = SubSeq(ns, 1, k)
  OBVIOUS
<1>8. psdu \in Seq(1 .. ar) /\ IsInjective(psdu) /\ psdu # <<>>
  <2>1. k \in 0 .. Len(ns) /\ k # 0
    BY <1>5
  <2>2. psdu \in Seq(1 .. ar) /\ Len(psdu) = k /\ IsInjective(psdu)
    BY <1>5, <1>7, <2>1, PrefixKeeps
  <2>. QED  BY <2>1, <2>2
<1>9. PICK kind \in {"ACK", "BA", "LATER", "BAR"} : kind = AckMethod(o, l, psdu)
  BY DEF AckMethod
<1>10. PICK p : p = Take(o, l, psdu)
  OBVIOUS
<1>11. /\ p.seq \in [Mpdus -> Seqs] /\ p \in Originators(p.seq, ar)
       /\ Known(sq, ar) \subseteq Known(p.seq, ar) /\ psdu \in Seq(Known(p.seq, ar))
  BY <1>2, <1>8, <1>10, TakeKeeps
<1>. DEFINE K2 == Known(p.seq, ar)
            rts == [OnAir(kind, psdu) EXCEPT !.phase = "RTS", !.todo = <<>>]
<1>12. OnAir(kind, psdu) \in Exchanges(K2)
  BY <1>8, <1>11, OnAirIsExchange
<1>13. rts \in Exchanges(K2)
  <2>1. OnAir(kind, psdu).kind # "NONE"
    BY DEF OnAir, Idle
  <2>. QED  BY <1>12, <2>1, NothingIsSequence, SetExchangeFields
<1>14. exch \in [Links -> Exchanges(Known(sq, ar))]
  BY IInvFields DEF K
<1>15. \A i \in Links : exch[i] \in Exchanges(K2)
  BY <1>11, <1>14, ExchangesGrow
<1>16. Transmit(p, l, kind, psdu) \in Originators(p.seq, ar)
  BY <1>2, <1>11, TransmitKeeps
<1>17. \/ orig' = p /\ exch' = [exch EXCEPT ![l] = rts]
       \/ orig' = Transmit(p, l, kind, psdu) /\ exch' = [exch EXCEPT ![l] = OnAir(kind, psdu)]
  BY <1>6, <1>7, <1>9, <1>10
<1>18. recip' \in Recipients
  BY IInvFields DEF StartData
<1>. HIDE DEF sq, ar, rts
<1>19. orig' \in Originators(p.seq, ar)
  BY <1>11, <1>16, <1>17
<1>20. orig'.seq = p.seq /\ orig'.arrived = ar
  BY <1>19 DEF Originators
<1>21. exch' \in [Links -> Exchanges(K2)]
  BY <1>12, <1>13, <1>14, <1>15, <1>17
<1>. QED  BY <1>2, <1>11, <1>18, <1>19, <1>20, <1>21 DEF IInv

----------------------------------------------------------------------------
\* What the invariant says of the exchange of a link.
LEMMA ExchangeOf ==
  ASSUME IInv, NEW l \in Links
  PROVE  exch[l] \in Exchanges(K)
BY IInvFields

LEMMA KnownMpdus ==
  ASSUME IInv
  PROVE  K \subseteq Mpdus /\ \A n \in K : orig.seq[n] \in SentSeqs
BY IInvFields, OrigFields DEF K, O

LEMMA GotCtsStep ==
  ASSUME IInv, NEW l \in Links, GotCts(l)
  PROVE  IInv'
<1>1. PICK e \in Exchanges(K) : e = exch[l]
  BY ExchangeOf
<1>2. e.kind \in {"ACK", "BA", "LATER", "BAR"} /\ e.psdu \in Seq(K)
      /\ (e.kind = "ACK" => e.psdu # <<>>)
  BY <1>1, ExchangeFields DEF GotCts
<1>3. OnAir(e.kind, e.psdu) \in Exchanges(K)
  BY <1>2, OnAirIsExchange
<1>4. Transmit(orig, l, e.kind, e.psdu) \in O
  BY <1>2, IInvFields, TransmitKeeps DEF O, K
<1>5. /\ orig' = Transmit(orig, l, e.kind, e.psdu) /\ recip' = recip
      /\ exch' = [exch EXCEPT ![l] = OnAir(e.kind, e.psdu)]
  BY <1>1 DEF GotCts
<1>. QED  BY <1>3, <1>4, <1>5, IInvFields, LinkStep

LEMMA CtsTimeoutKeeps ==
  ASSUME IInv, NEW l \in Links, CtsTimeout(l)
  PROVE  orig' \in O
<1>1. PICK psdu \in Seq(K) : psdu = exch[l].psdu
  BY ExchangeOf, ExchangeFields
<1>2. PICK fly : fly = [n \in Mpdus |-> IF n \in ToSet(psdu) THEN orig.fly[n] \ {l} ELSE orig.fly[n]]
  OBVIOUS
<1>3. PICK o : o = [orig EXCEPT !.fly = fly]
  OBVIOUS
<1>4. orig.fly \in [Mpdus -> SUBSET Links]
  BY IInvFields, OrigFields DEF O
<1>5. fly \in [Mpdus -> SUBSET Links] /\ \A n \in Mpdus : fly[n] \subseteq orig.fly[n]
  BY <1>2, <1>4
<1>6. orig' = ReleaseSequenceNumbers(DropMpduIfRetryLimitReached(o, psdu), psdu)
  BY <1>1, <1>2, <1>3 DEF CtsTimeout
<1>7. o \in O
  BY <1>3, <1>5, IInvFields, LessFlyKeeps DEF O
<1>8. DropMpduIfRetryLimitReached(o, psdu) \in O
  BY <1>7, IInvFields, DropKeeps DEF O, K
<1>. QED  BY <1>6, <1>8, IInvFields, ReleaseAllKeeps DEF O, K

LEMMA CtsTimeoutStep ==
  ASSUME IInv, NEW l \in Links, CtsTimeout(l)
  PROVE  IInv'
<1>1. recip' = recip /\ exch' = [exch EXCEPT ![l] = Idle]
  BY DEF CtsTimeout
<1>. QED  BY <1>1, CtsTimeoutKeeps, IInvFields, IdleIsExchange, LinkStep

LEMMA ReceiveMpduStep ==
  ASSUME IInv, NEW l \in Links, ReceiveMpdu(l)
  PROVE  IInv'
<1>1. PICK e \in Exchanges(K) : e = exch[l]
  BY ExchangeOf
<1>2. e.todo \in Seq(K) /\ e.todo # <<>>
  BY <1>1, ExchangeFields DEF ReceiveMpdu
<1>3. Head(e.todo) \in K /\ Tail(e.todo) \in Seq(K)
  BY <1>2, HeadAndTail
<1>. DEFINE n == Head(e.todo)
            f == [e EXCEPT !.todo = Tail(e.todo), !.got = TRUE]
<1>4. f \in Exchanges(K)
  BY <1>3, SetExchangeFields
<1>5. NotifyReceivedMpdu(recip, orig.seq[n], n) \in Recipients
  BY <1>3, KnownMpdus, IInvFields, ReceivedMpduMoves
<1>6. /\ recip' = NotifyReceivedMpdu(recip, orig.seq[n], n) /\ orig' = orig
      /\ exch' = [exch EXCEPT ![l] = f]
  BY <1>1, IInvFields DEF ReceiveMpdu
<1>. HIDE DEF f, n
<1>. QED  BY <1>4, <1>5, <1>6, IInvFields, LinkStep

LEMMA LoseMpduStep ==
  ASSUME IInv, NEW l \in Links, LoseMpdu(l)
  PROVE  IInv'
<1>1. PICK e \in Exchanges(K) : e = exch[l]
  BY ExchangeOf
<1>2. e.todo \in Seq(K) /\ e.todo # <<>>
  BY <1>1, ExchangeFields DEF LoseMpdu
<1>. DEFINE f == [e EXCEPT !.todo = Tail(e.todo)]
<1>3. f \in Exchanges(K)
  BY <1>2, HeadAndTail, SetExchangeFields
<1>4. recip' = recip /\ orig' = orig /\ exch' = [exch EXCEPT ![l] = f]
  BY <1>1, IInvFields DEF LoseMpdu
<1>. HIDE DEF f
<1>. QED  BY <1>3, <1>4, IInvFields, LinkStep

LEMMA ReceiveBarStep ==
  ASSUME IInv, NEW l \in Links, ReceiveBar(l)
  PROVE  IInv'
<1>1. PICK e \in Exchanges(K) : e = exch[l]
  BY ExchangeOf
<1>2. e.blockAck.start \in StartSeqs
  BY <1>1, ExchangeFields DEF Bitmaps
<1>. DEFINE f == [e EXCEPT !.got = TRUE]
<1>3. f \in Exchanges(K)
  BY SetExchangeFields
<1>4. NotifyReceivedBar(recip, e.blockAck.start) \in Recipients
  BY <1>2, IInvFields, ReceivedBarMoves
<1>5. /\ recip' = NotifyReceivedBar(recip, e.blockAck.start) /\ orig' = orig
      /\ exch' = [exch EXCEPT ![l] = f]
  BY <1>1, IInvFields DEF ReceiveBar
<1>. HIDE DEF f
<1>. QED  BY <1>3, <1>4, <1>5, IInvFields, LinkStep

LEMMA RespondStep ==
  ASSUME IInv, NEW l \in Links, Respond(l)
  PROVE  IInv'
<1>1. PICK e \in Exchanges(K) : e = exch[l]
  BY ExchangeOf
<1>2. PICK w \in Bitmaps : w = FillBlockAckBitmap(recip)
  BY IInvFields DEF FillBlockAckBitmap, Recipients
<1>. DEFINE f == [e EXCEPT !.phase = "RESP", !.blockAck = w]
<1>3. e.kind \notin {"NONE", "LATER"}
  BY <1>1, ExchangeFields DEF Respond, OnAirOnly
<1>4. f \in Exchanges(K)
  BY <1>3, SetExchangeFields
<1>5. recip' = recip /\ orig' = orig /\ exch' = [exch EXCEPT ![l] = f]
  BY <1>1, <1>2, IInvFields DEF Respond
<1>. HIDE DEF f
<1>. QED  BY <1>4, <1>5, IInvFields, LinkStep

LEMMA GotResponseStep ==
  ASSUME IInv, NEW l \in Links, GotResponse(l)
  PROVE  IInv'
<1>1. PICK e \in Exchanges(K) : e = exch[l]
  BY ExchangeOf
<1>2. e.kind \in {"ACK", "BA", "BAR"} /\ (e.kind = "ACK" => e.psdu[1] \in K)
  BY <1>1, ExchangeFields DEF GotResponse
<1>3. orig' = CASE e.kind = "ACK" -> NotifyGotAck(orig, e.psdu[1])
                [] e.kind = "BA"  -> NotifyGotBlockAck(orig, l, e.blockAck)
                [] e.kind = "BAR" -> DequeueBar(NotifyGotBlockAck(orig, l, e.blockAck), l)
  BY <1>1 DEF GotResponse
<1>4. NotifyGotBlockAck(orig, l, e.blockAck) \in O
  BY IInvFields, NotifyGotBlockAckKeeps DEF O
<1>5. orig' \in O
  <2>1. CASE e.kind = "ACK"
    <3>1. NotifyGotAck(orig, e.psdu[1]) \in O
      BY <1>2, <2>1, IInvFields, NotifyGotAckKeeps DEF O, K
    <3>. QED  BY <1>3, <2>1, <3>1
  <2>2. CASE e.kind = "BA"
    BY <1>3, <1>4, <2>2
  <2>3. CASE e.kind = "BAR"
    <3>1. DequeueBar(NotifyGotBlockAck(orig, l, e.blockAck), l) \in O
      BY <1>4, IInvFields, DequeueBarKeeps DEF O
    <3>. QED  BY <1>3, <2>3, <3>1
  <2>. QED  BY <1>2, <2>1, <2>2, <2>3
<1>6. recip' = recip /\ exch' = [exch EXCEPT ![l] = Idle]
  BY DEF GotResponse
<1>. QED  BY <1>5, <1>6, IInvFields, IdleIsExchange, LinkStep

LEMMA ResponseTimeoutStep ==
  ASSUME IInv, NEW l \in Links, ResponseTimeout(l)
  PROVE  IInv'
<1>1. PICK e \in Exchanges(K) : e = exch[l]
  BY ExchangeOf
<1>2. e.kind = "ACK" => e.psdu[1] \in K
  BY ExchangeFields
<1>3. PICK o : o = DropMpduIfRetryLimitReached(orig, e.psdu)
  OBVIOUS
<1>4. o \in O
  BY <1>3, ExchangeFields, IInvFields, DropKeeps DEF O, K
<1>5. PICK isBar \in BOOLEAN : isBar = (e.kind = "BAR")
  OBVIOUS
<1>6. orig' = IF e.kind = "ACK" THEN NotifyMissedAck(o, e.psdu[1], l)
              ELSE MissedBlockAck(o, l, isBar)
  BY <1>1, <1>3, <1>5 DEF ResponseTimeout
<1>7. MissedBlockAck(o, l, isBar) \in O
  BY <1>4, IInvFields, MissedBlockAckKeeps DEF O
<1>8. e.kind = "ACK" => NotifyMissedAck(o, e.psdu[1], l) \in O
  BY <1>2, <1>4, IInvFields, NotifyMissedAckKeeps DEF O, K
<1>9. orig' \in O
  BY <1>6, <1>7, <1>8
<1>10. recip' = recip /\ exch' = [exch EXCEPT ![l] = Idle]
  BY DEF ResponseTimeout
<1>. QED  BY <1>9, <1>10, IInvFields, IdleIsExchange, LinkStep

LEMMA NoResponseStep ==
  ASSUME IInv, NEW l \in Links, NoResponse(l)
  PROVE  IInv'
BY IInvFields, IdleIsExchange, LinkStep DEF NoResponse

----------------------------------------------------------------------------
LEMMA NextIInv == IInv /\ [Next]_vars => IInv'
<1>. SUFFICES ASSUME IInv, [Next]_vars PROVE IInv'
  OBVIOUS
<1>1. CASE Enqueue
  BY <1>1, EnqueueStep
<1>2. CASE LifetimeOver
  BY <1>2, LifetimeOverStep
<1>3. CASE WipeExpired
  BY <1>3, WipeExpiredStep
<1>4. CASE FireExpired
  BY <1>4, FireExpiredStep
<1>5. CASE RepeatedAddBaResponse
  BY <1>5, RepeatedAddBaResponseStep
<1>6. ASSUME NEW l \in Links, StartStep(l) PROVE IInv'
  BY <1>6, SendBarStep, StartDataStep, StartNothingStep DEF StartStep
<1>7. ASSUME NEW l \in Links, ExchangeStep(l) PROVE IInv'
  BY <1>7, GotCtsStep, CtsTimeoutStep, ReceiveMpduStep, LoseMpduStep, ReceiveBarStep,
     RespondStep, GotResponseStep, ResponseTimeoutStep, NoResponseStep DEF ExchangeStep
<1>8. CASE UNCHANGED vars
  BY <1>8 DEF vars, IInv
<1>. QED  BY <1>1, <1>2, <1>3, <1>4, <1>5, <1>6, <1>7, <1>8 DEF Next

\* The invariant of every step, from which what follows is derived: what
\* BlockAckManager, OriginatorBlockAckAgreement and
\* RecipientBlockAckAgreement keep between their calls.
THEOREM IInvariant == Spec => []IInv
BY InitIInv, NextIInv, PTL DEF Spec

\* Sequence numbers, window positions, queues and exchanges have their type in
\* every state (BlockAckWindow, GetDistance, the modulus of every sum).
THEOREM TypeCorrect == Spec => []TypeOK
<1>1. IInv => TypeOK
  <2>. SUFFICES ASSUME IInv PROVE TypeOK
    OBVIOUS
  <2>1. /\ orig.queued \subseteq 1 .. orig.arrived /\ orig.ok \subseteq 1 .. orig.arrived
        /\ orig.arrived \in 0 .. NumMpdus /\ orig.overdue \in 0 .. orig.arrived
        /\ orig.seq \in [Mpdus -> Seqs] /\ orig.tries \in [Mpdus -> Nat]
        /\ orig.fly \in [Mpdus -> SUBSET Links] /\ orig.barIfData \in BOOLEAN
        /\ orig.bars \in [BarQueues -> Seq({"QUEUED", "SENT"})]
        /\ orig.firing \in Seq(1 .. orig.arrived) /\ 1 .. orig.arrived \subseteq Mpdus
        /\ orig.list \in Seq(K) /\ orig.numbered \subseteq K /\ orig.retry \subseteq K
        /\ orig.next \in StartSeqs /\ orig.win \in TxWindows
    BY IInvFields, OrigFields DEF O, K
  <2>2. orig.firing \in Seq(Mpdus)
    <3>1. PICK S : S = 1 .. orig.arrived
      OBVIOUS
    <3>2. orig.firing \in Seq(S) /\ S \subseteq Mpdus
      BY <2>1, <3>1
    <3>. QED  BY <3>2, SeqOfSuperset, Zenon
  <2>3. orig.list \in Seq(Mpdus)
    BY <2>1, KnownMpdus, SeqOfSuperset, Zenon
  <2>4. /\ orig.numbered \subseteq Mpdus /\ orig.retry \subseteq Mpdus
        /\ orig.next \in Seqs /\ orig.win \in Windows
    BY <2>1, KnownMpdus DEF StartSeqs, TxWindows
  <2>5. /\ recip.score \in Windows /\ recip.start \in Seqs
        /\ recip.buf \subseteq Seqs \X Mpdus /\ recip.up \in Seq(Mpdus)
    BY IInvFields DEF Recipients, Bitmaps, StartSeqs, SentSeqs
  <2>6. exch \in [Links -> Exchange]
    <3>1. \A l \in Links : exch[l] \in Exchange
      <4>. SUFFICES ASSUME NEW l \in Links PROVE exch[l] \in Exchange
        OBVIOUS
      <4>1. PICK e \in Exchanges(K) : e = exch[l]
        BY ExchangeOf
      <4>2. e.psdu \in Seq(Mpdus) /\ e.todo \in Seq(Mpdus)
        BY KnownMpdus, ExchangeFields, SeqOfSuperset, Zenon
      <4>. QED  BY <4>1, <4>2 DEF Exchanges, Exchange, Bitmaps
    <3>. QED  BY <3>1, IInvFields
  <2>. QED  BY <2>1, <2>2, <2>3, <2>4, <2>5, <2>6 DEF TypeOK
<1>. QED  BY <1>1, IInvariant, PTL

\* The reordering buffer holds no MPDU that is old or beyond its window, and
\* the scoreboard starts no later than the buffer and at most a window before it
\* (PassBufferedMpdusUntilFirstLost, Flush, NotifyReceivedBar).
THEOREM BufferStaysInWindow == Spec => []BufferInWindow
<1>1. IInv => BufferInWindow
  <2>. SUFFICES ASSUME IInv PROVE BufferInWindow
    OBVIOUS
  <2>1. PICK x \in StartSeqs : x = recip.start
    BY IInvFields DEF Recipients
  <2>2. PICK y \in StartSeqs : y = recip.score.start
    BY IInvFields DEF Recipients, Bitmaps
  <2>3. /\ Pos(y) <= Pos(x) /\ Pos(x) <= Pos(y) + WinSize
        /\ \A e \in recip.buf : /\ e[1] \in SentSeqs /\ Pos(x) < Pos(e[1])
                                /\ Pos(e[1]) < Pos(y) + WinSize
    BY <2>1, <2>2, IInvFields DEF Recipients
  <2>4. PICK a \in Nat, b \in Nat, n \in Nat : a = Pos(x) /\ b = Pos(y) /\ n = WinSize
    BY PosDistance, Sizes
  <2>5. GetDistance(x, y) = a - b
    BY <2>3, <2>4, PosDistance
  <2>6. b <= a /\ a <= b + n
    BY <2>3, <2>4
  <2>7. GetDistance(x, y) <= n
    BY <2>5, <2>6
  <2>8. \A e \in recip.buf : GetDistance(e[1], x) \in 1 .. n - 1
    <3>. SUFFICES ASSUME NEW e \in recip.buf PROVE GetDistance(e[1], x) \in 1 .. n - 1
      OBVIOUS
    <3>1. PICK z \in StartSeqs : z = e[1]
      BY <2>3, SentIsStart
    <3>2. PICK c \in Nat : c = Pos(z)
      BY PosDistance
    <3>3. a < c /\ c < b + n
      BY <2>3, <2>4, <3>1, <3>2
    <3>4. GetDistance(z, x) = c - a
      BY <2>4, <3>2, <3>3, PosDistance
    <3>5. GetDistance(z, x) \in 1 .. n - 1
      BY <2>6, <3>3, <3>4
    <3>. QED  BY <3>1, <3>5
  <2>. QED  BY <2>1, <2>2, <2>4, <2>7, <2>8 DEF BufferInWindow
<1>. QED  BY <1>1, IInvariant, PTL
=============================================================================
