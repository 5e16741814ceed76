------------------------ MODULE ChannelAccess_proofs ------------------------
(***************************************************************************)
(* Type correctness of ChannelAccess, that at most one EDCAF of the link   *)
(* holds a TXOP, and that no request for access is left without an access  *)
(* timeout: for any number of EDCAFs, every AIFSN, SIFS, slot time and     *)
(* EIFS, and busy periods of any duration.                                 *)
(***************************************************************************)
EXTENDS ChannelAccess, FiniteSetTheorems, WellFoundedInduction, TLAPS

EdcafRecord ==
  [access : {"NOT_REQUESTED", "REQUESTED", "GRANTED"}, slots : Draws, start : Int,
   frames : 0 .. MaxFrames]
MediumRecord ==
  [busyEnd : Int, rxEnd : Int, rxOk : BOOLEAN, txEnd : Int, navEnd : Int, ackEnd : Int,
   waiting : BOOLEAN]
Timers == Nat \cup {NoTimer}
Managers ==
  [edcaf : [Edcafs -> EdcafRecord], medium : MediumRecord, timer : Timers,
   counter : [Edcafs -> Draws]]

----------------------------------------------------------------------------
(***************************************************************************)
(* Minima and maxima.                                                      *)
(***************************************************************************)
\* A set of natural numbers has a minimum.
LEMMA MinOfNats ==
  ASSUME NEW T, T \subseteq Nat, T # {}
  PROVE  Min(T) \in T /\ \A k \in T : Min(T) <= k
<1>1. PICK n \in T : \A k \in T : ~(<<k, n>> \in OpToRel(<, Nat))
  BY NatLessThanWellFounded, WFMin, Zenon
<1>2. \A k \in T : ~(k < n)
  BY <1>1 DEF OpToRel
<1>3. \A k \in T : n <= k
  BY <1>2
<1>. QED  BY <1>3 DEF Min

\* Two integers have a maximum and a minimum.
LEMMA MaxOfTwo ==
  ASSUME NEW x \in Int, NEW y \in Int
  PROVE  /\ Max({x, y}) \in Int /\ Max({x, y}) >= x /\ Max({x, y}) >= y
         /\ Max({x, y}) = x \/ Max({x, y}) = y
         /\ Min({x, y}) \in Int /\ Min({x, y}) <= x /\ Min({x, y}) <= y
         /\ Min({x, y}) = x \/ Min({x, y}) = y
<1>1. \E z \in {x, y} : \A w \in {x, y} : z >= w
  BY x >= y \/ y >= x
<1>2. \E z \in {x, y} : \A w \in {x, y} : z =< w
  BY x >= y \/ y >= x
<1>3. Max({x, y}) \in {x, y} /\ \A w \in {x, y} : Max({x, y}) >= w
  BY <1>1 DEF Max
<1>4. Min({x, y}) \in {x, y} /\ \A w \in {x, y} : Min({x, y}) =< w
  BY <1>2 DEF Min
<1>. QED  BY <1>3, <1>4

\* So have five.
LEMMA MaxOfFive ==
  ASSUME NEW a \in Int, NEW b \in Int, NEW c \in Int, NEW d \in Int, NEW e \in Int
  PROVE  LET m == Max({a, b, c, d, e})
         IN /\ m \in {a, b, c, d, e} /\ m \in Int
            /\ m >= a /\ m >= b /\ m >= c /\ m >= d /\ m >= e
<1>1. \E z \in {a, b, c, d, e} : \A w \in {a, b, c, d, e} : z >= w
  OBVIOUS
<1>2. /\ Max({a, b, c, d, e}) \in {a, b, c, d, e}
      /\ \A w \in {a, b, c, d, e} : Max({a, b, c, d, e}) >= w
  BY <1>1 DEF Max
<1>. QED  BY <1>2

\* There is a longest AIFS.
LEMMA MaxAifsn ==
  /\ Max({Aifsn[a] : a \in Edcafs}) \in Nat
  /\ \A a \in Edcafs : Aifsn[a] <= Max({Aifsn[b] : b \in Edcafs})
<1>. DEFINE Top(n) == \E a \in 1 .. n : \A b \in 1 .. n : Aifsn[a] >= Aifsn[b]
            T == {n \in Edcafs : ~Top(n)}
<1>0. /\ \A a \in Edcafs : a \in Nat /\ a >= 1 /\ Aifsn[a] \in Nat
      /\ \A n \in Edcafs : \A a \in 1 .. n : a \in Edcafs
      /\ NumEdcafs \in Edcafs
      /\ \A n \in Edcafs : n = 1 \/ n - 1 \in Edcafs
  BY ChannelAccessAssumption DEF Edcafs
<1>1. ASSUME T # {} PROVE FALSE
  <2>1. T \subseteq Nat
    BY <1>0
  <2>2. PICK n \in T : \A k \in T : n <= k
    BY <1>1, <2>1, MinOfNats
  <2>3. n \in Edcafs /\ ~Top(n) /\ n \in Nat
    BY <1>0, <2>2
  <2>4. n # 1
    <3>1. Aifsn[1] >= Aifsn[1] /\ 1 \in 1 .. 1 /\ \A b \in 1 .. 1 : b = 1
      BY <1>0, 1 \in Edcafs, ChannelAccessAssumption DEF Edcafs
    <3>2. Top(1)
      BY <3>1
    <3>. QED  BY <2>3, <3>2
  <2>5. Top(n - 1)
    <3>1. n - 1 \in Edcafs /\ n - 1 \notin T
      BY <1>0, <2>2, <2>3, <2>4
    <3>. QED  BY <3>1
  <2>6. PICK k \in 1 .. n - 1 : \A b \in 1 .. n - 1 : Aifsn[k] >= Aifsn[b]
    BY <2>5
  <2>7. /\ Aifsn[k] \in Nat /\ Aifsn[n] \in Nat /\ k \in 1 .. n /\ n \in 1 .. n
        /\ \A b \in 1 .. n : b \in 1 .. n - 1 \/ b = n
        /\ \A b \in 1 .. n : Aifsn[b] \in Nat
    BY <1>0, <2>3, <2>6
  <2>8. CASE Aifsn[k] >= Aifsn[n]
    <3>1. \A b \in 1 .. n : Aifsn[k] >= Aifsn[b]
      BY <2>6, <2>7, <2>8
    <3>. QED  BY <2>3, <2>7, <3>1
  <2>9. CASE ~(Aifsn[k] >= Aifsn[n])
    <3>1. \A b \in 1 .. n : Aifsn[n] >= Aifsn[b]
      BY <2>6, <2>7, <2>9
    <3>. QED  BY <2>3, <2>7, <3>1
  <2>. QED  BY <2>8, <2>9
<1>2. Top(NumEdcafs)
  BY <1>0, <1>1
<1>3. PICK k \in Edcafs : \A b \in Edcafs : Aifsn[k] >= Aifsn[b]
  BY <1>2 DEF Edcafs
<1>. DEFINE S == {Aifsn[a] : a \in Edcafs}
<1>4. \E x \in S : \A y \in S : x >= y
  BY <1>3
<1>5. Max(S) \in S /\ \A y \in S : Max(S) >= y
  BY <1>4 DEF Max
<1>. QED  BY <1>0, <1>5

----------------------------------------------------------------------------
(***************************************************************************)
(* The operations of the manager: types, and what they leave alone.        *)
(***************************************************************************)
\* The fields of a manager.
LEMMA ManagerFields ==
  ASSUME NEW m \in Managers
  PROVE  /\ m.medium \in MediumRecord /\ m.timer \in Timers /\ m.counter \in [Edcafs -> Draws]
         /\ m.edcaf \in [Edcafs -> EdcafRecord]
         /\ \A a \in Edcafs :
              /\ m.edcaf[a] \in EdcafRecord
              /\ m.edcaf[a].slots \in Nat /\ m.edcaf[a].slots \in Draws
              /\ m.edcaf[a].start \in Int /\ m.edcaf[a].frames \in Nat
         /\ m.medium.busyEnd \in Int /\ m.medium.rxEnd \in Int /\ m.medium.rxOk \in BOOLEAN
         /\ m.medium.txEnd \in Int /\ m.medium.navEnd \in Int /\ m.medium.ackEnd \in Int
         /\ m.medium.waiting \in BOOLEAN
<1>1. /\ m.medium \in MediumRecord /\ m.timer \in Timers /\ m.counter \in [Edcafs -> Draws]
      /\ m.edcaf \in [Edcafs -> EdcafRecord]
  BY DEF Managers
<1>2. ASSUME NEW a \in Edcafs
      PROVE  /\ m.edcaf[a] \in EdcafRecord
             /\ m.edcaf[a].slots \in Nat /\ m.edcaf[a].slots \in Draws
             /\ m.edcaf[a].start \in Int /\ m.edcaf[a].frames \in Nat
  <2>1. m.edcaf[a] \in EdcafRecord
    BY <1>1
  <2>. QED  BY <2>1, ChannelAccessAssumption DEF EdcafRecord, Draws
<1>3. /\ m.medium.busyEnd \in Int /\ m.medium.rxEnd \in Int /\ m.medium.rxOk \in BOOLEAN
      /\ m.medium.txEnd \in Int /\ m.medium.navEnd \in Int /\ m.medium.ackEnd \in Int
      /\ m.medium.waiting \in BOOLEAN
  BY <1>1 DEF MediumRecord
<1>. QED  BY <1>1, <1>2, <1>3

\* Access is granted a SIFS after the last of the busy periods, at the earliest.
LEMMA AccessGrantStartAfter ==
  ASSUME NEW m \in Managers
  PROVE  /\ AccessGrantStart(m) \in Int
         /\ AccessGrantStart(m) >= Sifs + m.medium.busyEnd
         /\ AccessGrantStart(m) >= Sifs + m.medium.rxEnd
         /\ AccessGrantStart(m) >= Sifs + m.medium.txEnd
         /\ AccessGrantStart(m) >= Sifs + m.medium.navEnd
         /\ AccessGrantStart(m) >= Sifs + m.medium.ackEnd
<1>. DEFINE rx == IF m.medium.rxEnd <= 0 /\ ~m.medium.rxOk THEN m.medium.rxEnd + EifsNoDifs
                  ELSE m.medium.rxEnd
            top == Max({m.medium.busyEnd, rx, m.medium.txEnd, m.medium.navEnd, m.medium.ackEnd})
<1>1. /\ m.medium.busyEnd \in Int /\ m.medium.rxEnd \in Int /\ m.medium.rxOk \in BOOLEAN
      /\ m.medium.txEnd \in Int /\ m.medium.navEnd \in Int /\ m.medium.ackEnd \in Int
  BY ManagerFields
<1>2. rx \in Int /\ rx >= m.medium.rxEnd /\ Sifs \in Nat
  BY <1>1, ChannelAccessAssumption
<1>3. AccessGrantStart(m) = Sifs + top
  BY DEF AccessGrantStart
<1>. HIDE DEF rx
<1>4. /\ top \in Int /\ top >= m.medium.busyEnd /\ top >= rx /\ top >= m.medium.txEnd
      /\ top >= m.medium.navEnd /\ top >= m.medium.ackEnd
  BY <1>1, <1>2, MaxOfFive
<1>. HIDE DEF top
<1>. QED  BY <1>1, <1>2, <1>3, <1>4

\* A product of natural numbers is one.
LEMMA Product ==
  ASSUME NEW i \in Nat, NEW j \in Nat
  PROVE  /\ i * j \in Nat
         /\ i > 0 /\ j > 0 => i * j > 0
OBVIOUS

\* A backoff starts after the AIFS and ends after it started.
LEMMA BackoffTimes ==
  ASSUME NEW m \in Managers, NEW a \in Edcafs
  PROVE  /\ AifsEnd(m, a) \in Int /\ AifsEnd(m, a) > AccessGrantStart(m)
         /\ BackoffStart(m, a) \in Int /\ BackoffStart(m, a) >= AifsEnd(m, a)
         /\ BackoffEnd(m, a) \in Int /\ BackoffEnd(m, a) >= BackoffStart(m, a)
<1>1. AccessGrantStart(m) \in Int /\ m.edcaf[a].start \in Int /\ m.edcaf[a].slots \in Nat
  BY AccessGrantStartAfter, ManagerFields
<1>2. Aifsn[a] \in Nat /\ Aifsn[a] > 0 /\ Slot \in Nat /\ Slot > 0
  BY ChannelAccessAssumption
<1>3. Aifsn[a] * Slot \in Nat /\ Aifsn[a] * Slot > 0 /\ m.edcaf[a].slots * Slot \in Nat
  BY <1>1, <1>2, Product
<1>4. AifsEnd(m, a) \in Int /\ AifsEnd(m, a) > AccessGrantStart(m)
  BY <1>1, <1>3 DEF AifsEnd
<1>5. BackoffStart(m, a) \in Int /\ BackoffStart(m, a) >= AifsEnd(m, a)
  BY <1>1, <1>4, MaxOfTwo DEF BackoffStart
<1>6. BackoffEnd(m, a) \in Int /\ BackoffEnd(m, a) >= BackoffStart(m, a)
  BY <1>3, <1>5 DEF BackoffEnd
<1>. QED  BY <1>4, <1>5, <1>6

\* What may change in the backoffs: nobody's access status, nor its frames.
SameAccess(m, u) ==
  /\ u \in Managers /\ u.medium = m.medium /\ u.timer = m.timer
  /\ \A a \in Edcafs : u.edcaf[a].access = m.edcaf[a].access /\ u.edcaf[a].frames = m.edcaf[a].frames

\* Counting the slots that passed.
LEMMA UpdateBackoffType ==
  ASSUME NEW m \in Managers
  PROVE  SameAccess(m, UpdateBackoff(m)) /\ UpdateBackoff(m).counter = m.counter
<1>. DEFINE start(a) == BackoffStart(m, a)
            n(a) == Min({(-start(a)) \div Slot + 1, m.edcaf[a].slots})
            new(a) == IF start(a) <= 0
                      THEN [m.edcaf[a] EXCEPT !.slots = m.edcaf[a].slots - n(a), !.start = start(a) + n(a) * Slot]
                      ELSE m.edcaf[a]
            u == [m EXCEPT !.edcaf = [a \in Edcafs |-> new(a)]]
<1>0. m.edcaf \in [Edcafs -> EdcafRecord] /\ \A a \in Edcafs : m.edcaf[a] \in EdcafRecord
  BY ManagerFields
<1>1. UpdateBackoff(m) = u
  BY DEF UpdateBackoff
<1>2. ASSUME NEW a \in Edcafs
      PROVE  /\ new(a) \in EdcafRecord
             /\ new(a).access = m.edcaf[a].access /\ new(a).frames = m.edcaf[a].frames
  <2>1. CASE start(a) <= 0
    <3>1. /\ start(a) \in Int /\ Slot \in Nat /\ Slot > 0
          /\ m.edcaf[a].slots \in Nat /\ m.edcaf[a].slots \in Draws
      BY BackoffTimes, ManagerFields, ChannelAccessAssumption
    <3>. DEFINE q == (-start(a)) \div Slot + 1
    <3>2. q \in Int /\ q >= 1
      <4>1. \A i \in Nat : i \div Slot \in Nat
        BY <3>1
      <4>. HIDE DEF start
      <4>2. -start(a) \in Nat
        BY <2>1, <3>1
      <4>3. (-start(a)) \div Slot \in Nat
        BY <4>1, <4>2
      <4>. QED  BY <4>3
    <3>3. n(a) \in Int /\ n(a) <= m.edcaf[a].slots /\ (n(a) = q \/ n(a) = m.edcaf[a].slots)
      <4>1. n(a) = Min({q, m.edcaf[a].slots})
        OBVIOUS
      <4>. HIDE DEF n, q
      <4>2. m.edcaf[a].slots \in Int
        BY <3>1
      <4>3. /\ Min({q, m.edcaf[a].slots}) \in Int /\ Min({q, m.edcaf[a].slots}) <= m.edcaf[a].slots
            /\ Min({q, m.edcaf[a].slots}) = q \/ Min({q, m.edcaf[a].slots}) = m.edcaf[a].slots
        BY <3>2, <4>2, MaxOfTwo
      <4>. QED  BY <4>1, <4>3
    <3>4. n(a) \in Nat
      BY <3>1, <3>2, <3>3
    <3>. HIDE DEF n
    <3>5. m.edcaf[a].slots - n(a) \in Draws /\ start(a) + n(a) * Slot \in Int
      BY <3>1, <3>3, <3>4, ChannelAccessAssumption DEF Draws
    <3>6. new(a) = [m.edcaf[a] EXCEPT !.slots = m.edcaf[a].slots - n(a), !.start = start(a) + n(a) * Slot]
      BY <2>1 DEF n
    <3>. HIDE DEF new, start
    <3>. QED  BY <1>0, <3>5, <3>6 DEF EdcafRecord
  <2>2. CASE ~(start(a) <= 0)
    BY <1>0, <2>2
  <2>. QED  BY <2>1, <2>2
<1>. HIDE DEF new
<1>3. [a \in Edcafs |-> new(a)] \in [Edcafs -> EdcafRecord]
  BY <1>2
<1>4. /\ u \in Managers /\ u.medium = m.medium /\ u.timer = m.timer /\ u.counter = m.counter
      /\ u.edcaf = [a \in Edcafs |-> new(a)]
  BY <1>3 DEF Managers
<1>5. \A a \in Edcafs : u.edcaf[a] = new(a)
  BY <1>4
<1>. HIDE DEF u
<1>. QED  BY <1>1, <1>2, <1>4, <1>5 DEF SameAccess

\* Restarting the access timer sets it if a request's backoff ends in the future.
LEMMA RestartType ==
  ASSUME NEW m \in Managers
  PROVE  LET r == RestartAccessTimeout(m)
         IN /\ r \in Managers /\ r.medium = m.medium /\ r.edcaf = m.edcaf /\ r.counter = m.counter
            /\ m.timer # NoTimer => r.timer # NoTimer
            /\ \A a \in Edcafs : m.edcaf[a].access = "REQUESTED" /\ BackoffEnd(m, a) > 0
                                   => r.timer # NoTimer
<1>. DEFINE ends == {BackoffEnd(m, a) : a \in {b \in Edcafs : m.edcaf[b].access = "REQUESTED"}}
            future == {t \in ends : t > 0}
            r == RestartAccessTimeout(m)
<1>1. r = IF future = {} \/ m.timer \in 0 .. Min(future) THEN m
          ELSE [m EXCEPT !.timer = Min(future)]
  BY DEF RestartAccessTimeout
<1>2. future \subseteq Nat
  <2>1. ends \subseteq Int
    BY BackoffTimes
  <2>. HIDE DEF ends
  <2>2. ASSUME NEW t \in future PROVE t \in Nat
    <3>1. t \in Int /\ t > 0
      BY <2>1, <2>2
    <3>. QED  BY <3>1
  <2>. HIDE DEF future
  <2>. QED  BY <2>2
<1>3. \A a \in Edcafs : m.edcaf[a].access = "REQUESTED" /\ BackoffEnd(m, a) > 0 => future # {}
  <2>1. ASSUME NEW a \in Edcafs, m.edcaf[a].access = "REQUESTED" PROVE BackoffEnd(m, a) \in ends
    BY <2>1, Zenon
  <2>. HIDE DEF ends
  <2>. QED  BY <2>1
<1>4. future # {} => Min(future) \in Nat
  BY <1>2, MinOfNats
<1>. HIDE DEF future
<1>5. CASE future = {} \/ m.timer \in 0 .. Min(future)
  <2>1. r = m
    BY <1>1, <1>5
  <2>2. future # {} => m.timer # NoTimer
    BY <1>4, <1>5 DEF NoTimer
  <2>. QED  BY <1>3, <2>1, <2>2
<1>6. CASE ~(future = {} \/ m.timer \in 0 .. Min(future))
  <2>1. r = [m EXCEPT !.timer = Min(future)]
    BY <1>1, <1>6
  <2>2. Min(future) \in Timers /\ Min(future) # NoTimer
    BY <1>4, <1>6 DEF Timers, NoTimer
  <2>3. /\ r \in Managers /\ r.medium = m.medium /\ r.edcaf = m.edcaf /\ r.counter = m.counter
        /\ r.timer = Min(future)
    BY <2>1, <2>2 DEF Managers
  <2>. QED  BY <2>2, <2>3
<1>. QED  BY <1>5, <1>6

\* A backoff counts from a given start.
LEMMA SetBackoffType ==
  ASSUME NEW m \in Managers, NEW a \in Edcafs, NEW n \in Draws, NEW s \in Int
  PROVE  SameAccess(m, [m EXCEPT !.edcaf[a].slots = n, !.edcaf[a].start = s, !.counter[a] = n])
<1>. DEFINE e == [m.edcaf[a] EXCEPT !.slots = n, !.start = s]
            G == [m EXCEPT !.edcaf[a].slots = n, !.edcaf[a].start = s, !.counter[a] = n]
<1>0. /\ m.edcaf \in [Edcafs -> EdcafRecord] /\ m.counter \in [Edcafs -> Draws]
      /\ m.edcaf[a] \in EdcafRecord
  BY ManagerFields
<1>1. G.edcaf = [m.edcaf EXCEPT ![a] = e] /\ G.counter = [m.counter EXCEPT ![a] = n]
  BY <1>0 DEF Managers
<1>2. e \in EdcafRecord /\ e.access = m.edcaf[a].access /\ e.frames = m.edcaf[a].frames
  BY <1>0 DEF EdcafRecord
<1>. HIDE DEF e
<1>3. [m.edcaf EXCEPT ![a] = e] \in [Edcafs -> EdcafRecord]
  BY <1>0, <1>2
<1>4. [m.counter EXCEPT ![a] = n] \in [Edcafs -> Draws]
  BY <1>0
<1>5. G.medium = m.medium /\ G.timer = m.timer
  BY DEF Managers
<1>6. G \in Managers
  BY <1>1, <1>3, <1>4 DEF Managers
<1>. HIDE DEF G
<1>7. ASSUME NEW b \in Edcafs
      PROVE  G.edcaf[b].access = m.edcaf[b].access /\ G.edcaf[b].frames = m.edcaf[b].frames
  BY <1>0, <1>1, <1>2
<1>8. SameAccess(m, G)
  BY <1>5, <1>6, <1>7 DEF SameAccess
<1>. QED  BY <1>8 DEF G

\* A backoff is drawn.
LEMMA GenerateBackoffType ==
  ASSUME NEW m \in Managers, NEW a \in Edcafs, NEW n \in Draws
  PROVE  SameAccess(m, GenerateBackoff(m, a, n))
<1>1. 0 \in Int
  OBVIOUS
<1>. QED  BY <1>1, SetBackoffType DEF GenerateBackoff

\* The access status of one EDCAF is set.
LEMMA SetAccessType ==
  ASSUME NEW m \in Managers, NEW a \in Edcafs,
         NEW v \in {"NOT_REQUESTED", "REQUESTED", "GRANTED"},
         NEW r, r = [m EXCEPT !.edcaf[a].access = v]
  PROVE  /\ r \in Managers /\ r.medium = m.medium /\ r.timer = m.timer
         /\ r.edcaf[a].access = v /\ r.edcaf[a].frames = m.edcaf[a].frames
         /\ \A b \in Edcafs \ {a} : r.edcaf[b] = m.edcaf[b]
<1>. DEFINE e == [m.edcaf[a] EXCEPT !.access = v]
<1>0. m.edcaf \in [Edcafs -> EdcafRecord] /\ m.edcaf[a] \in EdcafRecord
  BY ManagerFields
<1>1. e \in EdcafRecord /\ e.access = v /\ e.frames = m.edcaf[a].frames
  BY <1>0 DEF EdcafRecord
<1>2. r = [m EXCEPT !.edcaf = [m.edcaf EXCEPT ![a] = e]]
  BY <1>0 DEF Managers
<1>. HIDE DEF e
<1>3. [m.edcaf EXCEPT ![a] = e] \in [Edcafs -> EdcafRecord]
  BY <1>0, <1>1
<1>4. /\ r \in Managers /\ r.medium = m.medium /\ r.timer = m.timer
      /\ r.edcaf = [m.edcaf EXCEPT ![a] = e]
  BY <1>2, <1>3 DEF Managers
<1>5. r.edcaf[a] = e /\ \A b \in Edcafs \ {a} : r.edcaf[b] = m.edcaf[b]
  BY <1>0, <1>4
<1>. QED  BY <1>1, <1>4, <1>5

\* Releasing a TXOP leaves the others' access status and all the frames.
LEMMA ReleaseType ==
  ASSUME NEW m \in Managers, NEW a \in Edcafs, NEW n \in Draws
  PROVE  LET r == Release(m, a, n)
         IN /\ r \in Managers /\ r.medium = m.medium /\ r.timer = m.timer
            /\ r.edcaf[a].access \in {"REQUESTED", "NOT_REQUESTED"}
            /\ \A b \in Edcafs : r.edcaf[b].frames = m.edcaf[b].frames
            /\ \A b \in Edcafs \ {a} : r.edcaf[b].access = m.edcaf[b].access
<1>. DEFINE g == GenerateBackoff(m, a, n)
            v == IF m.edcaf[a].frames > 0 THEN "REQUESTED" ELSE "NOT_REQUESTED"
            r == [g EXCEPT !.edcaf[a].access = v]
<1>1. SameAccess(m, g)
  BY GenerateBackoffType
<1>2. Release(m, a, n) = r
  BY DEF Release
<1>3. v \in {"REQUESTED", "NOT_REQUESTED"} /\ v \in {"NOT_REQUESTED", "REQUESTED", "GRANTED"}
  OBVIOUS
<1>. HIDE DEF g, v
<1>4. g \in Managers
  BY <1>1 DEF SameAccess
<1>5. /\ r \in Managers /\ r.medium = g.medium /\ r.timer = g.timer
      /\ r.edcaf[a].access = v /\ r.edcaf[a].frames = g.edcaf[a].frames
      /\ \A b \in Edcafs \ {a} : r.edcaf[b] = g.edcaf[b]
  <2>1. r = [g EXCEPT !.edcaf[a].access = v]
    OBVIOUS
  <2>. HIDE DEF r
  <2>. QED  BY <1>3, <1>4, <2>1, SetAccessType
<1>. HIDE DEF r
<1>. QED  BY <1>1, <1>2, <1>3, <1>5 DEF SameAccess

\* A transmission starts, and the wait for a response if there is one.
LEMMA NotifyTxStartType ==
  ASSUME NEW m \in Managers, NEW response \in BOOLEAN
  PROVE  LET t == NotifyTxStartNow(m, response)
         IN /\ t \in Managers /\ t.timer = m.timer
            /\ t.medium.txEnd > 0 /\ t.medium.waiting = response
            /\ response => t.medium.ackEnd > 0
            /\ \A b \in Edcafs :
                 t.edcaf[b].access = m.edcaf[b].access /\ t.edcaf[b].frames = m.edcaf[b].frames
<1>. DEFINE k == IF m.medium.rxEnd > 0 THEN 0 ELSE m.medium.rxEnd
            j == IF response THEN TxTime + AckDelay ELSE m.medium.ackEnd
            c0 == [m.medium EXCEPT !.rxOk = TRUE, !.rxEnd = k, !.ackEnd = j, !.waiting = response]
            c == [m EXCEPT !.medium = c0]
            u == UpdateBackoff(c)
            q == [a \in Edcafs |-> IF AifsEnd(m, a) > 0 /\ AifsEnd(c, a) <= 0
                                   THEN u.edcaf[a].slots ELSE u.counter[a]]
            d == [u.medium EXCEPT !.txEnd = TxTime]
            t == [u EXCEPT !.medium = d, !.counter = q]
<1>1. /\ m.medium \in MediumRecord /\ m.medium.rxEnd \in Int /\ m.medium.ackEnd \in Int
      /\ TxTime \in Int /\ AckDelay \in Int /\ TxTime > 0 /\ AckDelay > 0
  BY ManagerFields, ChannelAccessAssumption
<1>2. k \in Int /\ j \in Int /\ (response => j > 0) /\ TRUE \in BOOLEAN
  BY <1>1
<1>3. NotifyTxStartNow(m, response) = t
  <2>1. c = [m EXCEPT !.medium.rxOk = TRUE, !.medium.rxEnd = IF @ > 0 THEN 0 ELSE @,
                      !.medium.ackEnd = IF response THEN TxTime + AckDelay ELSE @,
                      !.medium.waiting = response]
    BY <1>1 DEF Managers, MediumRecord
  <2>. HIDE DEF c
  <2>. QED  BY <2>1 DEF NotifyTxStartNow
<1>. HIDE DEF k, j
<1>4. c0 \in MediumRecord /\ c0.ackEnd = j /\ c0.waiting = response
  BY <1>1, <1>2 DEF MediumRecord
<1>. HIDE DEF c0
<1>5. c \in Managers /\ c.medium = c0 /\ c.timer = m.timer /\ c.edcaf = m.edcaf
  BY <1>4 DEF Managers
<1>. HIDE DEF c
<1>6. SameAccess(c, u)
  BY <1>5, UpdateBackoffType
<1>. HIDE DEF u
<1>7. u \in Managers /\ u.medium = c0 /\ u.timer = m.timer
  BY <1>5, <1>6 DEF SameAccess
<1>8. q \in [Edcafs -> Draws]
  BY <1>7, ManagerFields
<1>. HIDE DEF q
<1>9. /\ d \in MediumRecord /\ d.txEnd = TxTime /\ d.ackEnd = j /\ d.waiting = response
  BY <1>1, <1>4, <1>7 DEF MediumRecord
<1>. HIDE DEF d
<1>10. t \in Managers /\ t.medium = d /\ t.timer = u.timer /\ t.edcaf = u.edcaf
  BY <1>7, <1>8, <1>9 DEF Managers
<1>. HIDE DEF t
<1>11. \A b \in Edcafs :
         t.edcaf[b].access = m.edcaf[b].access /\ t.edcaf[b].frames = m.edcaf[b].frames
  BY <1>5, <1>6, <1>10 DEF SameAccess
<1>. QED  BY <1>1, <1>2, <1>3, <1>7, <1>9, <1>10, <1>11

----------------------------------------------------------------------------
(***************************************************************************)
(* Granting access.                                                        *)
(***************************************************************************)
\* Who holds a TXOP.
Granted(m) == {a \in Edcafs : m.edcaf[a].access = "GRANTED"}

\* The inductive part of "at most one holder": while the PHY receives, the end of
\* the reception is not over; while a holder waits and nothing is received, its
\* Ack timeout is not over; while it transmits something that needs no response
\* the transmission is not over.  Until then nobody is granted access.  A holder
\* has the frame it transmits.
Held(m, rx) == IF m.medium.waiting THEN ~rx => m.medium.ackEnd >= 0 ELSE m.medium.txEnd >= 0
Sound(m, rx) ==
  /\ m \in Managers
  /\ \A a \in Granted(m) : m.edcaf[a].frames > 0
  /\ \A a, b \in Granted(m) : a = b
  /\ rx => m.medium.rxEnd >= 0
  /\ Granted(m) # {} => Held(m, rx)

\* Every backoff that a request waits for ends in the future.
Ahead(m) == \A a \in Edcafs : m.edcaf[a].access = "REQUESTED" => BackoffEnd(m, a) > 0

\* While nobody may be granted access, no backoff ends.
LEMMA AheadWhenBusy ==
  ASSUME NEW m \in Managers, AccessGrantStart(m) > 0
  PROVE  Ahead(m)
<1>1. ASSUME NEW a \in Edcafs PROVE BackoffEnd(m, a) > 0
  BY AccessGrantStartAfter, BackoffTimes
<1>. QED  BY <1>1 DEF Ahead

\* Access is granted only when nobody holds a TXOP and nothing is received.
LEMMA GrantedWhenFree ==
  ASSUME NEW m, NEW rx \in BOOLEAN, Sound(m, rx), AccessGrantStart(m) <= 0
  PROVE  Granted(m) = {} /\ ~rx
<1>1. m \in Managers
  BY DEF Sound
<1>2. /\ AccessGrantStart(m) \in Int /\ AccessGrantStart(m) >= Sifs + m.medium.rxEnd
      /\ AccessGrantStart(m) >= Sifs + m.medium.ackEnd
      /\ AccessGrantStart(m) >= Sifs + m.medium.txEnd
      /\ m.medium.rxEnd \in Int /\ m.medium.ackEnd \in Int /\ m.medium.txEnd \in Int
  BY <1>1, AccessGrantStartAfter, ManagerFields
<1>3. Sifs \in Nat /\ Sifs > 0
  BY ChannelAccessAssumption
<1>4. ~(m.medium.rxEnd >= 0) /\ ~(m.medium.ackEnd >= 0) /\ ~(m.medium.txEnd >= 0)
  BY <1>2, <1>3
<1>. QED  BY <1>4 DEF Sound, Held

\* The first EDCAF that can transmit.
LEMMA WinnerIsAble ==
  ASSUME NEW m, Able(m) # {}
  PROVE  Min(Able(m)) \in Able(m) /\ Able(m) \subseteq Edcafs
<1>1. Able(m) \subseteq Edcafs /\ Edcafs \subseteq Nat
  BY ChannelAccessAssumption DEF Able, Edcafs
<1>2. Able(m) \subseteq Nat
  BY <1>1
<1>. QED  BY <1>1, <1>2, MinOfNats

\* The EDCAFs found without frames, and the manager when they stopped requesting.
Idle(m) ==
  {a \in Edcafs : AccessGrantStart(m) <= 0 /\ Ready(m, a)
                    /\ (Able(m) = {} \/ a < Min(Able(m)))}
Stopped(m) ==
  [m EXCEPT !.edcaf = [a \in Edcafs |->
     IF a \in Idle(m) THEN [m.edcaf[a] EXCEPT !.access = "NOT_REQUESTED", !.start = 0]
     ELSE m.edcaf[a]]]

\* EDCAFs without frames stop requesting.
LEMMA StoppedType ==
  ASSUME NEW m \in Managers
  PROVE  /\ Stopped(m) \in Managers /\ Stopped(m).medium = m.medium
         /\ \A a \in Edcafs :
              /\ Stopped(m).edcaf[a].frames = m.edcaf[a].frames
              /\ a \in Idle(m) => Stopped(m).edcaf[a].access = "NOT_REQUESTED"
              /\ a \notin Idle(m) => Stopped(m).edcaf[a] = m.edcaf[a]
<1>. PICK z \in Int : z = 0
  OBVIOUS
<1>. DEFINE e(a) == [m.edcaf[a] EXCEPT !.access = "NOT_REQUESTED", !.start = z]
            f == [a \in Edcafs |-> IF a \in Idle(m) THEN e(a) ELSE m.edcaf[a]]
<1>0. \A a \in Edcafs : m.edcaf[a] \in EdcafRecord
  BY ManagerFields
<1>1. \A a \in Edcafs :
        e(a) \in EdcafRecord /\ e(a).access = "NOT_REQUESTED" /\ e(a).frames = m.edcaf[a].frames
  BY <1>0 DEF EdcafRecord
<1>2. Stopped(m) = [m EXCEPT !.edcaf = f]
  BY DEF Stopped
<1>. HIDE DEF e
<1>3. f \in [Edcafs -> EdcafRecord]
  BY <1>0, <1>1
<1>4. /\ Stopped(m) \in Managers /\ Stopped(m).medium = m.medium /\ Stopped(m).edcaf = f
  BY <1>2, <1>3 DEF Managers
<1>. QED  BY <1>1, <1>4

\* Nobody is granted access.
LEMMA NoGrant ==
  ASSUME NEW m, NEW rx \in BOOLEAN, Sound(m, rx), ~Granting(m)
  PROVE  Sound(Stopped(m), rx) /\ Ahead(Stopped(m))
<1>. DEFINE g == Stopped(m)
<1>1. m \in Managers
  BY DEF Sound
<1>2. /\ g \in Managers /\ g.medium = m.medium
      /\ \A a \in Edcafs :
           /\ g.edcaf[a].frames = m.edcaf[a].frames
           /\ a \in Idle(m) => g.edcaf[a].access = "NOT_REQUESTED"
           /\ a \notin Idle(m) => g.edcaf[a] = m.edcaf[a]
  BY <1>1, StoppedType
<1>. HIDE DEF g
<1>3. Granted(g) \subseteq Granted(m)
  BY <1>2 DEF Granted
<1>4. Sound(g, rx)
  BY <1>2, <1>3 DEF Sound, Granted, Held
<1>5. Ahead(g)
  <2>1. CASE AccessGrantStart(m) > 0
    <3>1. AccessGrantStart(g) = AccessGrantStart(m)
      BY <1>2 DEF AccessGrantStart
    <3>. QED  BY <1>2, <2>1, <3>1, AheadWhenBusy
  <2>2. CASE ~(AccessGrantStart(m) > 0)
    <3>1. AccessGrantStart(m) <= 0
      BY <1>1, <2>2, AccessGrantStartAfter
    <3>2. Able(m) = {}
      BY <3>1 DEF Granting
    <3>3. SUFFICES ASSUME NEW a \in Edcafs, g.edcaf[a].access = "REQUESTED"
                   PROVE  BackoffEnd(g, a) > 0
      BY DEF Ahead
    <3>4. a \notin Idle(m) /\ g.edcaf[a] = m.edcaf[a]
      BY <1>2, <3>3
    <3>5. ~Ready(m, a)
      BY <3>1, <3>2, <3>4 DEF Idle
    <3>6. ~(BackoffEnd(m, a) <= 0) /\ BackoffEnd(m, a) \in Int
      BY <1>1, <3>3, <3>4, <3>5, BackoffTimes DEF Ready
    <3>7. BackoffEnd(g, a) = BackoffEnd(m, a)
      BY <1>2, <3>4 DEF BackoffEnd, BackoffStart, AifsEnd, AccessGrantStart
    <3>. QED  BY <3>6, <3>7
  <2>. QED  BY <2>1, <2>2
<1>. QED  BY <1>4, <1>5 DEF g

\* The first EDCAF that can transmits, and those of lower priority that are ready
\* collide with it.
LEMMA Grant ==
  ASSUME NEW m, NEW rx \in BOOLEAN, Sound(m, rx), Granting(m),
         NEW draw \in [Colliding(m) -> Draws], NEW response \in BOOLEAN
  PROVE  /\ Sound(DoGrantDcfAccess(m, draw, response), rx)
         /\ Ahead(DoGrantDcfAccess(m, draw, response))
<1>. DEFINE w == Min(Able(m))
            s == Stopped(m)
            b == [s EXCEPT !.edcaf[w].access = "GRANTED"]
            t == NotifyTxStartNow(b, response)
            C == Colliding(m)
            e == [a \in Edcafs |-> IF a \in C THEN Release(t, a, draw[a]).edcaf[a] ELSE t.edcaf[a]]
            c == [a \in Edcafs |-> IF a \in C THEN draw[a] ELSE t.counter[a]]
            g == [t EXCEPT !.edcaf = e, !.counter = c]
<1>1. m \in Managers /\ AccessGrantStart(m) <= 0 /\ Able(m) # {}
  BY DEF Sound, Granting
<1>2. Granted(m) = {} /\ ~rx
  BY <1>1, GrantedWhenFree
<1>3. w \in Able(m) /\ w \in Edcafs
  BY <1>1, WinnerIsAble
<1>4. DoGrantDcfAccess(m, draw, response) = g
  BY DEF DoGrantDcfAccess, Stopped, Idle
<1>5. C \subseteq Edcafs /\ w \notin C
  <2>1. ~(w > w)
    BY <1>3 DEF Edcafs
  <2>. QED  BY <2>1 DEF Colliding
<1>6. w \notin Idle(m)
  <2>1. ~(w < w)
    BY <1>3 DEF Edcafs
  <2>. QED  BY <1>1, <2>1 DEF Idle
<1>. HIDE DEF w, C
<1>7. /\ s \in Managers
      /\ \A a \in Edcafs : s.edcaf[a].access # "GRANTED" /\ s.edcaf[a].frames = m.edcaf[a].frames
  <2>3. /\ s \in Managers
        /\ \A a \in Edcafs :
             /\ s.edcaf[a].frames = m.edcaf[a].frames
             /\ a \in Idle(m) => s.edcaf[a].access = "NOT_REQUESTED"
             /\ a \notin Idle(m) => s.edcaf[a] = m.edcaf[a]
    BY <1>1, StoppedType
  <2>. QED  BY <1>2, <2>3 DEF Granted
<1>. HIDE DEF s
<1>8. /\ b \in Managers /\ b.edcaf[w].access = "GRANTED"
      /\ b.edcaf[w].frames = s.edcaf[w].frames
      /\ \A a \in Edcafs \ {w} : b.edcaf[a] = s.edcaf[a]
  <2>1. b = [s EXCEPT !.edcaf[w].access = "GRANTED"]
    OBVIOUS
  <2>2. "GRANTED" \in {"NOT_REQUESTED", "REQUESTED", "GRANTED"}
    OBVIOUS
  <2>. HIDE DEF b
  <2>. QED  BY <1>3, <1>7, <2>1, <2>2, SetAccessType
<1>. HIDE DEF b
<1>9. /\ t \in Managers /\ t.medium.txEnd > 0 /\ t.medium.waiting = response
      /\ (response => t.medium.ackEnd > 0)
      /\ \A a \in Edcafs : t.edcaf[a].access = b.edcaf[a].access /\ t.edcaf[a].frames = b.edcaf[a].frames
  BY <1>8, NotifyTxStartType
<1>. HIDE DEF t
<1>10. ASSUME NEW a \in C
       PROVE  /\ Release(t, a, draw[a]).edcaf[a] \in EdcafRecord
              /\ Release(t, a, draw[a]).edcaf[a].access # "GRANTED"
              /\ draw[a] \in Draws
  <2>1. draw[a] \in Draws /\ a \in Edcafs
    BY <1>5, <1>10 DEF C
  <2>2. /\ Release(t, a, draw[a]) \in Managers
        /\ Release(t, a, draw[a]).edcaf[a].access \in {"REQUESTED", "NOT_REQUESTED"}
    BY <1>9, <2>1, ReleaseType
  <2>3. Release(t, a, draw[a]).edcaf[a] \in EdcafRecord
    BY <2>1, <2>2, ManagerFields
  <2>. QED  BY <2>1, <2>2, <2>3
<1>11. \A a \in Edcafs : t.edcaf[a] \in EdcafRecord /\ t.counter[a] \in Draws
  BY <1>9, ManagerFields
<1>12. e \in [Edcafs -> EdcafRecord] /\ c \in [Edcafs -> Draws]
  BY <1>5, <1>10, <1>11
<1>13. ASSUME NEW a \in Edcafs, e[a].access = "GRANTED" PROVE a = w
  BY <1>7, <1>8, <1>9, <1>10, <1>13
<1>14. e[w].frames > 0
  <2>1. e[w].frames = m.edcaf[w].frames
    BY <1>3, <1>5, <1>7, <1>8, <1>9
  <2>. QED  BY <1>3, <2>1 DEF Able
<1>. HIDE DEF e, c
<1>15. g \in Managers /\ g.medium = t.medium /\ g.edcaf = e
  BY <1>9, <1>12 DEF Managers
<1>16. AccessGrantStart(g) > 0
  <2>1. /\ AccessGrantStart(g) \in Int /\ AccessGrantStart(g) >= Sifs + g.medium.txEnd
        /\ g.medium.txEnd \in Int
    BY <1>15, AccessGrantStartAfter, ManagerFields
  <2>2. Sifs \in Nat /\ g.medium.txEnd > 0
    BY <1>9, <1>15, ChannelAccessAssumption
  <2>. HIDE DEF g
  <2>. QED  BY <2>1, <2>2
<1>17. Sound(g, rx)
  <2>1. Held(g, rx)
    <3>1. g.medium.ackEnd \in Int /\ g.medium.txEnd \in Int
      BY <1>15, ManagerFields
    <3>. QED  BY <1>9, <1>15, <3>1 DEF Held
  <2>2. \A a \in Granted(g) : a = w
    BY <1>13, <1>15 DEF Granted
  <2>. QED  BY <1>2, <1>14, <1>15, <2>1, <2>2 DEF Sound
<1>18. Ahead(g)
  BY <1>15, <1>16, AheadWhenBusy
<1>. QED  BY <1>4, <1>17, <1>18

----------------------------------------------------------------------------
(***************************************************************************)
(* The inductive invariant.                                                *)
(***************************************************************************)
HasTimer(m) == \A a \in Edcafs : m.edcaf[a].access = "REQUESTED" => m.timer # NoTimer

IInv == receiving \in BOOLEAN /\ Sound(Manager, receiving) /\ HasTimer(Manager)

\* It is all the invariants of the runs but the exact countdown.
LEMMA IInvImplies == IInv => TypeOK /\ OneHolder /\ NoLostRequest
<1>. SUFFICES ASSUME IInv PROVE TypeOK /\ OneHolder /\ NoLostRequest
  OBVIOUS
<1>. DEFINE M == Manager
<1>0. M.edcaf = edcaf /\ M.medium = medium /\ M.timer = timer /\ M.counter = counter
  BY DEF Manager
<1>. HIDE DEF M
<1>1. M \in Managers /\ (\A a, b \in Granted(M) : a = b) /\ HasTimer(M) /\ receiving \in BOOLEAN
  BY DEF IInv, Sound, M
<1>2. TypeOK
  <2>1. timer \in Timers /\ counter \in [Edcafs -> Draws] /\ edcaf \in [Edcafs -> EdcafRecord]
    BY <1>0, <1>1, ManagerFields
  <2>. QED  BY <1>1, <2>1 DEF TypeOK, EdcafRecord, Timers
<1>3. OneHolder
  <2>1. Holders = Granted(M)
    BY <1>0 DEF Holders, Granted
  <2>2. CASE Holders = {}
    BY <2>2, FS_EmptySet DEF OneHolder
  <2>3. CASE Holders # {}
    <3>1. PICK h : h \in Holders
      BY <2>3
    <3>2. Holders = {h}
      BY <1>1, <2>1, <3>1
    <3>3. Cardinality(Holders) = 1
      BY <3>2, FS_Singleton
    <3>. QED  BY <3>3 DEF OneHolder
  <2>. QED  BY <2>2, <2>3
<1>4. NoLostRequest
  BY <1>0, <1>1 DEF NoLostRequest, HasTimer
<1>. QED  BY <1>2, <1>3, <1>4

\* A call of the manager ends in m.
LEMMA BecomesIInv ==
  ASSUME NEW m, Becomes(m), receiving' \in BOOLEAN, Sound(m, receiving'), HasTimer(m)
  PROVE  IInv'
<1>1. m = [edcaf |-> m.edcaf, medium |-> m.medium, timer |-> m.timer, counter |-> m.counter]
  BY DEF Sound, Managers
<1>2. Manager' = m
  BY <1>1 DEF Becomes, Manager
<1>3. Sound(Manager', receiving') /\ HasTimer(Manager')
  BY <1>2
<1>. QED  BY <1>3 DEF IInv, Sound, Held, HasTimer, Granted, Manager

\* A change that makes nobody a holder and keeps what the holders' TXOPs rest on.
LEMMA SoundIf ==
  ASSUME NEW m, NEW rx, Sound(m, rx), NEW r \in Managers,
         r.medium.rxEnd = m.medium.rxEnd, r.medium.ackEnd = m.medium.ackEnd,
         r.medium.txEnd = m.medium.txEnd, r.medium.waiting = m.medium.waiting,
         \A a \in Edcafs : r.edcaf[a].access = "GRANTED" =>
                             m.edcaf[a].access = "GRANTED" /\ r.edcaf[a].frames >= m.edcaf[a].frames
  PROVE  Sound(r, rx)
<1>1. Granted(r) \subseteq Granted(m)
  BY DEF Granted
<1>2. m \in Managers
  BY DEF Sound
<1>3. \A a \in Granted(r) : r.edcaf[a].frames > 0
  <2>. SUFFICES ASSUME NEW a \in Granted(r) PROVE r.edcaf[a].frames > 0
    OBVIOUS
  <2>1. /\ a \in Edcafs /\ a \in Granted(m) /\ r.edcaf[a].frames >= m.edcaf[a].frames
        /\ m.edcaf[a].frames > 0
    BY <1>1 DEF Sound, Granted
  <2>2. r.edcaf[a].frames \in Nat /\ m.edcaf[a].frames \in Nat
    BY <1>2, <2>1, ManagerFields
  <2>. QED  BY <2>1, <2>2
<1>. QED  BY <1>1, <1>3 DEF Sound, Held

\* In particular a change of the backoffs.
LEMMA SameAccessSound ==
  ASSUME NEW m, NEW rx, Sound(m, rx), NEW u, SameAccess(m, u)
  PROVE  Sound(u, rx) /\ (HasTimer(m) => HasTimer(u))
<1>1. /\ u \in Managers /\ u.medium = m.medium /\ u.timer = m.timer
      /\ \A a \in Edcafs : u.edcaf[a].access = m.edcaf[a].access /\ u.edcaf[a].frames = m.edcaf[a].frames
  BY DEF SameAccess
<1>2. \A a \in Edcafs : u.edcaf[a].frames \in Nat /\ m.edcaf[a].frames \in Nat
  BY <1>1, ManagerFields DEF Sound
<1>3. Sound(u, rx)
  BY <1>1, <1>2, SoundIf
<1>4. HasTimer(m) => HasTimer(u)
  BY <1>1 DEF HasTimer
<1>. QED  BY <1>3, <1>4

\* Granting access and restarting the access timer.
LEMMA GrantAndRestartIInv ==
  ASSUME NEW m, receiving \in BOOLEAN, Sound(m, receiving), GrantAndRestart(m), UNCHANGED receiving
  PROVE  IInv'
<1>1. PICK draw \in [Colliding(m) -> Draws], response \in BOOLEAN :
        Becomes(RestartAccessTimeout(DoGrantDcfAccess(m, draw, response)))
  BY DEF GrantAndRestart
<1>. DEFINE g == DoGrantDcfAccess(m, draw, response)
            r == RestartAccessTimeout(g)
<1>2. Sound(g, receiving) /\ Ahead(g)
  <2>1. CASE Granting(m)
    BY <2>1, Grant
  <2>2. CASE ~Granting(m)
    <3>1. g = Stopped(m)
      BY <2>2 DEF DoGrantDcfAccess, Stopped, Idle
    <3>. QED  BY <2>2, <3>1, NoGrant
  <2>. QED  BY <2>1, <2>2
<1>. HIDE DEF g
<1>3. g \in Managers
  BY <1>2 DEF Sound
<1>4. /\ r \in Managers /\ r.medium = g.medium /\ r.edcaf = g.edcaf
      /\ \A a \in Edcafs : g.edcaf[a].access = "REQUESTED" /\ BackoffEnd(g, a) > 0 => r.timer # NoTimer
  BY <1>3, RestartType
<1>5. Becomes(r)
  BY <1>1 DEF g
<1>. HIDE DEF r
<1>6. HasTimer(r)
  BY <1>2, <1>4 DEF Ahead, HasTimer
<1>7. Sound(r, receiving)
  BY <1>2, <1>4 DEF Sound, Granted, Held
<1>8. receiving' = receiving
  OBVIOUS
<1>9. Sound(r, receiving')
  BY <1>7, <1>8
<1>. QED  BY <1>5, <1>6, <1>8, <1>9, BecomesIInv

----------------------------------------------------------------------------
(***************************************************************************)
(* Requests for access.                                                    *)
(***************************************************************************)
\* The start of a backoff is set.
LEMMA SetStartType ==
  ASSUME NEW m \in Managers, NEW a \in Edcafs, NEW s \in Int,
         NEW r, r = [m EXCEPT !.edcaf[a].start = s]
  PROVE  SameAccess(m, r)
<1>. DEFINE e == [m.edcaf[a] EXCEPT !.start = s]
<1>0. m.edcaf \in [Edcafs -> EdcafRecord] /\ m.edcaf[a] \in EdcafRecord
  BY ManagerFields
<1>1. e \in EdcafRecord /\ e.access = m.edcaf[a].access /\ e.frames = m.edcaf[a].frames
  BY <1>0 DEF EdcafRecord
<1>2. r = [m EXCEPT !.edcaf = [m.edcaf EXCEPT ![a] = e]]
  BY <1>0 DEF Managers
<1>. HIDE DEF e
<1>3. [m.edcaf EXCEPT ![a] = e] \in [Edcafs -> EdcafRecord]
  BY <1>0, <1>1
<1>4. /\ r \in Managers /\ r.medium = m.medium /\ r.timer = m.timer
      /\ r.edcaf = [m.edcaf EXCEPT ![a] = e]
  BY <1>2, <1>3 DEF Managers
<1>5. ASSUME NEW b \in Edcafs
      PROVE  r.edcaf[b].access = m.edcaf[b].access /\ r.edcaf[b].frames = m.edcaf[b].frames
  BY <1>0, <1>1, <1>4
<1>. QED  BY <1>4, <1>5 DEF SameAccess

\* One change after another.
LEMMA SameAccessTwice ==
  ASSUME NEW m, NEW u, NEW v, SameAccess(m, u), SameAccess(u, v)
  PROVE  SameAccess(m, v)
BY DEF SameAccess

\* Moving the start of a backoff to a slot boundary.
LEMMA AlignType ==
  ASSUME NEW m \in Managers, NEW a \in Edcafs
  PROVE  SameAccess(m, Align(m, a))
<1>. DEFINE diff == m.edcaf[a].start - AifsEnd(m, a)
            s == AifsEnd(m, a) + ((diff + Slot - 1) \div Slot) * Slot
<1>1. AifsEnd(m, a) \in Int /\ m.edcaf[a].start \in Int /\ Slot \in Nat /\ Slot > 0
  BY BackoffTimes, ManagerFields, ChannelAccessAssumption
<1>2. CASE diff <= 0
  BY <1>2 DEF Align, SameAccess
<1>3. CASE ~(diff <= 0)
  <2>1. (diff + Slot - 1) \div Slot \in Int
    <3>1. diff + Slot - 1 \in Int
      BY <1>1
    <3>. HIDE DEF diff
    <3>. QED  BY <1>1, <3>1
  <2>2. s \in Int
    <3>. DEFINE q == (diff + Slot - 1) \div Slot
    <3>1. q \in Int
      BY <2>1
    <3>. HIDE DEF q
    <3>2. AifsEnd(m, a) + q * Slot \in Int
      BY <1>1, <3>1
    <3>. QED  BY <3>2 DEF q
  <2>3. Align(m, a) = [m EXCEPT !.edcaf[a].start = s]
    BY <1>3 DEF Align
  <2>. HIDE DEF s
  <2>. QED  BY <2>2, <2>3, SetStartType
<1>. QED  BY <1>2, <1>3

\* A request for access.
LEMMA RequestAccessIInv ==
  ASSUME NEW m, receiving \in BOOLEAN, Sound(m, receiving), NEW a \in Edcafs,
         RequestAccess(m, a), UNCHANGED receiving
  PROVE  IInv'
<1>. DEFINE u == UpdateBackoff(Align(m, a))
            r == [u EXCEPT !.edcaf[a].access = "REQUESTED"]
<1>0. m \in Managers
  BY DEF Sound
<1>1. SameAccess(m, u)
  <2>1. SameAccess(m, Align(m, a)) /\ Align(m, a) \in Managers
    BY <1>0, AlignType DEF SameAccess
  <2>2. SameAccess(Align(m, a), u)
    BY <2>1, UpdateBackoffType
  <2>. HIDE DEF u
  <2>. QED  BY <2>1, <2>2, SameAccessTwice
<1>2. GrantAndRestart(r)
  BY DEF RequestAccess
<1>. HIDE DEF u
<1>3. Sound(u, receiving) /\ u \in Managers
  BY <1>1, SameAccessSound DEF SameAccess
<1>4. /\ r \in Managers /\ r.medium = u.medium
      /\ r.edcaf[a].access = "REQUESTED" /\ r.edcaf[a].frames = u.edcaf[a].frames
      /\ \A b \in Edcafs \ {a} : r.edcaf[b] = u.edcaf[b]
  <2>1. r = [u EXCEPT !.edcaf[a].access = "REQUESTED"]
    OBVIOUS
  <2>2. "REQUESTED" \in {"NOT_REQUESTED", "REQUESTED", "GRANTED"}
    OBVIOUS
  <2>. HIDE DEF r
  <2>. QED  BY <1>3, <2>1, <2>2, SetAccessType
<1>. HIDE DEF r
<1>5. \A b \in Edcafs : r.edcaf[b].access = "GRANTED" =>
        u.edcaf[b].access = "GRANTED" /\ r.edcaf[b].frames >= u.edcaf[b].frames
  <2>1. \A b \in Edcafs : u.edcaf[b].frames >= u.edcaf[b].frames
    BY <1>3, ManagerFields
  <2>. QED  BY <1>4, <2>1
<1>6. Sound(r, receiving)
  BY <1>3, <1>4, <1>5, SoundIf
<1>. QED  BY <1>2, <1>6, GrantAndRestartIInv

\* Whether a backoff is drawn when the first frame is queued.
LEMMA NeedBackoffType ==
  ASSUME NEW m \in Managers, NEW a \in Edcafs, NEW had, NEW n \in Draws
  PROVE  SameAccess(m, NeedBackoffUponAccess(m, a, had, n))
<1>. DEFINE u == UpdateBackoff(m)
            r == NeedBackoffUponAccess(m, a, had, n)
<1>1. SameAccess(m, u) /\ u \in Managers
  BY UpdateBackoffType DEF SameAccess
<1>2. PICK z \in Int : z = 0
  OBVIOUS
<1>3. r = u \/ r = GenerateBackoff(u, a, n) \/ r = [u EXCEPT !.edcaf[a].start = z]
  BY <1>2 DEF NeedBackoffUponAccess
<1>. HIDE DEF u, r
<1>4. r = u => SameAccess(m, r)
  BY <1>1
<1>5. r = GenerateBackoff(u, a, n) => SameAccess(m, r)
  BY <1>1, GenerateBackoffType, SameAccessTwice
<1>6. r = [u EXCEPT !.edcaf[a].start = z] => SameAccess(m, r)
  BY <1>1, SetStartType, SameAccessTwice
<1>7. SameAccess(m, r)
  BY <1>3, <1>4, <1>5, <1>6
<1>. QED  BY <1>7 DEF r

\* The manager of a state.
LEMMA ManagerOK ==
  ASSUME IInv
  PROVE  /\ Manager \in Managers /\ Sound(Manager, receiving) /\ HasTimer(Manager)
         /\ receiving \in BOOLEAN
         /\ Manager.edcaf = edcaf /\ Manager.medium = medium /\ Manager.timer = timer
         /\ Manager.counter = counter /\ Granted(Manager) = Holders
BY DEF IInv, Sound, Manager, Granted, Holders

\* An MPDU is queued.
LEMMA QueueIInv ==
  ASSUME IInv, NEW a \in Edcafs, NEW n \in Draws, Queue(a, n)
  PROVE  IInv'
<1>. DEFINE M == Manager
            q == [M EXCEPT !.edcaf[a].frames = M.edcaf[a].frames + 1]
            e == [M.edcaf[a] EXCEPT !.frames = M.edcaf[a].frames + 1]
<1>0. /\ M \in Managers /\ Sound(M, receiving) /\ HasTimer(M) /\ receiving \in BOOLEAN
      /\ M.edcaf = edcaf
  BY ManagerOK
<1>1. /\ edcaf[a].frames < MaxFrames /\ UNCHANGED receiving
      /\ \/ Becomes(q)
         \/ RequestAccess(NeedBackoffUponAccess(q, a, edcaf[a].frames > 0, n), a)
  BY <1>0 DEF Queue, Manager
<1>. HIDE DEF M
<1>2. M.edcaf \in [Edcafs -> EdcafRecord] /\ M.edcaf[a] \in EdcafRecord /\ M.edcaf[a].frames \in Nat
  BY <1>0, ManagerFields
<1>3. M.edcaf[a].frames + 1 \in 0 .. MaxFrames /\ M.edcaf[a].frames + 1 >= M.edcaf[a].frames
  BY <1>0, <1>1, <1>2, ChannelAccessAssumption
<1>4. e \in EdcafRecord /\ e.access = M.edcaf[a].access /\ e.frames = M.edcaf[a].frames + 1
  BY <1>2, <1>3 DEF EdcafRecord
<1>5. q = [M EXCEPT !.edcaf = [M.edcaf EXCEPT ![a] = e]]
  BY <1>0, <1>2 DEF Managers
<1>. HIDE DEF e, q
<1>6. [M.edcaf EXCEPT ![a] = e] \in [Edcafs -> EdcafRecord]
  BY <1>2, <1>4
<1>7. /\ q \in Managers /\ q.medium = M.medium /\ q.timer = M.timer
      /\ q.edcaf = [M.edcaf EXCEPT ![a] = e]
  BY <1>0, <1>5, <1>6 DEF Managers
<1>8. \A b \in Edcafs :
        q.edcaf[b].access = M.edcaf[b].access /\ q.edcaf[b].frames >= M.edcaf[b].frames
  <2>1. \A b \in Edcafs : M.edcaf[b].frames >= M.edcaf[b].frames
    BY <1>0, ManagerFields
  <2>. QED  BY <1>2, <1>3, <1>4, <1>7, <2>1
<1>9. Sound(q, receiving)
  BY <1>0, <1>7, <1>8, SoundIf
<1>10. HasTimer(q)
  BY <1>0, <1>7, <1>8 DEF HasTimer
<1>11. CASE Becomes(q)
  <2>1. receiving' = receiving
    BY <1>1
  <2>. QED  BY <1>0, <1>9, <1>10, <1>11, <2>1, BecomesIInv
<1>12. CASE RequestAccess(NeedBackoffUponAccess(q, a, edcaf[a].frames > 0, n), a)
  <2>. DEFINE u == NeedBackoffUponAccess(q, a, edcaf[a].frames > 0, n)
  <2>1. SameAccess(q, u)
    BY <1>7, NeedBackoffType
  <2>2. RequestAccess(u, a) /\ UNCHANGED receiving
    BY <1>1, <1>12
  <2>. HIDE DEF u
  <2>3. Sound(u, receiving)
    BY <1>9, <2>1, SameAccessSound
  <2>. QED  BY <1>0, <2>2, <2>3, RequestAccessIInv
<1>. QED  BY <1>1, <1>11, <1>12

\* The queued frames of an EDCAF that holds no TXOP expire.
LEMMA ExpireIInv ==
  ASSUME IInv, NEW a \in Edcafs, Expire(a)
  PROVE  IInv'
<1>. DEFINE M == Manager
            e == [M.edcaf[a] EXCEPT !.frames = 0]
            r == [M EXCEPT !.edcaf = [M.edcaf EXCEPT ![a] = e]]
<1>0. /\ M \in Managers /\ Sound(M, receiving) /\ HasTimer(M) /\ receiving \in BOOLEAN
      /\ M.edcaf = edcaf
  BY ManagerOK
<1>1. /\ M.edcaf[a].access # "GRANTED" /\ Becomes(r) /\ receiving' = receiving
  BY <1>0 DEF Expire, Becomes, Manager
<1>. HIDE DEF M
<1>2. M.edcaf \in [Edcafs -> EdcafRecord] /\ M.edcaf[a] \in EdcafRecord
  BY <1>0, ManagerFields
<1>3. e \in EdcafRecord /\ e.access = M.edcaf[a].access
  <2>. PICK z \in 0 .. MaxFrames : z = 0
    BY ChannelAccessAssumption
  <2>1. e = [M.edcaf[a] EXCEPT !.frames = z]
    OBVIOUS
  <2>. QED  BY <1>2, <2>1 DEF EdcafRecord
<1>. HIDE DEF e
<1>4. [M.edcaf EXCEPT ![a] = e] \in [Edcafs -> EdcafRecord]
  BY <1>2, <1>3
<1>5. /\ r \in Managers /\ r.medium = M.medium /\ r.timer = M.timer
      /\ r.edcaf = [M.edcaf EXCEPT ![a] = e]
  BY <1>0, <1>4 DEF Managers
<1>. HIDE DEF r
<1>6. \A b \in Edcafs : r.edcaf[b].access = M.edcaf[b].access
  BY <1>2, <1>3, <1>5
<1>7. \A b \in Edcafs : r.edcaf[b].access = "GRANTED" =>
        M.edcaf[b].access = "GRANTED" /\ r.edcaf[b].frames >= M.edcaf[b].frames
  <2>1. \A b \in Edcafs : M.edcaf[b].frames >= M.edcaf[b].frames
    BY <1>0, ManagerFields
  <2>. QED  BY <1>1, <1>2, <1>3, <1>5, <2>1
<1>8. Sound(r, receiving)
  BY <1>0, <1>5, <1>7, SoundIf
<1>9. HasTimer(r)
  BY <1>0, <1>5, <1>6 DEF HasTimer
<1>. QED  BY <1>0, <1>1, <1>8, <1>9, BecomesIInv

\* The access timeout.
LEMMA AccessTimeoutIInv ==
  ASSUME IInv, AccessTimeout
  PROVE  IInv'
<1>. DEFINE M == Manager
            m == [M EXCEPT !.timer = NoTimer]
            u == UpdateBackoff(m)
<1>0. M \in Managers /\ Sound(M, receiving) /\ receiving \in BOOLEAN
  BY ManagerOK
<1>1. GrantAndRestart(u) /\ UNCHANGED receiving
  BY DEF AccessTimeout
<1>. HIDE DEF M, u
<1>2. m \in Managers /\ m.medium = M.medium /\ m.edcaf = M.edcaf
  BY <1>0 DEF Managers, Timers
<1>3. Sound(m, receiving)
  BY <1>0, <1>2 DEF Sound, Granted, Held
<1>. HIDE DEF m
<1>4. Sound(u, receiving)
  BY <1>2, <1>3, UpdateBackoffType, SameAccessSound DEF u
<1>. QED  BY <1>0, <1>1, <1>4, GrantAndRestartIInv

----------------------------------------------------------------------------
(***************************************************************************)
(* The PHY and the NAV.                                                    *)
(***************************************************************************)
\* The busy periods are set.
LEMMA SetMediumType ==
  ASSUME NEW m \in Managers, NEW d \in MediumRecord,
         NEW r, r = [m EXCEPT !.medium = d]
  PROVE  r \in Managers /\ r.medium = d /\ r.timer = m.timer /\ r.edcaf = m.edcaf
BY DEF Managers

\* The PHY starts to receive; a holder that waits for a response restarts its timer.
LEMMA NotifyRxStartIInv ==
  ASSUME IInv, NEW d \in BusyTimes, NotifyRxStartNow(d)
  PROVE  IInv'
<1>. DEFINE M == Manager
            m == UpdateBackoff(M)
            c == [m.medium EXCEPT !.rxEnd = d, !.rxOk = TRUE]
            r == [m EXCEPT !.medium = c]
            c0 == [r.medium EXCEPT !.ackEnd = 0]
            s == [r EXCEPT !.medium = c0]
<1>0. M \in Managers /\ Sound(M, receiving) /\ HasTimer(M) /\ receiving \in BOOLEAN
  BY ManagerOK
<1>1. m \in Managers /\ Sound(m, receiving) /\ HasTimer(m) /\ m.medium \in MediumRecord
  <2>1. SameAccess(M, m)
    BY <1>0, UpdateBackoffType
  <2>2. m \in Managers
    BY <2>1 DEF SameAccess
  <2>. HIDE DEF m
  <2>. QED  BY <1>0, <2>1, <2>2, SameAccessSound, ManagerFields
<1>. HIDE DEF m
<1>2. d \in Int /\ d >= 0 /\ TRUE \in BOOLEAN
  BY ChannelAccessAssumption
<1>3. /\ c \in MediumRecord /\ c.rxEnd = d /\ c.txEnd = m.medium.txEnd
      /\ c.waiting = m.medium.waiting
  BY <1>1, <1>2 DEF MediumRecord
<1>. HIDE DEF c
<1>4. r \in Managers /\ r.medium = c /\ r.timer = m.timer /\ r.edcaf = m.edcaf
  BY <1>1, <1>3, SetMediumType
<1>5. /\ c0 \in MediumRecord /\ c0.rxEnd = d /\ c0.txEnd = c.txEnd
      /\ c0.waiting = c.waiting
  <2>. PICK z \in Int : z = 0
    OBVIOUS
  <2>1. c0 = [r.medium EXCEPT !.ackEnd = z]
    OBVIOUS
  <2>. QED  BY <1>3, <1>4, <2>1 DEF MediumRecord
<1>6. \/ Becomes(r)
      \/ Becomes(RestartAccessTimeout(s))
  BY <1>1 DEF NotifyRxStartNow, m, c, Managers, MediumRecord
<1>. HIDE DEF r, c0
<1>7. s \in Managers /\ s.medium = c0 /\ s.timer = r.timer /\ s.edcaf = r.edcaf
  BY <1>4, <1>5, SetMediumType
<1>. HIDE DEF s
<1>8. receiving' = TRUE /\ receiving' \in BOOLEAN
  BY DEF NotifyRxStartNow
<1>9. Sound(r, TRUE) /\ HasTimer(r)
  BY <1>1, <1>2, <1>3, <1>4 DEF Sound, Held, HasTimer, Granted
<1>10. Sound(s, TRUE) /\ HasTimer(s)
  BY <1>2, <1>4, <1>5, <1>7, <1>9 DEF Sound, Held, HasTimer, Granted
<1>11. CASE Becomes(r)
  BY <1>8, <1>9, <1>11, BecomesIInv
<1>12. CASE Becomes(RestartAccessTimeout(s))
  <2>. DEFINE t == RestartAccessTimeout(s)
  <2>1. /\ t \in Managers /\ t.medium = s.medium /\ t.edcaf = s.edcaf
        /\ s.timer # NoTimer => t.timer # NoTimer
    BY <1>7, RestartType
  <2>2. Becomes(t)
    BY <1>12
  <2>. HIDE DEF t
  <2>3. Sound(t, TRUE) /\ HasTimer(t)
    BY <1>10, <2>1 DEF Sound, Held, HasTimer, Granted
  <2>. QED  BY <1>8, <2>2, <2>3, BecomesIInv
<1>. QED  BY <1>6, <1>11, <1>12

\* A holder ends its TXOP at an instant at which the medium is not free yet.
LEMMA EndTxopIInv ==
  ASSUME IInv, NEW m \in Managers, m.edcaf = edcaf,
         AccessGrantStart(m) > 0, Holders # {}, NEW sent \in BOOLEAN, NEW n \in Draws,
         Becomes(EndTxop(m, Min(Holders), sent, n)), receiving' \in BOOLEAN,
         receiving' => m.medium.rxEnd >= 0
  PROVE  IInv'
<1>. DEFINE a == Min(Holders)
            d == IF sent THEN [m EXCEPT !.edcaf[a].frames = m.edcaf[a].frames - 1] ELSE m
            d0 == [d.medium EXCEPT !.waiting = FALSE]
            d1 == [d EXCEPT !.medium = d0]
            r == Release(d1, a, n)
            t == RestartAccessTimeout(r)
            e == [m.edcaf[a] EXCEPT !.frames = m.edcaf[a].frames - 1]
<1>0. /\ Sound(Manager, receiving) /\ Manager.edcaf = edcaf /\ Granted(Manager) = Holders
  BY ManagerOK
<1>1. Holders = Granted(m) /\ Holders \subseteq Edcafs
  BY <1>0 DEF Granted, Holders
<1>2. PICK h \in Holders : Holders = {h}
  BY <1>0 DEF Sound
<1>3. a = h
  <2>1. Holders \subseteq Nat /\ Holders # {}
    BY <1>1, <1>2, ChannelAccessAssumption DEF Edcafs
  <2>2. Min(Holders) \in Holders
    BY <2>1, MinOfNats
  <2>. QED  BY <1>2, <2>2
<1>. HIDE DEF a
<1>4. a \in Edcafs /\ Granted(m) = {a} /\ m.edcaf[a].frames > 0
  <2>1. Manager.edcaf[a].frames > 0
    BY <1>0, <1>2, <1>3 DEF Sound
  <2>. QED  BY <1>0, <1>1, <1>2, <1>3, <2>1
<1>5. m.edcaf \in [Edcafs -> EdcafRecord] /\ m.edcaf[a] \in EdcafRecord
  BY <1>4, ManagerFields
<1>6. /\ d \in Managers /\ d.medium = m.medium
      /\ \A b \in Edcafs : d.edcaf[b].access = m.edcaf[b].access
  <2>1. CASE sent
    <3>0. m.edcaf[a].frames - 1 \in 0 .. MaxFrames
      <4>1. m.edcaf[a].frames \in 0 .. MaxFrames
        BY <1>5 DEF EdcafRecord
      <4>. QED  BY <1>4, <4>1, ChannelAccessAssumption
    <3>1. e \in EdcafRecord /\ e.access = m.edcaf[a].access
      BY <1>5, <3>0 DEF EdcafRecord
    <3>2. d = [m EXCEPT !.edcaf = [m.edcaf EXCEPT ![a] = e]]
      BY <1>4, <1>5, <2>1 DEF Managers
    <3>. HIDE DEF e, d
    <3>3. [m.edcaf EXCEPT ![a] = e] \in [Edcafs -> EdcafRecord]
      BY <1>5, <3>1
    <3>4. d \in Managers /\ d.medium = m.medium /\ d.edcaf = [m.edcaf EXCEPT ![a] = e]
      BY <3>2, <3>3 DEF Managers
    <3>. QED  BY <1>5, <3>1, <3>4
  <2>2. CASE ~sent
    BY <2>2
  <2>. QED  BY <2>1, <2>2
<1>7. Becomes(t)
  <2>1. d1 = [d EXCEPT !.medium.waiting = FALSE]
    BY <1>6 DEF Managers, MediumRecord
  <2>. HIDE DEF d1
  <2>. QED  BY <2>1 DEF EndTxop, a
<1>. HIDE DEF d
<1>8. /\ d0 \in MediumRecord /\ d0.rxEnd = m.medium.rxEnd /\ d0.rxOk = m.medium.rxOk
      /\ d0.busyEnd = m.medium.busyEnd /\ d0.txEnd = m.medium.txEnd
      /\ d0.navEnd = m.medium.navEnd /\ d0.ackEnd = m.medium.ackEnd
  <2>1. m.medium \in MediumRecord /\ FALSE \in BOOLEAN
    BY ManagerFields
  <2>. QED  BY <1>6, <2>1 DEF MediumRecord
<1>. HIDE DEF d0
<1>9. d1 \in Managers /\ d1.medium = d0 /\ d1.edcaf = d.edcaf
  BY <1>6, <1>8, SetMediumType
<1>. HIDE DEF d1
<1>10. /\ r \in Managers /\ r.medium = d0
       /\ r.edcaf[a].access \in {"REQUESTED", "NOT_REQUESTED"}
       /\ \A b \in Edcafs \ {a} : r.edcaf[b].access = d.edcaf[b].access
  BY <1>4, <1>9, ReleaseType
<1>. HIDE DEF r
<1>11. Ahead(r)
  <2>1. AccessGrantStart(r) > 0
    BY <1>8, <1>10 DEF AccessGrantStart
  <2>. QED  BY <1>10, <2>1, AheadWhenBusy
<1>12. Granted(r) = {}
  BY <1>4, <1>6, <1>10 DEF Granted
<1>13. /\ t \in Managers /\ t.medium = r.medium /\ t.edcaf = r.edcaf
       /\ \A b \in Edcafs : r.edcaf[b].access = "REQUESTED" /\ BackoffEnd(r, b) > 0
                              => t.timer # NoTimer
  BY <1>10, RestartType
<1>. HIDE DEF t
<1>14. HasTimer(t)
  BY <1>11, <1>13 DEF Ahead, HasTimer
<1>15. Granted(t) = {}
  BY <1>12, <1>13 DEF Granted
<1>16. Sound(t, receiving')
  BY <1>8, <1>10, <1>13, <1>15 DEF Sound
<1>. QED  BY <1>7, <1>14, <1>16, BecomesIInv

\* A busy period that is known keeps everyone from access.
LEMMA NotFreeYet ==
  ASSUME NEW m \in Managers,
         m.medium.rxEnd = 0 \/ m.medium.ackEnd = 0 \/ m.medium.txEnd = 0
  PROVE  AccessGrantStart(m) > 0
<1>1. /\ AccessGrantStart(m) \in Int /\ AccessGrantStart(m) >= Sifs + m.medium.rxEnd
      /\ AccessGrantStart(m) >= Sifs + m.medium.ackEnd
      /\ AccessGrantStart(m) >= Sifs + m.medium.txEnd
      /\ m.medium.rxEnd \in Int /\ m.medium.ackEnd \in Int /\ m.medium.txEnd \in Int
  BY AccessGrantStartAfter, ManagerFields
<1>2. Sifs \in Nat /\ Sifs > 0
  BY ChannelAccessAssumption
<1>. QED  BY <1>1, <1>2

\* A reception ends.
LEMMA RxEndIInv ==
  ASSUME IInv, NEW ok \in BOOLEAN, NEW isAck \in BOOLEAN, NEW n \in Draws, RxEnd(ok, isAck, n)
  PROVE  IInv'
<1>. DEFINE M == Manager
            c == [M.medium EXCEPT !.rxOk = ok]
            m == [M EXCEPT !.medium = c]
            c0 == [c EXCEPT !.ackEnd = IF isAck THEN 0 ELSE c.ackEnd]
            s == [m EXCEPT !.medium = c0]
<1>0. /\ M \in Managers /\ Sound(M, receiving) /\ HasTimer(M) /\ receiving \in BOOLEAN
      /\ M.edcaf = edcaf /\ M.medium = medium /\ Granted(M) = Holders
  BY ManagerOK
<1>1. medium.rxEnd = 0 /\ receiving' = FALSE
  BY DEF RxEnd
<1>2. \/ ~Waiting /\ Becomes(m)
      \/ Waiting /\ Becomes(EndTxop(s, Min(Holders), isAck, n))
  BY <1>0 DEF RxEnd, Managers, MediumRecord
<1>. HIDE DEF M
<1>3. M.medium \in MediumRecord /\ M.medium.ackEnd \in Int
  BY <1>0, ManagerFields
<1>4. /\ c \in MediumRecord /\ c.rxEnd = M.medium.rxEnd /\ c.txEnd = M.medium.txEnd
      /\ c.waiting = M.medium.waiting
  BY <1>3 DEF MediumRecord
<1>5. c0 \in MediumRecord /\ c0.rxEnd = c.rxEnd
  <2>. PICK z \in Int : z = 0
    OBVIOUS
  <2>0. c.ackEnd \in Int
    BY <1>4 DEF MediumRecord
  <2>. DEFINE k == IF isAck THEN z ELSE c.ackEnd
  <2>1. c0 = [c EXCEPT !.ackEnd = k] /\ k \in Int
    BY <2>0
  <2>. HIDE DEF k, c
  <2>. QED  BY <1>4, <2>1 DEF MediumRecord
<1>. HIDE DEF c, c0
<1>6. m \in Managers /\ m.medium = c /\ m.timer = M.timer /\ m.edcaf = M.edcaf
  BY <1>0, <1>4, SetMediumType
<1>. HIDE DEF m
<1>7. s \in Managers /\ s.medium = c0 /\ s.timer = m.timer /\ s.edcaf = m.edcaf
  BY <1>5, <1>6, SetMediumType
<1>. HIDE DEF s
<1>8. CASE ~Waiting /\ Becomes(m)
  <2>1. Granted(m) = Holders /\ (Holders # {} => ~m.medium.waiting)
    BY <1>0, <1>4, <1>6, <1>8 DEF Granted, Waiting
  <2>2. Sound(m, FALSE)
    BY <1>0, <1>4, <1>6, <2>1 DEF Sound, Held, Granted
  <2>3. HasTimer(m)
    BY <1>0, <1>6 DEF HasTimer
  <2>. QED  BY <1>1, <1>8, <2>2, <2>3, BecomesIInv
<1>9. CASE Waiting /\ Becomes(EndTxop(s, Min(Holders), isAck, n))
  <2>1. s.medium.rxEnd = 0
    BY <1>0, <1>1, <1>4, <1>5, <1>7
  <2>2. AccessGrantStart(s) > 0
    BY <1>7, <2>1, NotFreeYet
  <2>3. s.edcaf = edcaf
    BY <1>0, <1>6, <1>7
  <2>4. Holders # {}
    BY <1>9 DEF Waiting
  <2>. QED  BY <1>1, <1>7, <1>9, <2>2, <2>3, <2>4, EndTxopIInv
<1>. QED  BY <1>2, <1>8, <1>9

\* The response timer expires.
LEMMA ResponseTimeoutIInv ==
  ASSUME IInv, NEW n \in Draws, ResponseTimeout(n)
  PROVE  IInv'
<1>1. Manager \in Managers /\ Manager.edcaf = edcaf /\ Manager.medium = medium
  BY ManagerOK
<1>2. /\ Holders # {} /\ ~receiving /\ medium.ackEnd = 0 /\ UNCHANGED receiving
      /\ Becomes(EndTxop(Manager, Min(Holders), FALSE, n))
  BY DEF ResponseTimeout, Waiting
<1>3. receiving' = FALSE /\ receiving' \in BOOLEAN /\ FALSE \in BOOLEAN
  BY <1>2, Zenon DEF IInv
<1>4. AccessGrantStart(Manager) > 0
  BY <1>1, <1>2, NotFreeYet
<1>. QED  BY <1>1, <1>2, <1>3, <1>4, EndTxopIInv

\* A transmission without a response ends.
LEMMA TransmissionDoneIInv ==
  ASSUME IInv, NEW sent \in BOOLEAN, NEW n \in Draws, TransmissionDone(sent, n)
  PROVE  IInv'
<1>1. /\ Manager \in Managers /\ Manager.edcaf = edcaf /\ Manager.medium = medium
      /\ Sound(Manager, receiving) /\ receiving \in BOOLEAN
  BY ManagerOK
<1>2. /\ Holders # {} /\ medium.txEnd = 0 /\ receiving' = receiving
      /\ Becomes(EndTxop(Manager, Min(Holders), sent, n))
  BY DEF TransmissionDone
<1>3. receiving' \in BOOLEAN /\ (receiving' => Manager.medium.rxEnd >= 0)
  BY <1>1, <1>2 DEF Sound
<1>4. AccessGrantStart(Manager) > 0
  BY <1>1, <1>2, NotFreeYet
<1>. QED  BY <1>1, <1>2, <1>3, <1>4, EndTxopIInv

\* Busy periods on which no TXOP rests are set.
LEMMA SetBusyType ==
  ASSUME NEW m, Sound(m, receiving), HasTimer(m), NEW d \in MediumRecord,
         d.rxEnd = m.medium.rxEnd \/ ~receiving, d.ackEnd = m.medium.ackEnd,
         d.txEnd = m.medium.txEnd, d.waiting = m.medium.waiting,
         NEW r, r = [m EXCEPT !.medium = d]
  PROVE  r \in Managers /\ Sound(r, receiving) /\ HasTimer(r)
<1>1. m \in Managers
  BY DEF Sound
<1>2. r \in Managers /\ r.medium = d /\ r.timer = m.timer /\ r.edcaf = m.edcaf
  BY <1>1, SetMediumType
<1>. QED  BY <1>2 DEF Sound, Held, HasTimer, Granted

\* The backoffs of a sound manager are brought up to date.
LEMMA UpdateBackoffSound ==
  ASSUME NEW m, Sound(m, receiving), HasTimer(m)
  PROVE  /\ UpdateBackoff(m) \in Managers /\ UpdateBackoff(m).medium = m.medium
         /\ Sound(UpdateBackoff(m), receiving) /\ HasTimer(UpdateBackoff(m))
         /\ UpdateBackoff(m).medium \in MediumRecord
<1>. DEFINE u == UpdateBackoff(m)
<1>1. SameAccess(m, u)
  BY UpdateBackoffType DEF Sound
<1>. HIDE DEF u
<1>2. u \in Managers /\ u.medium = m.medium
  BY <1>1 DEF SameAccess
<1>3. Sound(u, receiving) /\ HasTimer(u)
  BY <1>1, SameAccessSound
<1>4. u.medium \in MediumRecord
  BY <1>2, ManagerFields
<1>. QED  BY <1>2, <1>3, <1>4 DEF u

\* A CCA busy period starts.
LEMMA CcaBusyStartIInv ==
  ASSUME IInv, NEW d \in BusyTimes, NotifyCcaBusyStartNow(d)
  PROVE  IInv'
<1>. DEFINE m == UpdateBackoff(Manager)
            c == [m.medium EXCEPT !.busyEnd = d]
            r == [m EXCEPT !.medium = c]
<1>1. m \in Managers /\ Sound(m, receiving) /\ HasTimer(m) /\ m.medium \in MediumRecord
  BY ManagerOK, UpdateBackoffSound
<1>. HIDE DEF m
<1>2. Becomes(r) /\ receiving' = receiving /\ receiving \in BOOLEAN
  BY <1>1 DEF NotifyCcaBusyStartNow, IInv, m, Managers, MediumRecord
<1>3. d \in Int
  BY ChannelAccessAssumption
<1>4. /\ c \in MediumRecord /\ c.rxEnd = m.medium.rxEnd /\ c.ackEnd = m.medium.ackEnd
      /\ c.txEnd = m.medium.txEnd /\ c.waiting = m.medium.waiting
  BY <1>1, <1>3 DEF MediumRecord
<1>5. r = [m EXCEPT !.medium = c]
  OBVIOUS
<1>. HIDE DEF c, r
<1>6. Sound(r, receiving) /\ HasTimer(r)
  BY <1>1, <1>4, <1>5, SetBusyType
<1>. QED  BY <1>2, <1>6, BecomesIInv

\* A CCA busy period ends before its time.
LEMMA CcaResetIInv ==
  ASSUME IInv, CcaReset
  PROVE  IInv'
<1>. PICK z \in Int : z = 0
  OBVIOUS
<1>. DEFINE M == Manager
            c0 == [M.medium EXCEPT !.rxEnd = z, !.rxOk = TRUE]
            s == [M EXCEPT !.medium = c0]
            m == UpdateBackoff(s)
            c == [m.medium EXCEPT !.busyEnd = z]
            r == [m EXCEPT !.medium = c]
<1>1. /\ M \in Managers /\ Sound(M, receiving) /\ HasTimer(M) /\ receiving \in BOOLEAN
  BY ManagerOK
<1>2. ~receiving /\ receiving' = receiving
  BY DEF CcaReset
<1>3. Becomes([UpdateBackoff(s) EXCEPT !.medium.busyEnd = z])
  <2>1. s = [Manager EXCEPT !.medium.rxEnd = 0, !.medium.rxOk = TRUE]
    BY <1>1 DEF Managers, MediumRecord
  <2>. HIDE DEF s
  <2>. QED  BY <2>1 DEF CcaReset
<1>. HIDE DEF M
<1>4. M.medium \in MediumRecord /\ TRUE \in BOOLEAN
  BY <1>1, ManagerFields
<1>5. /\ c0 \in MediumRecord /\ c0.ackEnd = M.medium.ackEnd
      /\ c0.txEnd = M.medium.txEnd /\ c0.waiting = M.medium.waiting
  BY <1>4 DEF MediumRecord
<1>6. s = [M EXCEPT !.medium = c0]
  OBVIOUS
<1>. HIDE DEF c0, s
<1>7. Sound(s, receiving) /\ HasTimer(s)
  BY <1>1, <1>2, <1>5, <1>6, SetBusyType
<1>8. m \in Managers /\ Sound(m, receiving) /\ HasTimer(m) /\ m.medium \in MediumRecord
  BY <1>7, UpdateBackoffSound
<1>. HIDE DEF m
<1>9. Becomes(r)
  BY <1>3, <1>8 DEF m, Managers, MediumRecord
<1>10. /\ c \in MediumRecord /\ c.rxEnd = m.medium.rxEnd /\ c.ackEnd = m.medium.ackEnd
       /\ c.txEnd = m.medium.txEnd /\ c.waiting = m.medium.waiting
  BY <1>8 DEF MediumRecord
<1>11. r = [m EXCEPT !.medium = c]
  OBVIOUS
<1>. HIDE DEF c, r
<1>12. Sound(r, receiving) /\ HasTimer(r)
  BY <1>8, <1>10, <1>11, SetBusyType
<1>. QED  BY <1>1, <1>2, <1>9, <1>12, BecomesIInv

\* The NAV is set.
LEMMA NavStartIInv ==
  ASSUME IInv, NEW d \in BusyTimes, NotifyNavStartNow(d)
  PROVE  IInv'
<1>. DEFINE m == UpdateBackoff(Manager)
            k == Max({m.medium.navEnd, d})
            c == [m.medium EXCEPT !.navEnd = k]
            r == [m EXCEPT !.medium = c]
<1>1. m \in Managers /\ Sound(m, receiving) /\ HasTimer(m) /\ m.medium \in MediumRecord
  BY ManagerOK, UpdateBackoffSound
<1>. HIDE DEF m
<1>2. Becomes(r) /\ receiving' = receiving /\ receiving \in BOOLEAN
  BY <1>1 DEF NotifyNavStartNow, IInv, m, Managers, MediumRecord
<1>3. k \in Int
  <2>1. m.medium.navEnd \in Int /\ d \in Int
    BY <1>1, ManagerFields, ChannelAccessAssumption
  <2>. QED  BY <2>1, MaxOfTwo
<1>. HIDE DEF k
<1>4. /\ c \in MediumRecord /\ c.rxEnd = m.medium.rxEnd /\ c.ackEnd = m.medium.ackEnd
      /\ c.txEnd = m.medium.txEnd /\ c.waiting = m.medium.waiting
  BY <1>1, <1>3 DEF MediumRecord
<1>5. r = [m EXCEPT !.medium = c]
  OBVIOUS
<1>. HIDE DEF c, r
<1>6. Sound(r, receiving) /\ HasTimer(r)
  BY <1>1, <1>4, <1>5, SetBusyType
<1>. QED  BY <1>2, <1>6, BecomesIInv

\* The NAV is reset; the access timer is only ever set.
LEMMA NavResetIInv ==
  ASSUME IInv, NotifyNavResetNow
  PROVE  IInv'
<1>. PICK z \in Int : z = 0
  OBVIOUS
<1>. DEFINE m == UpdateBackoff(Manager)
            c == [m.medium EXCEPT !.navEnd = z]
            r == [m EXCEPT !.medium = c]
            t == RestartAccessTimeout(r)
<1>1. m \in Managers /\ Sound(m, receiving) /\ HasTimer(m) /\ m.medium \in MediumRecord
  BY ManagerOK, UpdateBackoffSound
<1>. HIDE DEF m
<1>2. receiving' = receiving /\ receiving \in BOOLEAN
  BY DEF NotifyNavResetNow, IInv
<1>3. Becomes(t)
  <2>1. r = [m EXCEPT !.medium.navEnd = 0]
    BY <1>1 DEF Managers, MediumRecord
  <2>. HIDE DEF r
  <2>. QED  BY <2>1 DEF NotifyNavResetNow, m
<1>4. /\ c \in MediumRecord /\ c.rxEnd = m.medium.rxEnd /\ c.ackEnd = m.medium.ackEnd
      /\ c.txEnd = m.medium.txEnd /\ c.waiting = m.medium.waiting
  BY <1>1 DEF MediumRecord
<1>5. r = [m EXCEPT !.medium = c]
  OBVIOUS
<1>. HIDE DEF c, r
<1>6. r \in Managers /\ Sound(r, receiving) /\ HasTimer(r)
  BY <1>1, <1>4, <1>5, SetBusyType
<1>7. /\ t \in Managers /\ t.medium = r.medium /\ t.edcaf = r.edcaf
      /\ r.timer # NoTimer => t.timer # NoTimer
  BY <1>6, RestartType
<1>. HIDE DEF t
<1>8. Sound(t, receiving) /\ HasTimer(t)
  BY <1>6, <1>7 DEF Sound, Held, HasTimer, Granted
<1>. QED  BY <1>2, <1>3, <1>8, BecomesIInv

----------------------------------------------------------------------------
(***************************************************************************)
(* Time passes.                                                            *)
(***************************************************************************)
\* The oldest time that matters is a time.
LEMMA OldestIsInt == Oldest \in Int
<1>. DEFINE n == 2 + MaxBackoff + Max({Aifsn[a] : a \in Edcafs})
<1>1. Slot \in Nat /\ Sifs \in Nat /\ EifsNoDifs \in Nat /\ n \in Nat
  BY MaxAifsn, ChannelAccessAssumption
<1>. HIDE DEF n
<1>2. Slot * n \in Nat
  BY <1>1, Product
<1>3. -(Sifs + EifsNoDifs + Slot * n) \in Int
  BY <1>1, <1>2
<1>. QED  BY <1>3 DEF Oldest, n

\* Times age, and no period ends before its time.
LEMMA AgedTypes ==
  ASSUME NEW t \in Int
  PROVE  /\ Aged(t) \in Int /\ AgedEnd(t) \in Int
         /\ t > 0 => Aged(t) >= 0 /\ AgedEnd(t) >= 0
<1>. DEFINE step == IF LatestEnd - 1 < Oldest + EifsNoDifs THEN Slot - 1 ELSE -1
<1>1. Oldest \in Int
  BY OldestIsInt
<1>2. step \in Int /\ step >= -1
  BY ChannelAccessAssumption
<1>3. Aged(t) = Max({t + step, Oldest})
  BY DEF Aged
<1>. HIDE DEF step
<1>4. t + step \in Int
  BY <1>2
<1>5. Aged(t) \in Int /\ Aged(t) >= t + step
  BY <1>1, <1>3, <1>4, MaxOfTwo
<1>6. t > 0 => Aged(t) >= 0
  BY <1>2, <1>5
<1>7. AgedEnd(t) \in {Oldest, Aged(t)} /\ (t > 0 => AgedEnd(t) = Aged(t))
  BY DEF AgedEnd
<1>. QED  BY <1>1, <1>5, <1>6, <1>7

\* A tick ends neither a reception nor the wait of a holder.
LEMMA TickIInv ==
  ASSUME IInv, Tick
  PROVE  IInv'
<1>. DEFINE M == Manager
            e == [a \in Edcafs |-> [edcaf[a] EXCEPT !.start = AgedStart(a)]]
            d == [busyEnd |-> AgedEnd(medium.busyEnd), txEnd |-> AgedEnd(medium.txEnd),
                  navEnd |-> AgedEnd(medium.navEnd), ackEnd |-> AgedEnd(medium.ackEnd),
                  rxEnd |-> AgedRxEnd, rxOk |-> medium.rxOk, waiting |-> medium.waiting]
            t == IF timer = NoTimer THEN NoTimer ELSE timer - 1
            c == [a \in Edcafs |->
                   IF counter[a] > 0 /\ AtBoundary(Manager, a, 1) THEN counter[a] - 1 ELSE counter[a]]
            r == [edcaf |-> e, medium |-> d, timer |-> t, counter |-> c]
<1>0. /\ M \in Managers /\ Sound(M, receiving) /\ HasTimer(M) /\ receiving \in BOOLEAN
      /\ M.edcaf = edcaf /\ M.medium = medium /\ M.timer = timer /\ M.counter = counter
      /\ Granted(M) = Holders
  BY ManagerOK
<1>1. /\ timer # 0 /\ (receiving => medium.rxEnd > 0)
      /\ (Waiting /\ ~receiving => medium.ackEnd > 0)
      /\ (Holders # {} /\ ~medium.waiting => medium.txEnd > 0)
      /\ receiving' = receiving /\ Becomes(r)
  BY DEF Tick, Becomes
<1>. HIDE DEF M
<1>2. /\ edcaf \in [Edcafs -> EdcafRecord] /\ medium \in MediumRecord /\ timer \in Timers
      /\ counter \in [Edcafs -> Draws]
      /\ medium.busyEnd \in Int /\ medium.rxEnd \in Int /\ medium.rxOk \in BOOLEAN
      /\ medium.txEnd \in Int /\ medium.navEnd \in Int /\ medium.ackEnd \in Int
      /\ medium.waiting \in BOOLEAN
  BY <1>0, ManagerFields
<1>3. ASSUME NEW a \in Edcafs
      PROVE  /\ e[a] \in EdcafRecord /\ e[a].access = edcaf[a].access
             /\ e[a].frames = edcaf[a].frames
  <2>1. edcaf[a] \in EdcafRecord /\ edcaf[a].start \in Int
    BY <1>2 DEF EdcafRecord
  <2>2. AgedStart(a) \in Int
    <3>1. Oldest \in Int
      BY OldestIsInt
    <3>2. AgedStart(a) \in {Oldest, Aged(edcaf[a].start)}
      BY DEF AgedStart
    <3>. QED  BY <2>1, <3>1, <3>2, AgedTypes
  <2>. QED  BY <2>1, <2>2 DEF EdcafRecord
<1>4. e \in [Edcafs -> EdcafRecord]
  BY <1>3
<1>5. AgedRxEnd \in Int /\ (medium.rxEnd > 0 => AgedRxEnd >= 0)
  <2>1. AgedRxEnd = AgedEnd(medium.rxEnd) \/ AgedRxEnd = Aged(medium.rxEnd)
    BY DEF AgedRxEnd
  <2>. QED  BY <1>2, <2>1, AgedTypes
<1>6. d \in MediumRecord
  <2>1. /\ AgedEnd(medium.busyEnd) \in Int /\ AgedEnd(medium.txEnd) \in Int
        /\ AgedEnd(medium.navEnd) \in Int /\ AgedEnd(medium.ackEnd) \in Int
    BY <1>2, AgedTypes
  <2>. QED  BY <1>2, <1>5, <2>1 DEF MediumRecord
<1>7. /\ d.rxEnd = AgedRxEnd /\ d.ackEnd = AgedEnd(medium.ackEnd)
      /\ d.txEnd = AgedEnd(medium.txEnd) /\ d.waiting = medium.waiting
      /\ (medium.ackEnd > 0 => AgedEnd(medium.ackEnd) >= 0)
      /\ (medium.txEnd > 0 => AgedEnd(medium.txEnd) >= 0)
  BY <1>2, AgedTypes
<1>8. t \in Timers /\ (timer # NoTimer => t # NoTimer)
  <2>1. CASE timer = NoTimer
    BY <2>1 DEF Timers
  <2>2. CASE timer # NoTimer
    <3>1. timer \in Nat /\ timer # 0
      BY <1>1, <1>2, <2>2 DEF Timers
    <3>2. timer - 1 \in Nat
      BY <3>1
    <3>3. t = timer - 1
      BY <2>2
    <3>4. \A k \in Nat : k # NoTimer
      BY DEF NoTimer
    <3>. HIDE DEF t
    <3>. QED  BY <3>2, <3>3, <3>4 DEF Timers
  <2>. QED  BY <2>1, <2>2
<1>9. c \in [Edcafs -> Draws]
  <2>. SUFFICES ASSUME NEW a \in Edcafs PROVE c[a] \in Draws
    OBVIOUS
  <2>1. counter[a] \in 0 .. MaxBackoff
    BY <1>2 DEF Draws
  <2>2. c[a] = counter[a] \/ (counter[a] > 0 /\ c[a] = counter[a] - 1)
    OBVIOUS
  <2>. HIDE DEF c
  <2>. QED  BY <2>1, <2>2, ChannelAccessAssumption DEF Draws
<1>. HIDE DEF e, d, t, c
<1>10. r \in Managers /\ r.edcaf = e /\ r.medium = d /\ r.timer = t
  BY <1>4, <1>6, <1>8, <1>9 DEF Managers
<1>. HIDE DEF r
<1>11. Granted(r) = Holders
  BY <1>3, <1>10 DEF Granted, Holders
<1>12. Sound(r, receiving)
  <2>1. \A a \in Granted(r) : r.edcaf[a].frames > 0
    <3>1. \A a \in Holders : a \in Edcafs /\ edcaf[a].frames > 0
      BY <1>0 DEF Sound, Holders
    <3>. QED  BY <1>3, <1>10, <1>11, <3>1
  <2>2. \A a, b \in Granted(r) : a = b
    BY <1>0, <1>11 DEF Sound
  <2>3. receiving => r.medium.rxEnd >= 0
    BY <1>1, <1>5, <1>7, <1>10
  <2>4. Granted(r) # {} => Held(r, receiving)
    BY <1>1, <1>7, <1>10, <1>11 DEF Held, Waiting
  <2>. QED  BY <1>10, <2>1, <2>2, <2>3, <2>4 DEF Sound
<1>13. HasTimer(r)
  BY <1>0, <1>3, <1>8, <1>10 DEF HasTimer
<1>. QED  BY <1>0, <1>1, <1>12, <1>13, BecomesIInv

----------------------------------------------------------------------------
(***************************************************************************)
(* The theorems.                                                           *)
(***************************************************************************)
\* Nobody requests access when the EDCAFs are initialized.
LEMMA InitIInv == Init => IInv
<1>. SUFFICES ASSUME Init PROVE IInv
  OBVIOUS
<1>. PICK z \in Int : z = 0
  OBVIOUS
<1>1. z \in 0 .. MaxFrames
  BY ChannelAccessAssumption
<1>2. ASSUME NEW a \in Edcafs
      PROVE  [access |-> "NOT_REQUESTED", slots |-> counter[a], start |-> z, frames |-> z] \in EdcafRecord
  <2>1. counter[a] \in Draws
    BY DEF Init
  <2>. QED  BY <1>1, <2>1 DEF EdcafRecord
<1>3. edcaf \in [Edcafs -> EdcafRecord] /\ \A a \in Edcafs : edcaf[a].access = "NOT_REQUESTED"
  BY <1>2 DEF Init
<1>4. medium \in MediumRecord
  <2>1. medium = [busyEnd |-> z, rxEnd |-> z, rxOk |-> TRUE, txEnd |-> z, navEnd |-> z, ackEnd |-> z,
                  waiting |-> FALSE]
    BY DEF Init
  <2>2. TRUE \in BOOLEAN /\ FALSE \in BOOLEAN
    OBVIOUS
  <2>. QED  BY <2>1, <2>2 DEF MediumRecord
<1>5. timer \in Timers /\ counter \in [Edcafs -> Draws]
  BY DEF Init, Timers
<1>6. receiving = FALSE /\ receiving \in BOOLEAN
  BY Zenon DEF Init
<1>7. Manager \in Managers /\ Manager.edcaf = edcaf
  BY <1>3, <1>4, <1>5 DEF Manager, Managers
<1>8. Granted(Manager) = {}
  BY <1>3, <1>7 DEF Granted
<1>9. Sound(Manager, receiving)
  BY <1>6, <1>7, <1>8 DEF Sound
<1>10. HasTimer(Manager)
  BY <1>3, <1>7 DEF HasTimer
<1>. QED  BY <1>6, <1>9, <1>10 DEF IInv

\* Every step preserves the invariant.
LEMMA NextIInv == IInv /\ [Next]_vars => IInv'
<1>. SUFFICES ASSUME IInv, [Next]_vars PROVE IInv'
  OBVIOUS
<1>1. CASE UNCHANGED vars
  BY <1>1 DEF IInv, Sound, Held, HasTimer, Granted, Manager, vars
<1>2. CASE Tick
  BY <1>2, TickIInv
<1>3. ASSUME NEW d \in BusyTimes,
             NotifyRxStartNow(d) \/ NotifyCcaBusyStartNow(d) \/ NotifyNavStartNow(d)
      PROVE  IInv'
  BY <1>3, NotifyRxStartIInv, CcaBusyStartIInv, NavStartIInv
<1>4. CASE CcaReset \/ NotifyNavResetNow \/ AccessTimeout
  BY <1>4, CcaResetIInv, NavResetIInv, AccessTimeoutIInv
<1>5. ASSUME NEW a \in Edcafs, Expire(a) PROVE IInv'
  BY <1>5, ExpireIInv
<1>6. ASSUME NEW n \in Draws, ResponseTimeout(n) \/ NotifyRxEndErrorNow(n) PROVE IInv'
  BY <1>6, ResponseTimeoutIInv, RxEndIInv DEF NotifyRxEndErrorNow
<1>7. ASSUME NEW n \in Draws, NEW isAck \in BOOLEAN, NotifyRxEndOkNow(isAck, n) PROVE IInv'
  BY <1>7, RxEndIInv DEF NotifyRxEndOkNow
<1>8. ASSUME NEW n \in Draws, NEW a \in Edcafs, Queue(a, n) PROVE IInv'
  BY <1>8, QueueIInv
<1>9. ASSUME NEW n \in Draws, NEW sent \in BOOLEAN, TransmissionDone(sent, n) PROVE IInv'
  BY <1>9, TransmissionDoneIInv
<1>. QED  BY <1>1, <1>2, <1>3, <1>4, <1>5, <1>6, <1>7, <1>8, <1>9 DEF Next

\* Every variable keeps to its type: among others the frames of an EDCAF are never
\* below 0 and the lazy countdown takes no more slots than there are.
THEOREM TypeCorrect == Spec => []TypeOK
<1>. QED  BY InitIInv, NextIInv, IInvImplies, PTL DEF Spec

\* At most one EDCAF of the link holds a TXOP, whatever ends or is reset in the
\* gaps of a frame exchange (NotifyAckTimeoutStartNow, DoGrantDcfAccess).
THEOREM AtMostOneHolder == Spec => []OneHolder
<1>. QED  BY InitIInv, NextIInv, IInvImplies, PTL DEF Spec

\* An EDCAF that requested access and does not have it has an access timeout ahead
\* (DoRestartAccessTimeoutIfNeeded).
THEOREM RequestsKeepTimer == Spec => []NoLostRequest
<1>. QED  BY InitIInv, NextIInv, IInvImplies, PTL DEF Spec
=============================================================================
