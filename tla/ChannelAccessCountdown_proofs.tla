-------------------- MODULE ChannelAccessCountdown_proofs --------------------
(***************************************************************************)
(* The lazy countdown of ChannelAccess is exact: for any number of EDCAFs, *)
(* every AIFSN, SIFS, slot time and EIFS, and busy periods of any duration *)
(* that begin, end and are reset at any time.  It skips slots only where a *)
(* transmission of this station cuts an EIFS short, and from what is left  *)
(* then the countdown is exact again.                                      *)
(***************************************************************************)
EXTENDS ChannelAccess_proofs

(***************************************************************************)
(* Slots.  Of a backoff of n slots that starts at s, Passed(s) slots are   *)
(* over now, the one at the end of the AIFS included.                      *)
(***************************************************************************)
Passed(s) == IF s > 0 THEN 0 ELSE (-s) \div Slot + 1
Left(s, n) == IF Passed(s) <= n THEN n - Passed(s) ELSE 0

\* More slots take longer.
LEMMA SlotsMonotone ==
  ASSUME NEW i \in Int, NEW j \in Int, i <= j
  PROVE  i * Slot <= j * Slot /\ (i < j => i * Slot + Slot <= j * Slot)
<1>1. Slot \in Nat /\ Slot > 0
  BY ChannelAccessAssumption
<1>2. \A k \in Nat : (i + k) * Slot = i * Slot + k * Slot /\ k * Slot >= 0
  BY <1>1
<1>3. \A k \in Nat : (i + 1 + k) * Slot = i * Slot + Slot + k * Slot
  BY <1>1
<1>4. i * Slot <= j * Slot
  <2>1. j - i \in Nat /\ i + (j - i) = j
    OBVIOUS
  <2>2. j * Slot = i * Slot + (j - i) * Slot /\ (j - i) * Slot >= 0
    BY <1>2, <2>1
  <2>3. i * Slot \in Int /\ j * Slot \in Int /\ (j - i) * Slot \in Int
    BY <1>1
  <2>. QED  BY <2>2, <2>3
<1>5. ASSUME i < j PROVE i * Slot + Slot <= j * Slot
  <2>1. j - i - 1 \in Nat /\ i + 1 + (j - i - 1) = j
    BY <1>5
  <2>2. j * Slot = i * Slot + Slot + (j - i - 1) * Slot /\ (j - i - 1) * Slot >= 0
    BY <1>2, <1>3, <2>1
  <2>3. i * Slot \in Int /\ j * Slot \in Int /\ (j - i - 1) * Slot \in Int
    BY <1>1
  <2>. QED  BY <1>1, <2>2, <2>3
<1>. QED  BY <1>4, <1>5

\* Slots add up.
LEMMA SlotsAdd ==
  ASSUME NEW i \in Int, NEW j \in Int
  PROVE  /\ (i + j) * Slot = i * Slot + j * Slot /\ (i - j) * Slot = i * Slot - j * Slot
         /\ i * Slot \in Int /\ j * Slot \in Int /\ 0 * Slot = 0 /\ 1 * Slot = Slot
BY ChannelAccessAssumption

\* The next slot boundary after the slots that passed is less than a slot ahead.
LEMMA PassedIs ==
  ASSUME NEW s \in Int
  PROVE  /\ Passed(s) \in Nat
         /\ s + Passed(s) * Slot > 0
         /\ Passed(s) > 0 => s <= 0 /\ s + Passed(s) * Slot <= Slot
         /\ s <= 0 => Passed(s) > 0
<1>1. Slot \in Nat /\ Slot > 0
  BY ChannelAccessAssumption
<1>2. CASE s > 0
  <2>1. Passed(s) = 0
    BY <1>2 DEF Passed
  <2>2. 0 * Slot = 0
    BY <1>1
  <2>. QED  BY <1>2, <2>1, <2>2
<1>3. CASE ~(s > 0)
  <2>. DEFINE q == (-s) \div Slot
              t == -s
  <2>1. t \in Nat
    BY <1>3
  <2>. HIDE DEF t
  <2>2. /\ t \div Slot \in Nat /\ (t \div Slot) * Slot <= t
        /\ t < (t \div Slot) * Slot + Slot
    <3>1. t = Slot * (t \div Slot) + (t % Slot)
      BY <1>1, <2>1
    <3>2. t % Slot \in Nat /\ t % Slot < Slot /\ t \div Slot \in Nat
      BY <1>1, <2>1
    <3>. QED  BY <1>1, <2>1, <3>1, <3>2
  <2>3. q = t \div Slot
    BY DEF t
  <2>. HIDE DEF q
  <2>4. Passed(s) = q + 1
    BY <1>3 DEF Passed, q
  <2>5. q \in Nat /\ (q + 1) * Slot = q * Slot + Slot /\ q * Slot \in Int
    BY <1>1, <2>2, <2>3
  <2>6. q * Slot <= -s /\ -s < q * Slot + Slot
    BY <2>2, <2>3 DEF t
  <2>. QED  BY <1>1, <1>3, <2>4, <2>5, <2>6
<1>. QED  BY <1>2, <1>3

\* And there is no other number of slots for which it is.
LEMMA PassedUnique ==
  ASSUME NEW s \in Int, s <= 0, NEW p \in Int,
         s + p * Slot > 0, s + p * Slot <= Slot
  PROVE  Passed(s) = p
<1>. DEFINE r == Passed(s)
<1>1. /\ r \in Nat /\ s + r * Slot > 0 /\ s + r * Slot <= Slot
  BY PassedIs
<1>. HIDE DEF r
<1>2. p * Slot \in Int /\ r * Slot \in Int /\ Slot \in Nat
  BY <1>1, ChannelAccessAssumption
<1>3. ~(p < r)
  BY <1>1, <1>2, SlotsMonotone
<1>4. ~(r < p)
  BY <1>1, <1>2, SlotsMonotone
<1>. QED  BY <1>1, <1>3, <1>4 DEF r

----------------------------------------------------------------------------
(***************************************************************************)
(* One backoff, as numbers: aifs is the end of the AIFS, start where the   *)
(* backoff starts if that is later, n the slots that it had left when it   *)
(* was brought up to date last, and c those that are left now.             *)
(***************************************************************************)
Later(start, aifs) == Max({start, aifs})

\* A backoff that is not over starts at most one slot ahead.  If it starts after
\* the AIFS, it starts at a slot boundary, and the slots between the AIFS and its
\* end are not more than a backoff is drawn from.
OnSlot(start, aifs, n) ==
  n > 0 => /\ start <= Slot
           /\ start > aifs => \E k \in Nat : start = aifs + k * Slot /\ k + n <= MaxBackoff
Exact(start, aifs, n, c) == OnSlot(start, aifs, n) /\ Left(Later(start, aifs), n) = c

\* Slots that are left.
LEMMA LeftIs ==
  ASSUME NEW s \in Int, NEW n \in Draws
  PROVE  /\ n \in Nat /\ n <= MaxBackoff /\ Left(s, n) \in Nat
         /\ s > 0 => Left(s, n) = n
         /\ n = 0 => Left(s, n) = 0
         /\ Left(s, n) > 0 => Left(s, n) = n - Passed(s) /\ Passed(s) < n
         /\ s + n * Slot <= 0 => Left(s, n) = 0
<1>1. n \in Nat /\ n <= MaxBackoff
  BY ChannelAccessAssumption DEF Draws
<1>. DEFINE p == Passed(s)
<1>2. p \in Nat /\ s + p * Slot > 0 /\ (p > 0 => s <= 0)
  BY PassedIs
<1>3. Left(s, n) = IF p <= n THEN n - p ELSE 0
  BY DEF Left
<1>4. ASSUME s + n * Slot <= 0 PROVE ~(p < n) /\ p # n
  <2>1. n * Slot \in Int /\ p * Slot \in Int /\ Slot \in Nat
    BY <1>1, <1>2, ChannelAccessAssumption
  <2>2. ~(p <= n)
    <3>1. p <= n => p * Slot <= n * Slot
      BY <1>1, <1>2, SlotsMonotone
    <3>. HIDE DEF p
    <3>. QED  BY <1>2, <1>4, <2>1, <3>1
  <2>. QED  BY <1>1, <1>2, <2>2
<1>. HIDE DEF p
<1>5. Left(s, n) \in Nat /\ (n = 0 => Left(s, n) = 0) /\ (s > 0 => Left(s, n) = n)
  BY <1>1, <1>2, <1>3
<1>6. Left(s, n) > 0 => Left(s, n) = n - p /\ p < n
  BY <1>1, <1>2, <1>3
<1>7. s + n * Slot <= 0 => Left(s, n) = 0
  BY <1>1, <1>2, <1>3, <1>4
<1>. QED  BY <1>1, <1>5, <1>6, <1>7 DEF p

\* Where the backoff starts.
LEMMA LaterIs ==
  ASSUME NEW start \in Int, NEW aifs \in Int
  PROVE  /\ Later(start, aifs) \in Int
         /\ start > aifs => Later(start, aifs) = start
         /\ start <= aifs => Later(start, aifs) = aifs
         /\ Later(start, aifs) >= aifs
<1>. DEFINE m == Max({start, aifs})
<1>1. /\ m \in Int /\ m >= start /\ m >= aifs
      /\ m = start \/ m = aifs
  BY MaxOfTwo
<1>. HIDE DEF m
<1>2. m \in Int /\ m >= aifs /\ (start > aifs => m = start) /\ (start <= aifs => m = aifs)
  BY <1>1
<1>. QED  BY <1>2 DEF Later, m

\* A backoff that is up to date, while access is not granted before a slot.
LEMMA ExactWhenBusy ==
  ASSUME NEW start \in Int, NEW aifs \in Int, NEW n \in Draws, aifs > Slot
  PROVE  /\ (n > 0 => start <= Slot) => Exact(start, aifs, n, n)
         /\ \A c : Exact(start, aifs, n, c) => c = n
<1>0. Slot \in Nat /\ n \in Nat
  BY ChannelAccessAssumption DEF Draws
<1>1. CASE n = 0
  <2>1. Left(Later(start, aifs), n) = 0
    BY <1>1, LaterIs, LeftIs
  <2>. QED  BY <1>0, <1>1, <2>1 DEF Exact, OnSlot
<1>2. CASE n > 0
  <2>1. ASSUME start <= Slot PROVE Later(start, aifs) = aifs /\ aifs > 0 /\ ~(start > aifs)
    BY <1>0, <2>1, LaterIs
  <2>2. ASSUME start <= Slot PROVE Left(Later(start, aifs), n) = n
    BY <2>1, <2>2, LeftIs
  <2>. QED  BY <1>2, <2>1, <2>2 DEF Exact, OnSlot
<1>. QED  BY <1>0, <1>1, <1>2

\* The slots from the end of the AIFS to the start of a backoff that is not over.
LEMMA SlotsFromAifs ==
  ASSUME NEW start \in Int, NEW aifs \in Int, NEW n \in Draws, n > 0, OnSlot(start, aifs, n)
  PROVE  \E k \in Nat : Later(start, aifs) = aifs + k * Slot /\ k + n <= MaxBackoff
<1>1. n \in Nat /\ n <= MaxBackoff
  BY LeftIs, 0 \in Int
<1>2. CASE start > aifs
  BY <1>2, LaterIs DEF OnSlot
<1>3. CASE start <= aifs
  <2>1. Later(start, aifs) = aifs + 0 * Slot
    BY <1>3, LaterIs, SlotsAdd
  <2>2. 0 \in Nat /\ 0 + n <= MaxBackoff
    BY <1>1
  <2>. QED  BY <2>1, <2>2
<1>. QED  BY <1>2, <1>3

\* Bringing a backoff up to date changes nothing but the bookkeeping.
LEMMA ExactUpdate ==
  ASSUME NEW start \in Int, NEW aifs \in Int, NEW n \in Draws, NEW c \in Draws,
         Exact(start, aifs, n, c), Later(start, aifs) <= 0,
         NEW taken \in Int, taken = Min({Passed(Later(start, aifs)), n})
  PROVE  /\ n - taken = c
         /\ Exact(Later(start, aifs) + taken * Slot, aifs, n - taken, c)
         /\ n - taken > 0 => Later(start, aifs) + taken * Slot <= Slot
<1>. DEFINE s == Later(start, aifs)
            p == Passed(s)
            t == s + taken * Slot
<1>0. s \in Int /\ s >= aifs /\ s <= 0
  BY LaterIs
<1>1. /\ p \in Nat /\ s + p * Slot > 0 /\ p > 0 /\ s + p * Slot <= Slot
      /\ p * Slot \in Int /\ taken * Slot \in Int
  <2>. HIDE DEF s
  <2>1. p \in Nat /\ s + p * Slot > 0 /\ p > 0 /\ s + p * Slot <= Slot
    BY <1>0, PassedIs
  <2>2. \A i \in Int : i * Slot \in Int
    BY ChannelAccessAssumption
  <2>. HIDE DEF p
  <2>. QED  BY <2>1, <2>2
<1>2. n \in Nat /\ Left(s, n) \in Nat
  BY <1>0, LeftIs
<1>3. taken = Min({p, n})
  OBVIOUS
<1>4. OnSlot(start, aifs, n) /\ Left(s, n) = c
  BY DEF Exact
<1>5. Left(s, n) = IF p <= n THEN n - p ELSE 0
  BY DEF Left
<1>6. c > 0 => Left(s, n) = n - p /\ p < n
  <2>. HIDE DEF p, s
  <2>. QED  BY <1>1, <1>2, <1>4, <1>5
<1>7. c > 0 => \E k \in Nat : s = aifs + k * Slot /\ k + n <= MaxBackoff
  <2>1. c > 0 => n > 0
    <3>. HIDE DEF p, s
    <3>. QED  BY <1>1, <1>2, <1>6
  <2>. QED  BY <1>4, <2>1, SlotsFromAifs
<1>. HIDE DEF s, p
<1>8. taken = IF p <= n THEN p ELSE n
  <2>1. p \in Int /\ n \in Int
    BY <1>1, <1>2
  <2>2. Min({p, n}) <= p /\ Min({p, n}) <= n /\ (Min({p, n}) = p \/ Min({p, n}) = n)
    BY <2>1, MaxOfTwo
  <2>. QED  BY <1>1, <1>2, <1>3, <2>2
<1>9. n - taken = c
  BY <1>1, <1>2, <1>4, <1>5, <1>8
<1>10. t \in Int
  BY <1>0, <1>1
<1>11. c = 0 => Exact(t, aifs, c, c)
  <2>. HIDE DEF t
  <2>1. c = 0 => Left(Later(t, aifs), c) = 0
    BY <1>10, LaterIs, LeftIs
  <2>. QED  BY <1>2, <1>4, <2>1 DEF Exact, OnSlot
<1>12. c > 0 => t <= Slot
  BY <1>1, <1>2, <1>6, <1>8
<1>13. ASSUME c > 0 PROVE Exact(t, aifs, c, c)
  <2>1. p < n /\ taken = p /\ c = n - p /\ c \in Nat /\ n > 0
    BY <1>1, <1>2, <1>4, <1>6, <1>8, <1>13
  <2>2. PICK k \in Nat : s = aifs + k * Slot /\ k + n <= MaxBackoff
    BY <1>7, <1>13
  <2>3. t > 0 /\ t <= Slot
    BY <1>0, <1>1, <2>1
  <2>4. t > aifs
    BY <1>0, <1>10, <2>3
  <2>5. t = aifs + (k + p) * Slot /\ (k + p) + c <= MaxBackoff /\ k + p \in Nat
    <3>0. k \in Int /\ p \in Int
      BY <1>1
    <3>1. (k + p) * Slot = k * Slot + p * Slot /\ k * Slot \in Int
      BY <3>0, SlotsAdd
    <3>2. (k + p) + c = k + n /\ k + p \in Nat
      BY <1>1, <1>2, <2>1
    <3>. QED  BY <1>1, <2>1, <2>2, <3>1, <3>2
  <2>. HIDE DEF t
  <2>6. Left(Later(t, aifs), c) = c
    BY <1>10, <2>3, <2>4, LaterIs, LeftIs
  <2>7. OnSlot(t, aifs, c)
    BY <2>1, <2>3, <2>5 DEF OnSlot
  <2>. QED  BY <2>6, <2>7 DEF Exact
<1>14. Exact(t, aifs, c, c)
  BY <1>2, <1>4, <1>11, <1>13
<1>. QED  BY <1>9, <1>12, <1>14 DEF s, t

----------------------------------------------------------------------------
(***************************************************************************)
(* Time passes for one backoff.                                            *)
(***************************************************************************)
\* A slot boundary is a number of slots after the end of the AIFS.
LEMMA BoundaryIs ==
  ASSUME NEW aifs \in Int
  PROVE  1 >= aifs /\ (1 - aifs) % Slot = 0 <=> \E j \in Nat : 1 = aifs + j * Slot
<1>. DEFINE t == 1 - aifs
<1>1. Slot \in Nat /\ Slot > 0
  BY ChannelAccessAssumption
<1>2. t \in Int /\ (t >= 0 <=> 1 >= aifs)
  OBVIOUS
<1>. HIDE DEF t
<1>3. ASSUME t >= 0
      PROVE  \E q, r \in Nat : r < Slot /\ t = q * Slot + r /\ r = t % Slot
  <2>1. t \in Nat
    BY <1>2, <1>3
  <2>2. t = Slot * (t \div Slot) + (t % Slot)
    BY <1>1, <2>1
  <2>3. t % Slot \in Nat /\ t % Slot < Slot /\ t \div Slot \in Nat
    BY <1>1, <2>1
  <2>. DEFINE q == t \div Slot
              r == t % Slot
  <2>4. t = Slot * q + r /\ q \in Nat /\ r \in Nat /\ r < Slot /\ r = t % Slot
    BY <2>2, <2>3
  <2>. HIDE DEF q, r
  <2>5. Slot * q = q * Slot
    BY <1>1, <2>4
  <2>. QED  BY <2>4, <2>5
<1>4. ASSUME t >= 0, t % Slot = 0 PROVE \E j \in Nat : t = j * Slot
  <2>1. PICK q, r \in Nat : r < Slot /\ t = q * Slot + r /\ r = t % Slot
    BY <1>3, <1>4
  <2>2. q * Slot \in Int
    BY <1>1
  <2>3. t = q * Slot
    BY <1>4, <2>1, <2>2
  <2>. QED  BY <2>3
<1>5. ASSUME NEW j \in Nat, t = j * Slot PROVE t >= 0 /\ t % Slot = 0
  <2>1. t >= 0
    BY <1>1, <1>5
  <2>2. PICK q, r \in Nat : r < Slot /\ t = q * Slot + r /\ r = t % Slot
    BY <1>3, <2>1
  <2>3. q * Slot \in Int /\ j * Slot \in Int
    BY <1>1, <2>2
  <2>4. ~(q < j)
    <3>1. q < j => q * Slot + Slot <= j * Slot
      BY <2>2, SlotsMonotone
    <3>. QED  BY <1>1, <1>5, <2>2, <2>3, <3>1
  <2>5. j <= q => j * Slot <= q * Slot
    BY <2>2, SlotsMonotone
  <2>6. r = 0
    BY <1>5, <2>2, <2>3, <2>4, <2>5
  <2>. QED  BY <2>1, <2>2, <2>6
<1>6. (1 >= aifs /\ t % Slot = 0) <=> \E j \in Nat : t = j * Slot
  BY <1>2, <1>4, <1>5
<1>7. \A j \in Nat : t = j * Slot <=> 1 = aifs + j * Slot
  <2>1. \A j \in Nat : j * Slot \in Int
    BY <1>1
  <2>. QED  BY <2>1 DEF t
<1>. QED  BY <1>6, <1>7 DEF t

\* One unit of time.
LEMMA ExactTick ==
  ASSUME NEW start \in Int, NEW aifs \in Int, NEW n \in Draws, NEW c \in Draws,
         Exact(start, aifs, n, c),
         NEW start2 \in Int, start > aifs => start2 = start - 1,
         start <= aifs => start2 <= aifs - 1, start <= Slot => start2 <= Slot,
         NEW c2, c2 = IF c > 0 /\ 1 >= aifs /\ (1 - aifs) % Slot = 0 THEN c - 1 ELSE c
  PROVE  Exact(start2, aifs - 1, n, c2)
<1>. DEFINE s == Later(start, aifs)
            s2 == Later(start2, aifs - 1)
            p == Passed(s)
            B == \E j \in Nat : 1 = aifs + j * Slot
<1>1. s \in Int /\ s >= aifs /\ (start > aifs => s = start) /\ (start <= aifs => s = aifs)
  BY LaterIs
<1>2. s2 = s - 1
  <2>0. aifs - 1 \in Int
    OBVIOUS
  <2>1. /\ start2 > aifs - 1 => s2 = start2
        /\ start2 <= aifs - 1 => s2 = aifs - 1
    BY <2>0, LaterIs
  <2>. HIDE DEF s, s2
  <2>. QED  BY <1>1, <2>1
<1>3. Left(s, n) = c /\ OnSlot(start, aifs, n)
  BY DEF Exact
<1>4. n > 0 => \E k \in Nat : s = aifs + k * Slot /\ k + n <= MaxBackoff
  BY <1>3, SlotsFromAifs
<1>5. p \in Nat /\ s + p * Slot > 0 /\ (p > 0 => s <= 0 /\ s + p * Slot <= Slot) /\ (s <= 0 => p > 0)
  BY <1>1, PassedIs
<1>6. Left(s, n) = IF p <= n THEN n - p ELSE 0
  BY DEF Left
<1>7. c2 = IF c > 0 /\ B THEN c - 1 ELSE c
  BY BoundaryIs, Zenon
<1>8. n \in Nat /\ c \in Nat /\ Slot \in Nat /\ Slot > 0 /\ \A i \in Int : i * Slot \in Int
  BY ChannelAccessAssumption DEF Draws
<1>9. Exact(start2, aifs - 1, n, c2) <=> OnSlot(start2, aifs - 1, n) /\ Left(s2, n) = c2
  BY DEF Exact
<1>. HIDE DEF s, s2, p, B
<1>10. CASE n = 0
  <2>1. Left(s - 1, n) = 0
    BY <1>1, <1>10, LeftIs
  <2>2. c2 = 0
    BY <1>3, <1>5, <1>6, <1>7, <1>8, <1>10
  <2>. QED  BY <1>2, <1>9, <1>10, <2>1, <2>2 DEF OnSlot
<1>11. CASE n > 0
  <2>1. PICK k \in Nat : s = aifs + k * Slot /\ k + n <= MaxBackoff
    BY <1>4, <1>11
  <2>2. k * Slot \in Int /\ p * Slot \in Int
    BY <1>5, <1>8
  <2>3. OnSlot(start2, aifs - 1, n)
    <3>1. start <= Slot
      BY <1>3, <1>11 DEF OnSlot
    <3>2. start2 > aifs - 1 => start2 = (aifs - 1) + k * Slot
      BY <1>1, <2>1, <2>2
    <3>. QED  BY <2>1, <3>1, <3>2 DEF OnSlot
  <2>4. B => s + p * Slot = 1
    <3>. SUFFICES ASSUME NEW j \in Nat, 1 = aifs + j * Slot PROVE s + p * Slot = 1
      BY DEF B
    <3>0. j * Slot \in Int
      BY <1>8
    <3>1. start <= Slot
      BY <1>3, <1>11 DEF OnSlot
    <3>2. (k + p) * Slot = k * Slot + p * Slot /\ k + p \in Int
      BY <1>5, SlotsAdd
    <3>3. s + p * Slot - 1 = (k + p) * Slot - j * Slot
      BY <2>1, <2>2, <3>0, <3>2
    <3>4. s + p * Slot <= Slot
      <4>1. CASE p > 0
        BY <1>5, <4>1
      <4>2. CASE p = 0
        <5>1. 0 * Slot = 0
          BY <1>8
        <5>2. s > 0
          BY <1>1, <1>5, <4>2
        <5>3. aifs <= 1
          <6>1. j * Slot >= 0
            BY <1>8
          <6>. QED  BY <3>0, <6>1
        <5>4. s <= Slot
          BY <1>1, <1>8, <3>1, <5>3
        <5>. QED  BY <1>1, <4>2, <5>1, <5>4
      <4>. QED  BY <1>5, <4>1, <4>2
    <3>5. ~(k + p < j)
      <4>1. k + p < j => (k + p) * Slot + Slot <= j * Slot
        BY <3>2, SlotsMonotone
      <4>. QED  BY <1>1, <1>5, <1>8, <2>2, <3>0, <3>2, <3>3, <4>1
    <3>6. ~(j < k + p)
      <4>1. j < k + p => j * Slot + Slot <= (k + p) * Slot
        BY <3>2, SlotsMonotone
      <4>. QED  BY <1>1, <1>8, <2>2, <3>0, <3>2, <3>3, <3>4, <4>1
    <3>7. k + p = j
      BY <3>2, <3>5, <3>6
    <3>. QED  BY <1>1, <2>2, <3>0, <3>2, <3>3, <3>7
  <2>5. s + p * Slot = 1 => B
    <3>1. (k + p) * Slot = k * Slot + p * Slot /\ k + p \in Nat
      BY <1>5, SlotsAdd
    <3>2. s + p * Slot = 1 => 1 = aifs + (k + p) * Slot
      BY <2>1, <2>2, <3>1
    <3>. QED  BY <3>1, <3>2 DEF B
  <2>6. Passed(s - 1) = IF B THEN p + 1 ELSE p
    <3>1. CASE B
      <4>1. s + p * Slot = 1
        BY <2>4, <3>1
      <4>2. (p + 1) * Slot = p * Slot + Slot
        BY <1>5, <1>8
      <4>3. s - 1 <= 0
        BY <1>1, <1>5, <1>8, <2>2, <4>1
      <4>4. (s - 1) + (p + 1) * Slot > 0 /\ (s - 1) + (p + 1) * Slot <= Slot
        BY <1>1, <1>8, <2>2, <4>1, <4>2
      <4>5. s - 1 \in Int /\ p + 1 \in Int
        BY <1>1, <1>5
      <4>6. Passed(s - 1) = p + 1
        BY <4>3, <4>4, <4>5, PassedUnique
      <4>. QED  BY <3>1, <4>6
    <3>2. CASE ~B
      <4>1. s + p * Slot # 1
        BY <2>5, <3>2
      <4>2. CASE s - 1 > 0
        <5>1. Passed(s - 1) = 0 /\ p = 0
          BY <1>1, <1>5, <4>2 DEF Passed
        <5>. QED  BY <3>2, <5>1
      <4>3. CASE ~(s - 1 > 0)
        <5>1. p > 0
          <6>1. 0 * Slot = 0
            BY <1>8
          <6>2. p = 0 => s + p * Slot = s
            BY <1>1, <6>1
          <6>. QED  BY <1>1, <1>5, <4>1, <4>3, <6>2
        <5>2. (s - 1) + p * Slot > 0 /\ (s - 1) + p * Slot <= Slot /\ s - 1 <= 0
          BY <1>1, <1>5, <1>8, <2>2, <4>1, <4>3, <5>1
        <5>3. s - 1 \in Int /\ p \in Int
          BY <1>1, <1>5
        <5>4. Passed(s - 1) = p
          BY <5>2, <5>3, PassedUnique
        <5>. QED  BY <3>2, <5>4
      <4>. QED  BY <4>2, <4>3
    <3>. QED  BY <3>1, <3>2
  <2>7. Left(s - 1, n) = c2
    <3>1. CASE B
      <4>1. Left(s - 1, n) = IF p + 1 <= n THEN n - (p + 1) ELSE 0
        BY <2>6, <3>1 DEF Left
      <4>. QED  BY <1>3, <1>5, <1>6, <1>7, <1>8, <3>1, <4>1
    <3>2. CASE ~B
      <4>1. Left(s - 1, n) = IF p <= n THEN n - p ELSE 0
        BY <2>6, <3>2 DEF Left
      <4>. QED  BY <1>3, <1>6, <1>7, <3>2, <4>1
    <3>. QED  BY <3>1, <3>2
  <2>. QED  BY <1>2, <1>9, <2>3, <2>7
<1>. QED  BY <1>8, <1>10, <1>11

\* When every backoff is over, times age by whole slots.
LEMMA ExactOld ==
  ASSUME NEW start \in Int, NEW aifs \in Int, NEW n \in Draws, NEW c \in Draws,
         Exact(start, aifs, n, c), aifs + (2 + MaxBackoff) * Slot <= 0,
         NEW start2 \in Int, start > aifs => start2 = start + (Slot - 1),
         start <= aifs => start2 <= aifs + (Slot - 1)
  PROVE  c = 0 /\ Exact(start2, aifs + (Slot - 1), n, 0)
<1>. DEFINE s == Later(start, aifs)
            aifs2 == aifs + (Slot - 1)
            s2 == Later(start2, aifs2)
<1>0. /\ n \in Nat /\ MaxBackoff \in Nat /\ Slot \in Nat /\ Slot > 0
      /\ \A i \in Int : i * Slot \in Int
  BY ChannelAccessAssumption DEF Draws
<1>1. s \in Int /\ (start > aifs => s = start) /\ (start <= aifs => s = aifs)
  BY LaterIs
<1>2. aifs2 \in Int
  BY <1>0
<1>3. /\ s2 \in Int /\ (start2 > aifs2 => s2 = start2) /\ (start2 <= aifs2 => s2 = aifs2)
  BY <1>2, LaterIs
<1>4. Left(s, n) = c /\ OnSlot(start, aifs, n)
  BY DEF Exact
<1>5. n > 0 => \E k \in Nat : s = aifs + k * Slot /\ k + n <= MaxBackoff
  BY <1>4, SlotsFromAifs
<1>6. Exact(start2, aifs2, n, 0) <=> OnSlot(start2, aifs2, n) /\ Left(s2, n) = 0
  BY DEF Exact
<1>. HIDE DEF s, s2
<1>7. s2 = s + (Slot - 1)
  BY <1>0, <1>1, <1>3
<1>. HIDE DEF aifs2
<1>8. CASE n = 0
  <2>1. Left(s, n) = 0 /\ Left(s2, n) = 0
    BY <1>1, <1>3, <1>8, LeftIs
  <2>. QED  BY <1>4, <1>6, <1>8, <2>1 DEF OnSlot, aifs2
<1>9. CASE n > 0
  <2>1. PICK k \in Nat : s = aifs + k * Slot /\ k + n <= MaxBackoff
    BY <1>5, <1>9
  <2>2. /\ (k + n) * Slot = k * Slot + n * Slot
        /\ (2 + MaxBackoff) * Slot = 2 * Slot + MaxBackoff * Slot
        /\ k * Slot \in Int /\ n * Slot \in Int /\ MaxBackoff * Slot \in Int
        /\ k * Slot >= 0 /\ n * Slot >= 0
    BY <1>0
  <2>3. (k + n) * Slot <= MaxBackoff * Slot
    <3>1. k + n \in Int /\ MaxBackoff \in Int
      BY <1>0
    <3>. QED  BY <2>1, <3>1, SlotsMonotone
  <2>4. s + n * Slot <= 0 /\ s2 + n * Slot <= 0
    BY <1>0, <1>1, <1>7, <2>1, <2>2, <2>3
  <2>5. Left(s, n) = 0 /\ Left(s2, n) = 0
    BY <1>1, <1>3, <2>4, LeftIs
  <2>6. OnSlot(start2, aifs2, n)
    <3>1. start2 <= Slot
      BY <1>0, <1>2, <1>3, <2>2, <2>4
    <3>2. start2 > aifs2 => start2 = aifs2 + k * Slot
      <4>1. ASSUME start2 > aifs2 PROVE start > aifs
        BY <1>0, <4>1 DEF aifs2
      <4>2. ASSUME start2 > aifs2 PROVE start2 = s + (Slot - 1)
        BY <1>1, <4>1, <4>2
      <4>. QED  BY <1>0, <2>1, <2>2, <4>2 DEF aifs2
    <3>. QED  BY <2>1, <3>1, <3>2 DEF OnSlot
  <2>. QED  BY <1>4, <1>6, <2>5, <2>6 DEF aifs2
<1>. QED  BY <1>0, <1>8, <1>9

----------------------------------------------------------------------------
(***************************************************************************)
(* The backoffs of a manager.                                              *)
(***************************************************************************)
\* What is left of every backoff is what the reference countdown says.
ExactFor(m, a) == Exact(m.edcaf[a].start, AifsEnd(m, a), m.edcaf[a].slots, m.counter[a])
AllExact(m) == \A a \in Edcafs : ExactFor(m, a)

\* Every backoff is up to date.
Counted(m) ==
  \A a \in Edcafs :
    m.edcaf[a].slots = m.counter[a] /\ (m.edcaf[a].slots > 0 => m.edcaf[a].start <= Slot)

\* The backoffs are the same.
SameBackoffs(m, r) ==
  \A a \in Edcafs :
    /\ r.edcaf[a].slots = m.edcaf[a].slots /\ r.edcaf[a].start = m.edcaf[a].start
    /\ r.counter[a] = m.counter[a]

\* What is known of the last reception: while one goes on it has not failed, and one
\* that is over is kept as far as it matters.
RxKnown(m, rx) ==
  /\ rx => m.medium.rxOk
  /\ m.medium.rxEnd > 0 => rx
  /\ m.medium.rxEnd >= Oldest

\* The inductive invariant, beside that of ChannelAccess_proofs.
Countdown == AllExact(Manager) /\ RxKnown(Manager, receiving)

\* The types that the lemmas about one backoff ask for.
LEMMA BackoffFields ==
  ASSUME NEW m \in Managers, NEW a \in Edcafs
  PROVE  /\ m.edcaf[a].start \in Int /\ m.edcaf[a].slots \in Draws /\ m.edcaf[a].slots \in Nat
         /\ m.counter[a] \in Draws /\ m.counter[a] \in Nat
         /\ AifsEnd(m, a) \in Int /\ Slot \in Nat /\ Slot > 0
         /\ BackoffStart(m, a) = Later(m.edcaf[a].start, AifsEnd(m, a))
         /\ BackoffStart(m, a) \in Int
<1>1. m.counter[a] \in Draws /\ m.counter[a] \in Nat
  BY ManagerFields, ChannelAccessAssumption DEF Draws
<1>2. /\ m.edcaf[a].start \in Int /\ m.edcaf[a].slots \in Draws /\ m.edcaf[a].slots \in Nat
  BY ManagerFields
<1>3. AifsEnd(m, a) \in Int /\ BackoffStart(m, a) \in Int
  BY BackoffTimes
<1>4. BackoffStart(m, a) = Later(m.edcaf[a].start, AifsEnd(m, a))
  BY DEF BackoffStart, Later
<1>5. Slot \in Nat /\ Slot > 0
  BY ChannelAccessAssumption
<1>. QED  BY <1>1, <1>2, <1>3, <1>4, <1>5

\* The backoffs stay exact as long as the busy periods are the same.
LEMMA SameBackoffsExact ==
  ASSUME NEW m, NEW r, SameBackoffs(m, r)
  PROVE  /\ Counted(m) => Counted(r)
         /\ r.medium = m.medium /\ AllExact(m) => AllExact(r)
<1>1. Counted(m) => Counted(r)
  BY DEF SameBackoffs, Counted
<1>2. ASSUME r.medium = m.medium, AllExact(m) PROVE AllExact(r)
  <2>1. \A a \in Edcafs : AifsEnd(r, a) = AifsEnd(m, a)
    BY <1>2 DEF AifsEnd, AccessGrantStart
  <2>. QED  BY <1>2, <2>1 DEF AllExact, ExactFor, SameBackoffs
<1>. QED  BY <1>1, <1>2

\* While nobody may be granted access, exact means up to date.
LEMMA ExactIsCounted ==
  ASSUME NEW m \in Managers, AccessGrantStart(m) > 0
  PROVE  AllExact(m) <=> Counted(m)
<1>1. ASSUME NEW a \in Edcafs
      PROVE  /\ AifsEnd(m, a) > Slot
             /\ m.edcaf[a].start \in Int /\ m.edcaf[a].slots \in Draws /\ m.counter[a] \in Draws
             /\ AifsEnd(m, a) \in Int
  <2>1. Aifsn[a] \in Int /\ 1 <= Aifsn[a] /\ 1 * Slot = Slot /\ Aifsn[a] * Slot \in Int
    BY ChannelAccessAssumption
  <2>2. 1 * Slot <= Aifsn[a] * Slot
    BY <2>1, SlotsMonotone
  <2>3. AccessGrantStart(m) \in Int /\ AifsEnd(m, a) = AccessGrantStart(m) + Aifsn[a] * Slot
    BY AccessGrantStartAfter DEF AifsEnd
  <2>. QED  BY <2>1, <2>2, <2>3, BackoffFields
<1>2. ASSUME NEW a \in Edcafs, ExactFor(m, a)
      PROVE  /\ m.edcaf[a].slots = m.counter[a]
             /\ m.edcaf[a].slots > 0 => m.edcaf[a].start <= Slot
  <2>1. m.counter[a] = m.edcaf[a].slots
    BY <1>1, <1>2, ExactWhenBusy DEF ExactFor
  <2>. QED  BY <1>2, <2>1 DEF ExactFor, Exact, OnSlot
<1>3. ASSUME NEW a \in Edcafs, m.edcaf[a].slots = m.counter[a],
             m.edcaf[a].slots > 0 => m.edcaf[a].start <= Slot
      PROVE  ExactFor(m, a)
  BY <1>1, <1>3, ExactWhenBusy DEF ExactFor
<1>. QED  BY <1>2, <1>3 DEF AllExact, Counted

\* What bringing the backoffs up to date does to one of them.
LEMMA UpdateBackoffIs ==
  ASSUME NEW m \in Managers, NEW a \in Edcafs
  PROVE  LET s == BackoffStart(m, a)
             n == Min({Passed(s), m.edcaf[a].slots})
             u == UpdateBackoff(m)
         IN /\ s <= 0 => /\ u.edcaf[a].slots = m.edcaf[a].slots - n
                         /\ u.edcaf[a].start = s + n * Slot
            /\ ~(s <= 0) => u.edcaf[a] = m.edcaf[a]
<1>. DEFINE start(b) == BackoffStart(m, b)
            n(b) == Min({(-start(b)) \div Slot + 1, m.edcaf[b].slots})
            new(b) == IF start(b) <= 0
                      THEN [m.edcaf[b] EXCEPT !.slots = m.edcaf[b].slots - n(b),
                                              !.start = start(b) + n(b) * Slot]
                      ELSE m.edcaf[b]
            u == UpdateBackoff(m)
<1>1. u = [m EXCEPT !.edcaf = [b \in Edcafs |-> new(b)]]
  BY DEF UpdateBackoff
<1>2. u.edcaf[a] = new(a)
  <2>. HIDE DEF new, u
  <2>. QED  BY <1>1 DEF Managers
<1>3. start(a) \in Int /\ m.edcaf[a] \in EdcafRecord
  BY BackoffFields, ManagerFields
<1>4. start(a) <= 0 => (-start(a)) \div Slot + 1 = Passed(start(a))
  <2>. DEFINE s == start(a)
  <2>1. s \in Int
    BY <1>3
  <2>. HIDE DEF s
  <2>2. s <= 0 => ~(s > 0)
    BY <2>1
  <2>3. s <= 0 => (-s) \div Slot + 1 = Passed(s)
    BY <2>2 DEF Passed
  <2>. QED  BY <2>3 DEF s
<1>5. ASSUME start(a) <= 0
      PROVE  /\ new(a).slots = m.edcaf[a].slots - n(a) /\ new(a).start = start(a) + n(a) * Slot
             /\ n(a) = Min({Passed(start(a)), m.edcaf[a].slots})
  <2>1. n(a) = Min({Passed(start(a)), m.edcaf[a].slots})
    BY <1>4, <1>5
  <2>2. new(a) = [m.edcaf[a] EXCEPT !.slots = m.edcaf[a].slots - n(a),
                                    !.start = start(a) + n(a) * Slot]
    BY <1>5
  <2>. HIDE DEF n, new, start
  <2>. QED  BY <1>3, <2>1, <2>2 DEF EdcafRecord
<1>6. ~(start(a) <= 0) => new(a) = m.edcaf[a]
  OBVIOUS
<1>. HIDE DEF new, n, u
<1>. QED  BY <1>2, <1>5, <1>6 DEF u

\* After that they are up to date, and still exact.
LEMMA UpdateBackoffExact ==
  ASSUME NEW m \in Managers, AllExact(m)
  PROVE  AllExact(UpdateBackoff(m)) /\ Counted(UpdateBackoff(m))
<1>. DEFINE u == UpdateBackoff(m)
<1>1. u.medium = m.medium /\ u.counter = m.counter
  BY UpdateBackoffType DEF SameAccess
<1>2. \A a \in Edcafs : AifsEnd(u, a) = AifsEnd(m, a)
  BY <1>1 DEF AifsEnd, AccessGrantStart
<1>3. ASSUME NEW a \in Edcafs
      PROVE  /\ ExactFor(u, a)
             /\ u.edcaf[a].slots = u.counter[a] /\ (u.edcaf[a].slots > 0 => u.edcaf[a].start <= Slot)
  <2>. DEFINE start == m.edcaf[a].start
              aifs == AifsEnd(m, a)
              n == m.edcaf[a].slots
              c == m.counter[a]
              s == Later(start, aifs)
              taken == Min({Passed(s), n})
  <2>1. /\ start \in Int /\ aifs \in Int /\ n \in Draws /\ n \in Nat /\ c \in Draws /\ c \in Nat
        /\ s \in Int /\ s = BackoffStart(m, a)
    BY BackoffFields
  <2>2. Exact(start, aifs, n, c)
    BY DEF AllExact, ExactFor
  <2>3. /\ s <= 0 => u.edcaf[a].slots = n - taken /\ u.edcaf[a].start = s + taken * Slot
        /\ ~(s <= 0) => u.edcaf[a] = m.edcaf[a]
    <3>1. BackoffStart(m, a) = s
      BY <2>1
    <3>. QED  BY <3>1, UpdateBackoffIs
  <2>. HIDE DEF u
  <2>4. CASE s <= 0
    <3>1. taken \in Int
      <4>1. Passed(s) \in Int /\ n \in Int
        BY <2>1, PassedIs
      <4>. HIDE DEF n, s
      <4>. QED  BY <4>1, MaxOfTwo
    <3>2. taken = Min({Passed(Later(start, aifs)), n})
      OBVIOUS
    <3>. HIDE DEF start, aifs, n, c, taken
    <3>3. n - taken = c /\ Exact(s + taken * Slot, aifs, n - taken, c)
          /\ (n - taken > 0 => s + taken * Slot <= Slot)
      BY <2>1, <2>2, <2>4, <3>1, <3>2, ExactUpdate
    <3>. QED  BY <1>1, <1>2, <2>3, <2>4, <3>3 DEF ExactFor, c, aifs
  <2>5. CASE ~(s <= 0)
    <3>1. u.edcaf[a] = m.edcaf[a]
      BY <2>3, <2>5
    <3>2. Left(s, n) = n
      <4>. HIDE DEF s, n
      <4>. QED  BY <2>1, <2>5, LeftIs
    <3>3. n = c
      BY <2>2, <3>2 DEF Exact
    <3>4. n > 0 => start <= Slot
      BY <2>2 DEF Exact, OnSlot
    <3>5. ExactFor(u, a)
      BY <1>1, <1>2, <2>2, <3>1 DEF ExactFor
    <3>. QED  BY <1>1, <3>1, <3>3, <3>4, <3>5
  <2>. QED  BY <2>4, <2>5
<1>. QED  BY <1>3 DEF AllExact, Counted

\* A backoff that is drawn is up to date.
LEMMA GenerateBackoffIs ==
  ASSUME NEW m \in Managers, NEW a \in Edcafs, NEW n \in Draws
  PROVE  LET g == GenerateBackoff(m, a, n)
         IN /\ g.edcaf[a].slots = n /\ g.edcaf[a].start = 0 /\ g.counter[a] = n
            /\ \A b \in Edcafs \ {a} : g.edcaf[b] = m.edcaf[b] /\ g.counter[b] = m.counter[b]
            /\ Counted(m) => Counted(g)
<1>. DEFINE g == GenerateBackoff(m, a, n)
<1>0. PICK z \in Int : z = 0
  OBVIOUS
<1>. DEFINE e == [m.edcaf[a] EXCEPT !.slots = n, !.start = z]
<1>1. /\ m.edcaf \in [Edcafs -> EdcafRecord] /\ m.counter \in [Edcafs -> Draws]
      /\ m.edcaf[a] \in EdcafRecord
  BY ManagerFields
<1>2. g = [m EXCEPT !.edcaf[a].slots = n, !.edcaf[a].start = z, !.counter[a] = n]
  BY <1>0 DEF GenerateBackoff
<1>. HIDE DEF g
<1>3. g.edcaf = [m.edcaf EXCEPT ![a] = e] /\ g.counter = [m.counter EXCEPT ![a] = n]
  BY <1>1, <1>2 DEF Managers
<1>4. e.slots = n /\ e.start = z
  BY <1>1 DEF EdcafRecord
<1>. HIDE DEF e
<1>5. g.edcaf[a] = e /\ g.counter[a] = n
  BY <1>1, <1>3
<1>6. \A b \in Edcafs \ {a} : g.edcaf[b] = m.edcaf[b] /\ g.counter[b] = m.counter[b]
  BY <1>1, <1>3
<1>7. g.edcaf[a].slots = n /\ g.edcaf[a].start = 0
  BY <1>0, <1>4, <1>5
<1>8. 0 <= Slot
  BY ChannelAccessAssumption
<1>9. Counted(m) => Counted(g)
  BY <1>5, <1>6, <1>7, <1>8 DEF Counted
<1>. QED  BY <1>5, <1>6, <1>7, <1>9 DEF g

\* The access status is none of the backoffs.
LEMMA SetAccessBackoffs ==
  ASSUME NEW m \in Managers, NEW a \in Edcafs,
         NEW v \in {"NOT_REQUESTED", "REQUESTED", "GRANTED"},
         NEW r, r = [m EXCEPT !.edcaf[a].access = v]
  PROVE  SameBackoffs(m, r)
<1>. DEFINE e == [m.edcaf[a] EXCEPT !.access = v]
<1>0. m.edcaf \in [Edcafs -> EdcafRecord] /\ m.edcaf[a] \in EdcafRecord
  BY ManagerFields
<1>1. e.slots = m.edcaf[a].slots /\ e.start = m.edcaf[a].start
  BY <1>0 DEF EdcafRecord
<1>2. r.edcaf = [m.edcaf EXCEPT ![a] = e] /\ r.counter = m.counter
  BY <1>0 DEF Managers
<1>. HIDE DEF e
<1>3. r.edcaf[a] = e /\ \A b \in Edcafs \ {a} : r.edcaf[b] = m.edcaf[b]
  BY <1>0, <1>2
<1>. QED  BY <1>1, <1>2, <1>3 DEF SameBackoffs

\* Releasing a TXOP.
LEMMA ReleaseIs ==
  ASSUME NEW m \in Managers, NEW a \in Edcafs, NEW n \in Draws
  PROVE  LET r == Release(m, a, n)
         IN /\ r.edcaf[a].slots = n /\ r.edcaf[a].start = 0 /\ r.counter[a] = n
            /\ Counted(m) => Counted(r)
<1>. DEFINE g == GenerateBackoff(m, a, n)
            v == IF m.edcaf[a].frames > 0 THEN "REQUESTED" ELSE "NOT_REQUESTED"
            r == [g EXCEPT !.edcaf[a].access = v]
<1>1. /\ g.edcaf[a].slots = n /\ g.edcaf[a].start = 0 /\ g.counter[a] = n
      /\ Counted(m) => Counted(g)
  BY GenerateBackoffIs
<1>2. g \in Managers
  BY GenerateBackoffType DEF SameAccess
<1>3. Release(m, a, n) = r
  BY DEF Release
<1>4. v \in {"NOT_REQUESTED", "REQUESTED", "GRANTED"}
  OBVIOUS
<1>. HIDE DEF g, v
<1>5. r = [g EXCEPT !.edcaf[a].access = v]
  OBVIOUS
<1>. HIDE DEF r
<1>6. SameBackoffs(g, r)
  BY <1>2, <1>4, <1>5, SetAccessBackoffs
<1>7. /\ r.edcaf[a].slots = g.edcaf[a].slots /\ r.edcaf[a].start = g.edcaf[a].start
      /\ r.counter[a] = g.counter[a]
  BY <1>6 DEF SameBackoffs
<1>8. Counted(g) => Counted(r)
  BY <1>6, SameBackoffsExact
<1>. QED  BY <1>1, <1>3, <1>7, <1>8

----------------------------------------------------------------------------
(***************************************************************************)
(* Granting access.                                                        *)
(***************************************************************************)
\* The backoff of an EDCAF that stops requesting was over.
LEMMA StoppedExact ==
  ASSUME NEW m \in Managers, AllExact(m), Counted(m)
  PROVE  AllExact(Stopped(m)) /\ Counted(Stopped(m))
<1>. DEFINE t == Stopped(m)
<1>1. t \in Managers /\ t.medium = m.medium
  BY StoppedType
<1>2. t.counter = m.counter /\ \A a \in Edcafs \ Idle(m) : t.edcaf[a] = m.edcaf[a]
  <2>1. t.counter = m.counter
    BY DEF Stopped, Managers
  <2>. QED  BY <2>1, StoppedType
<1>3. ASSUME NEW a \in Idle(m)
      PROVE  t.edcaf[a].slots = m.edcaf[a].slots /\ t.edcaf[a].start = 0
  <2>0. PICK z \in Int : z = 0
    OBVIOUS
  <2>. DEFINE e == [m.edcaf[a] EXCEPT !.access = "NOT_REQUESTED", !.start = z]
              f == [b \in Edcafs |-> IF b \in Idle(m)
                      THEN [m.edcaf[b] EXCEPT !.access = "NOT_REQUESTED", !.start = z]
                      ELSE m.edcaf[b]]
  <2>1. a \in Edcafs /\ m.edcaf[a] \in EdcafRecord
    BY ManagerFields DEF Idle
  <2>2. t = [m EXCEPT !.edcaf = f]
    BY <2>0 DEF Stopped
  <2>. HIDE DEF t
  <2>3. f[a] = e
    BY <2>1
  <2>4. e.slots = m.edcaf[a].slots /\ e.start = z
    BY <2>1 DEF EdcafRecord
  <2>. HIDE DEF e, f
  <2>5. t.edcaf[a] = e
    BY <2>2, <2>3 DEF Managers
  <2>. QED  BY <2>0, <2>4, <2>5
<1>. HIDE DEF t
<1>4. ASSUME NEW a \in Idle(m)
      PROVE  m.edcaf[a].slots = 0 /\ m.counter[a] = 0
  <2>. DEFINE n == m.edcaf[a].slots
              start == m.edcaf[a].start
              aifs == AifsEnd(m, a)
              s == Later(start, aifs)
  <2>1. a \in Edcafs /\ BackoffEnd(m, a) <= 0
    BY DEF Idle, Ready
  <2>2. /\ n \in Draws /\ start \in Int /\ aifs \in Int /\ s \in Int
        /\ s = BackoffStart(m, a)
    BY <2>1, BackoffFields
  <2>3. s + n * Slot <= 0
    BY <2>1, <2>2 DEF BackoffEnd
  <2>4. Left(s, n) = m.counter[a]
    BY <2>1 DEF AllExact, ExactFor, Exact
  <2>5. n = m.counter[a]
    BY <2>1 DEF Counted
  <2>. HIDE DEF n, s
  <2>6. Left(s, n) = 0
    BY <2>2, <2>3, LeftIs
  <2>. QED  BY <2>4, <2>5, <2>6 DEF n
<1>5. \A a \in Edcafs : AifsEnd(t, a) = AifsEnd(m, a)
  BY <1>1 DEF AifsEnd, AccessGrantStart
<1>6. ASSUME NEW a \in Edcafs PROVE ExactFor(t, a)
  <2>1. CASE a \in Idle(m)
    <3>1. t.edcaf[a].slots = 0 /\ t.counter[a] = 0
      BY <1>2, <1>3, <1>4, <2>1
    <3>2. /\ t.edcaf[a].start \in Int /\ t.edcaf[a].slots \in Draws
          /\ BackoffStart(t, a) = Later(t.edcaf[a].start, AifsEnd(t, a))
          /\ BackoffStart(t, a) \in Int
      BY <1>1, BackoffFields
    <3>3. Left(Later(t.edcaf[a].start, AifsEnd(t, a)), t.edcaf[a].slots) = 0
      BY <3>1, <3>2, LeftIs
    <3>. QED  BY <3>1, <3>3 DEF ExactFor, Exact, OnSlot
  <2>2. CASE a \notin Idle(m)
    <3>1. ExactFor(m, a)
      BY DEF AllExact
    <3>. QED  BY <1>2, <1>5, <2>2, <3>1 DEF ExactFor
  <2>. QED  BY <2>1, <2>2
<1>7. ASSUME NEW a \in Edcafs
      PROVE  t.edcaf[a].slots = t.counter[a] /\ (t.edcaf[a].slots > 0 => t.edcaf[a].start <= Slot)
  <2>1. CASE a \in Idle(m)
    BY <1>2, <1>3, <1>4, <2>1
  <2>2. CASE a \notin Idle(m)
    BY <1>2, <2>2 DEF Counted
  <2>. QED  BY <2>1, <2>2
<1>. QED  BY <1>6, <1>7 DEF AllExact, Counted, t

\* Backoffs that are up to date stay so when the busy periods change, except that
\* slots are gone whose AIFS has ended.
LEMMA UpdateBackoffAgain ==
  ASSUME NEW m \in Managers, Counted(m), NEW a \in Edcafs
  PROVE  LET u == UpdateBackoff(m)
         IN /\ u.edcaf[a].slots > 0 => u.edcaf[a].start <= Slot
            /\ AifsEnd(m, a) > 0 \/ m.edcaf[a].slots = 0 \/ m.edcaf[a].start > 0
                 => u.edcaf[a].slots = m.edcaf[a].slots
<1>. DEFINE start == m.edcaf[a].start
            aifs == AifsEnd(m, a)
            n == m.edcaf[a].slots
            s == BackoffStart(m, a)
            taken == Min({Passed(s), n})
            u == UpdateBackoff(m)
<1>1. /\ start \in Int /\ aifs \in Int /\ n \in Nat /\ s \in Int /\ s = Later(start, aifs)
      /\ Slot \in Nat
  BY BackoffFields
<1>2. /\ s <= 0 => u.edcaf[a].slots = n - taken /\ u.edcaf[a].start = s + taken * Slot
      /\ ~(s <= 0) => u.edcaf[a] = m.edcaf[a]
  BY UpdateBackoffIs
<1>3. n > 0 => start <= Slot
  BY DEF Counted
<1>4. aifs > 0 \/ start > 0 => s > 0
  <2>. HIDE DEF start, aifs, s
  <2>. QED  BY <1>1, LaterIs
<1>5. /\ Passed(s) \in Nat
      /\ Passed(s) > 0 => s + Passed(s) * Slot <= Slot
      /\ s <= 0 => Passed(s) > 0
  <2>. HIDE DEF s
  <2>. QED  BY <1>1, PassedIs
<1>6. taken \in Int /\ taken <= n /\ (taken = Passed(s) \/ taken = n)
  <2>1. Passed(s) \in Int /\ n \in Int
    BY <1>1, <1>5
  <2>. HIDE DEF s, n
  <2>. QED  BY <2>1, MaxOfTwo
<1>. HIDE DEF u, taken, s, start, aifs
<1>7. CASE s <= 0
  <2>1. n - taken > 0 => taken = Passed(s)
    BY <1>1, <1>6, <1>7
  <2>2. u.edcaf[a].slots > 0 => u.edcaf[a].start <= Slot
    BY <1>2, <1>5, <1>7, <2>1
  <2>3. n = 0 => taken = 0
    BY <1>5, <1>6
  <2>4. ~(aifs > 0) /\ ~(start > 0)
    BY <1>1, <1>4, <1>7
  <2>5. n = 0 => u.edcaf[a].slots = n
    BY <1>2, <1>7, <2>3
  <2>. QED  BY <2>2, <2>4, <2>5 DEF u, start, aifs
<1>8. CASE ~(s <= 0)
  BY <1>2, <1>3, <1>8 DEF u, start
<1>. QED  BY <1>7, <1>8

\* The backoffs are up to date when a transmission has started, which ends what is
\* left of an EIFS.
LEMMA NotifyTxStartCounted ==
  ASSUME NEW m \in Managers, AllExact(m), Counted(m), NEW response \in BOOLEAN
  PROVE  LET t == NotifyTxStartNow(m, response)
         IN Counted(t) /\ t.medium.rxEnd = IF m.medium.rxEnd > 0 THEN 0 ELSE m.medium.rxEnd
<1>. DEFINE k == IF m.medium.rxEnd > 0 THEN 0 ELSE m.medium.rxEnd
            j == IF response THEN TxTime + AckDelay ELSE m.medium.ackEnd
            md == [m.medium EXCEPT !.rxOk = TRUE, !.rxEnd = k, !.ackEnd = j, !.waiting = response]
            d == [m EXCEPT !.medium = md]
            u == UpdateBackoff(d)
            early(a) == AifsEnd(m, a) > 0 /\ AifsEnd(d, a) <= 0
            c == [a \in Edcafs |-> IF early(a) THEN u.edcaf[a].slots ELSE u.counter[a]]
            t == NotifyTxStartNow(m, response)
<1>1. m.medium \in MediumRecord /\ m.medium.rxEnd \in Int /\ m.medium.ackEnd \in Int
  BY ManagerFields
<1>2. k \in Int /\ j \in Int /\ TRUE \in BOOLEAN
  BY <1>1, ChannelAccessAssumption
<1>3. d = [m EXCEPT !.medium.rxOk = TRUE, !.medium.rxEnd = IF @ > 0 THEN 0 ELSE @,
                    !.medium.ackEnd = IF response THEN TxTime + AckDelay ELSE @,
                    !.medium.waiting = response]
  BY <1>1 DEF Managers, MediumRecord
<1>4. t = [u EXCEPT !.medium.txEnd = TxTime, !.counter = c]
  <2>. HIDE DEF d
  <2>. QED  BY <1>3 DEF NotifyTxStartNow
<1>5. md \in MediumRecord /\ md.rxEnd = k
  <2>. HIDE DEF k, j
  <2>. QED  BY <1>1, <1>2 DEF MediumRecord
<1>. HIDE DEF md
<1>6. d \in Managers /\ d.medium = md /\ d.edcaf = m.edcaf /\ d.counter = m.counter
  BY <1>5 DEF Managers
<1>. HIDE DEF d
<1>7. u \in Managers /\ u.medium = md /\ u.counter = m.counter
  BY <1>6, UpdateBackoffType DEF SameAccess
<1>8. Counted(d)
  BY <1>6 DEF Counted
<1>. HIDE DEF u
<1>9. t.edcaf = u.edcaf /\ t.counter = c /\ t.medium.rxEnd = md.rxEnd
  BY <1>4, <1>5, <1>7 DEF Managers, MediumRecord
<1>10. ASSUME NEW a \in Edcafs
      PROVE  /\ u.edcaf[a].slots = c[a]
             /\ u.edcaf[a].slots > 0 => u.edcaf[a].start <= Slot
  <2>1. u.edcaf[a].slots > 0 => u.edcaf[a].start <= Slot
    BY <1>6, <1>8, UpdateBackoffAgain DEF u
  <2>2. /\ AifsEnd(d, a) > 0 \/ m.edcaf[a].slots = 0 \/ m.edcaf[a].start > 0
             => u.edcaf[a].slots = m.edcaf[a].slots
        /\ m.edcaf[a].slots = m.counter[a]
    BY <1>6, <1>8, UpdateBackoffAgain DEF u, Counted
  <2>3. CASE early(a)
    BY <2>1, <2>3
  <2>4. CASE ~early(a)
    <3>1. AifsEnd(m, a) \in Int /\ AifsEnd(d, a) \in Int
      BY <1>6, BackoffFields
    <3>2. ASSUME AifsEnd(m, a) <= 0 PROVE m.edcaf[a].slots = 0 \/ m.edcaf[a].start > 0
      <4>. DEFINE n == m.edcaf[a].slots
                  start == m.edcaf[a].start
                  s == Later(start, AifsEnd(m, a))
      <4>1. n \in Draws /\ n \in Nat /\ start \in Int /\ s \in Int
        BY BackoffFields
      <4>2. Left(s, n) = n
        BY DEF AllExact, ExactFor, Exact, Counted
      <4>3. Left(s, n) > 0 => Left(s, n) = n - Passed(s)
        <5>. HIDE DEF s, n
        <5>. QED  BY <4>1, LeftIs
      <4>4. Passed(s) \in Nat /\ (s <= 0 => Passed(s) > 0)
        <5>. HIDE DEF s
        <5>. QED  BY <4>1, PassedIs
      <4>5. start <= AifsEnd(m, a) => s = AifsEnd(m, a)
        BY <3>1, <4>1, LaterIs
      <4>6. start > AifsEnd(m, a) => s = start
        BY <3>1, <4>1, LaterIs
      <4>. HIDE DEF s, n, start
      <4>7. n = 0 \/ s > 0
        BY <4>1, <4>2, <4>3, <4>4
      <4>8. n = 0 \/ start > 0
        BY <3>1, <3>2, <4>1, <4>5, <4>6, <4>7
      <4>. QED  BY <4>8 DEF n, start
    <3>3. AifsEnd(d, a) > 0 \/ AifsEnd(m, a) <= 0
      BY <2>4, <3>1
    <3>4. u.edcaf[a].slots = m.counter[a]
      BY <2>2, <3>2, <3>3
    <3>5. c[a] = m.counter[a]
      BY <1>7, <2>4
    <3>. QED  BY <2>1, <3>4, <3>5
  <2>. QED  BY <2>3, <2>4
<1>. HIDE DEF t, c
<1>. QED  BY <1>5, <1>9, <1>10 DEF Counted, t

\* The backoffs are exact after a grant: the transmitter brings them up to date, and
\* a colliding EDCAF draws its own when the medium is busy.
LEMMA GrantExact ==
  ASSUME NEW m, NEW rx \in BOOLEAN, Sound(m, rx), AllExact(m), Counted(m),
         NEW draw \in [Colliding(m) -> Draws], NEW response \in BOOLEAN
  PROVE  LET g == DoGrantDcfAccess(m, draw, response)
         IN g \in Managers /\ AllExact(g) /\ (RxKnown(m, rx) => RxKnown(g, rx))
<1>0. m \in Managers
  BY DEF Sound
<1>1. CASE ~Granting(m)
  <2>1. DoGrantDcfAccess(m, draw, response) = Stopped(m)
    BY <1>1 DEF DoGrantDcfAccess, Stopped, Idle
  <2>2. Stopped(m) \in Managers /\ AllExact(Stopped(m)) /\ Stopped(m).medium = m.medium
    BY <1>0, StoppedExact, StoppedType
  <2>. QED  BY <2>1, <2>2 DEF RxKnown
<1>2. CASE Granting(m)
  <2>. DEFINE w == Min(Able(m))
              s == Stopped(m)
              b == [s EXCEPT !.edcaf[w].access = "GRANTED"]
              t == NotifyTxStartNow(b, response)
              C == Colliding(m)
              e == [a \in Edcafs |-> IF a \in C THEN Release(t, a, draw[a]).edcaf[a] ELSE t.edcaf[a]]
              c == [a \in Edcafs |-> IF a \in C THEN draw[a] ELSE t.counter[a]]
              g == [t EXCEPT !.edcaf = e, !.counter = c]
  <2>1. w \in Edcafs
    BY <1>2, WinnerIsAble DEF Granting
  <2>2. DoGrantDcfAccess(m, draw, response) = g
    BY <1>2 DEF DoGrantDcfAccess, Stopped, Idle
  <2>3. g \in Managers
    <3>1. Sound(DoGrantDcfAccess(m, draw, response), rx)
      BY <1>2, Grant
    <3>. HIDE DEF g
    <3>. QED  BY <2>2, <3>1 DEF Sound
  <2>. HIDE DEF w
  <2>4. s \in Managers /\ AllExact(s) /\ Counted(s) /\ s.medium = m.medium
    BY <1>0, StoppedExact, StoppedType
  <2>. HIDE DEF s
  <2>5. b \in Managers /\ SameBackoffs(s, b) /\ b.medium = s.medium
    <3>1. b = [s EXCEPT !.edcaf[w].access = "GRANTED"]
      OBVIOUS
    <3>2. "GRANTED" \in {"NOT_REQUESTED", "REQUESTED", "GRANTED"}
      OBVIOUS
    <3>. HIDE DEF b
    <3>. QED  BY <2>1, <2>4, <3>1, <3>2, SetAccessType, SetAccessBackoffs
  <2>. HIDE DEF b
  <2>6. AllExact(b) /\ Counted(b)
    BY <2>4, <2>5, SameBackoffsExact
  <2>7. /\ t \in Managers /\ Counted(t) /\ t.medium.txEnd > 0
        /\ t.medium.rxEnd = IF b.medium.rxEnd > 0 THEN 0 ELSE b.medium.rxEnd
    BY <2>5, <2>6, NotifyTxStartCounted, NotifyTxStartType
  <2>. HIDE DEF t
  <2>8. g.edcaf = e /\ g.counter = c /\ g.medium = t.medium
    BY <2>7 DEF Managers
  <2>9. ASSUME NEW a \in Edcafs
        PROVE  e[a].slots = c[a] /\ (e[a].slots > 0 => e[a].start <= Slot)
    <3>1. CASE a \in C
      <4>1. draw[a] \in Draws /\ 0 <= Slot
        BY <3>1, ChannelAccessAssumption
      <4>. DEFINE r == Release(t, a, draw[a])
      <4>2. r.edcaf[a].slots = draw[a] /\ r.edcaf[a].start = 0
        BY <2>7, <4>1, ReleaseIs
      <4>3. e[a] = r.edcaf[a] /\ c[a] = draw[a]
        BY <3>1
      <4>. HIDE DEF r, e, c
      <4>. QED  BY <4>1, <4>2, <4>3
    <3>2. CASE a \notin C
      BY <2>7, <3>2 DEF Counted
    <3>. QED  BY <3>1, <3>2
  <2>. HIDE DEF e, c, g
  <2>10. Counted(g)
    BY <2>8, <2>9 DEF Counted
  <2>11. AccessGrantStart(g) > 0
    <3>1. /\ AccessGrantStart(g) \in Int /\ AccessGrantStart(g) >= Sifs + g.medium.txEnd
          /\ g.medium.txEnd \in Int
      BY <2>3, AccessGrantStartAfter, ManagerFields
    <3>2. Sifs \in Nat /\ g.medium.txEnd > 0
      BY <2>7, <2>8, ChannelAccessAssumption
    <3>. QED  BY <3>1, <3>2
  <2>12. AllExact(g)
    BY <2>3, <2>10, <2>11, ExactIsCounted
  <2>13. RxKnown(m, rx) => RxKnown(g, rx)
    <3>1. ~rx
      BY <1>2, GrantedWhenFree DEF Granting
    <3>2. RxKnown(m, rx) => ~(b.medium.rxEnd > 0)
      BY <2>4, <2>5, <3>1 DEF RxKnown
    <3>. QED  BY <2>4, <2>5, <2>7, <2>8, <3>1, <3>2 DEF RxKnown
  <2>. QED  BY <2>2, <2>3, <2>12, <2>13
<1>. QED  BY <1>1, <1>2

\* Setting the access timer leaves the backoffs.
LEMMA RestartExact ==
  ASSUME NEW m \in Managers
  PROVE  LET r == RestartAccessTimeout(m)
         IN /\ r \in Managers /\ (AllExact(m) => AllExact(r)) /\ (Counted(m) => Counted(r))
            /\ r.medium = m.medium
<1>. DEFINE r == RestartAccessTimeout(m)
<1>1. r \in Managers /\ r.medium = m.medium /\ r.edcaf = m.edcaf /\ r.counter = m.counter
  BY RestartType
<1>. HIDE DEF r
<1>2. SameBackoffs(m, r)
  BY <1>1 DEF SameBackoffs
<1>3. (AllExact(m) => AllExact(r)) /\ (Counted(m) => Counted(r))
  BY <1>1, <1>2, SameBackoffsExact
<1>. QED  BY <1>1, <1>3 DEF r

\* The manager of the next state.
LEMMA BecomesExact ==
  ASSUME NEW m \in Managers, Becomes(m), AllExact(m), RxKnown(m, receiving')
  PROVE  Countdown'
<1>1. m = [edcaf |-> m.edcaf, medium |-> m.medium, timer |-> m.timer, counter |-> m.counter]
  BY DEF Managers
<1>2. Manager' = m
  BY <1>1 DEF Becomes, Manager
<1>3. AllExact(Manager)' <=> AllExact(Manager')
  BY DEF AllExact, ExactFor, Exact, OnSlot, Left, Passed, Later, AifsEnd, AccessGrantStart
<1>4. RxKnown(Manager, receiving)' <=> RxKnown(Manager', receiving')
  BY DEF RxKnown, Oldest
<1>. QED  BY <1>2, <1>3, <1>4 DEF Countdown

\* Grants, and the timer for those that wait.
LEMMA GrantAndRestartExact ==
  ASSUME NEW m, receiving \in BOOLEAN, Sound(m, receiving), AllExact(m), Counted(m),
         RxKnown(m, receiving), GrantAndRestart(m), UNCHANGED receiving
  PROVE  Countdown'
<1>1. PICK draw \in [Colliding(m) -> Draws], response \in BOOLEAN :
        Becomes(RestartAccessTimeout(DoGrantDcfAccess(m, draw, response)))
  BY DEF GrantAndRestart
<1>. DEFINE g == DoGrantDcfAccess(m, draw, response)
            r == RestartAccessTimeout(g)
<1>2. g \in Managers /\ AllExact(g) /\ RxKnown(g, receiving)
  BY GrantExact
<1>. HIDE DEF g
<1>3. r \in Managers /\ AllExact(r) /\ RxKnown(r, receiving')
  BY <1>2, RestartExact DEF RxKnown
<1>4. Becomes(r)
  BY <1>1 DEF g
<1>. HIDE DEF r
<1>. QED  BY <1>3, <1>4, BecomesExact

\* Where a backoff starts does not matter when it has no slots.
LEMMA SetStartExact ==
  ASSUME NEW m \in Managers, NEW a \in Edcafs, NEW s \in Int, AllExact(m),
         m.edcaf[a].slots = 0 \/ m.edcaf[a].start = s,
         NEW r, r = [m EXCEPT !.edcaf[a].start = s]
  PROVE  AllExact(r) /\ (Counted(m) => Counted(r))
<1>1. /\ r.edcaf[a].slots = m.edcaf[a].slots /\ r.edcaf[a].start = s
      /\ r.counter = m.counter /\ r.medium = m.medium /\ r \in Managers
      /\ \A b \in Edcafs \ {a} : r.edcaf[b] = m.edcaf[b]
  <2>. DEFINE e == [m.edcaf[a] EXCEPT !.start = s]
  <2>0. m.edcaf \in [Edcafs -> EdcafRecord] /\ m.edcaf[a] \in EdcafRecord
    BY ManagerFields
  <2>1. e.slots = m.edcaf[a].slots /\ e.start = s
    BY <2>0 DEF EdcafRecord
  <2>2. r.edcaf = [m.edcaf EXCEPT ![a] = e] /\ r.counter = m.counter /\ r.medium = m.medium
    BY <2>0 DEF Managers
  <2>. HIDE DEF e
  <2>3. r.edcaf[a] = e /\ \A b \in Edcafs \ {a} : r.edcaf[b] = m.edcaf[b]
    BY <2>0, <2>2
  <2>4. r \in Managers
    BY SetStartType DEF SameAccess
  <2>. QED  BY <2>1, <2>2, <2>3, <2>4
<1>2. \A b \in Edcafs : AifsEnd(r, b) = AifsEnd(m, b)
  BY <1>1 DEF AifsEnd, AccessGrantStart
<1>3. ASSUME NEW b \in Edcafs PROVE ExactFor(r, b)
  <2>1. ExactFor(m, b)
    BY DEF AllExact
  <2>2. CASE b # a \/ m.edcaf[a].start = s
    BY <1>1, <1>2, <2>1, <2>2 DEF ExactFor
  <2>3. CASE b = a /\ m.edcaf[a].slots = 0
    <3>1. /\ m.edcaf[a].slots \in Draws /\ m.edcaf[a].start \in Int /\ AifsEnd(m, a) \in Int
      BY BackoffFields
    <3>2. \A t \in Int : Left(t, m.edcaf[a].slots) = 0
      BY <2>3, <3>1, LeftIs
    <3>3. /\ Later(m.edcaf[a].start, AifsEnd(m, a)) \in Int
          /\ Later(s, AifsEnd(m, a)) \in Int
      BY <3>1, LaterIs
    <3>4. Left(Later(m.edcaf[a].start, AifsEnd(m, a)), m.edcaf[a].slots) = m.counter[a]
      BY <2>1, <2>3 DEF ExactFor, Exact
    <3>5. m.counter[a] = 0
      BY <3>2, <3>3, <3>4
    <3>6. Left(Later(s, AifsEnd(m, a)), m.edcaf[a].slots) = 0
      BY <3>2, <3>3
    <3>. QED  BY <1>1, <1>2, <2>3, <3>5, <3>6 DEF ExactFor, Exact, OnSlot
  <2>. QED  BY <1>1, <2>2, <2>3
<1>4. ASSUME Counted(m) PROVE Counted(r)
  <2>. SUFFICES ASSUME NEW b \in Edcafs
                PROVE  r.edcaf[b].slots = r.counter[b] /\ (r.edcaf[b].slots > 0 => r.edcaf[b].start <= Slot)
    BY DEF Counted
  <2>1. m.edcaf[b].slots = m.counter[b] /\ (m.edcaf[b].slots > 0 => m.edcaf[b].start <= Slot)
    BY <1>4 DEF Counted
  <2>2. CASE b # a
    BY <1>1, <2>1, <2>2
  <2>3. CASE b = a
    BY <1>1, <2>1, <2>3
  <2>. QED  BY <2>2, <2>3
<1>. QED  BY <1>3, <1>4 DEF AllExact

\* A number of whole slots is rounded up to itself.
LEMMA WholeSlots ==
  ASSUME NEW k \in Nat
  PROVE  (k * Slot + Slot - 1) \div Slot = k
<1>. DEFINE t == k * Slot + Slot - 1
            q == t \div Slot
<1>1. Slot \in Nat /\ Slot > 0 /\ k * Slot \in Nat
  BY ChannelAccessAssumption
<1>2. t \in Nat
  BY <1>1
<1>3. q \in Nat /\ q * Slot <= t /\ t < q * Slot + Slot
  <2>. HIDE DEF t
  <2>1. t = Slot * (t \div Slot) + (t % Slot)
    BY <1>1, <1>2
  <2>2. t % Slot \in Nat /\ t % Slot < Slot /\ t \div Slot \in Nat
    BY <1>1, <1>2
  <2>. QED  BY <1>1, <1>2, <2>1, <2>2
<1>. HIDE DEF q
<1>4. q * Slot \in Int
  BY <1>1, <1>3
<1>5. ~(q < k)
  BY <1>1, <1>3, <1>4, SlotsMonotone
<1>6. ~(k < q)
  BY <1>1, <1>3, <1>4, SlotsMonotone
<1>. QED  BY <1>3, <1>5, <1>6 DEF q

\* Alignment moves no backoff that has slots left: it starts at a boundary already.
LEMMA AlignExact ==
  ASSUME NEW m \in Managers, NEW a \in Edcafs, AllExact(m)
  PROVE  AllExact(Align(m, a))
<1>. DEFINE start == m.edcaf[a].start
            aifs == AifsEnd(m, a)
            diff == start - aifs
            q == (diff + Slot - 1) \div Slot
            s == aifs + q * Slot
<1>1. start \in Int /\ aifs \in Int /\ m.edcaf[a].slots \in Nat /\ Slot \in Nat /\ Slot > 0
  BY BackoffFields
<1>2. CASE diff <= 0
  BY <1>2 DEF Align
<1>3. CASE ~(diff <= 0)
  <2>1. Align(m, a) = [m EXCEPT !.edcaf[a].start = s]
    BY <1>3 DEF Align
  <2>2. q \in Int
    <3>1. diff + Slot - 1 \in Int
      BY <1>1
    <3>. HIDE DEF diff
    <3>. QED  BY <1>1, <3>1
  <2>3. m.edcaf[a].slots = 0 \/ start = s
    <3>. SUFFICES ASSUME m.edcaf[a].slots > 0 PROVE start = s
      BY <1>1
    <3>1. PICK k \in Nat : start = aifs + k * Slot
      <4>1. start > aifs
        BY <1>1, <1>3
      <4>2. OnSlot(start, aifs, m.edcaf[a].slots)
        BY DEF AllExact, ExactFor, Exact
      <4>. QED  BY <4>1, <4>2 DEF OnSlot
    <3>2. k * Slot \in Int
      BY <1>1
    <3>3. diff + Slot - 1 = k * Slot + Slot - 1
      BY <1>1, <3>1, <3>2
    <3>4. q = k
      BY <3>3, WholeSlots
    <3>. QED  BY <3>1, <3>4
  <2>. HIDE DEF q
  <2>4. s \in Int
    BY <1>1, <2>2
  <2>. HIDE DEF s
  <2>. DEFINE r == Align(m, a)
  <2>5. r = [m EXCEPT !.edcaf[a].start = s]
    BY <2>1
  <2>. HIDE DEF r
  <2>6. AllExact(r)
    BY <2>3, <2>4, <2>5, SetStartExact
  <2>. QED  BY <2>6 DEF r
<1>. QED  BY <1>2, <1>3

\* A busy medium is not granted.
LEMMA BusyIsNotGranted ==
  ASSUME NEW m \in Managers, m.medium = medium, IsBusy
  PROVE  AccessGrantStart(m) > 0
<1>1. /\ medium.rxEnd \in Int /\ medium.txEnd \in Int /\ medium.navEnd \in Int
      /\ medium.busyEnd \in Int
  BY ManagerFields
<1>. DEFINE k == Max({medium.rxEnd, medium.txEnd, medium.navEnd, medium.busyEnd, medium.busyEnd})
<1>2. {medium.rxEnd, medium.txEnd, medium.navEnd, medium.busyEnd}
        = {medium.rxEnd, medium.txEnd, medium.navEnd, medium.busyEnd, medium.busyEnd}
  OBVIOUS
<1>3. k > 0
  BY <1>2 DEF IsBusy
<1>4. k \in {medium.rxEnd, medium.txEnd, medium.navEnd, medium.busyEnd, medium.busyEnd}
  BY <1>1, MaxOfFive
<1>. HIDE DEF k
<1>5. /\ AccessGrantStart(m) \in Int
      /\ AccessGrantStart(m) >= Sifs + medium.busyEnd
      /\ AccessGrantStart(m) >= Sifs + medium.rxEnd
      /\ AccessGrantStart(m) >= Sifs + medium.txEnd
      /\ AccessGrantStart(m) >= Sifs + medium.navEnd
  BY AccessGrantStartAfter
<1>6. Sifs \in Nat
  BY ChannelAccessAssumption
<1>. QED  BY <1>1, <1>3, <1>4, <1>5, <1>6

\* A backoff is drawn while the medium is busy, and reset when none is left.
LEMMA NeedBackoffExact ==
  ASSUME NEW m \in Managers, NEW a \in Edcafs, NEW had, NEW n \in Draws,
         m.medium = medium, AllExact(m)
  PROVE  AllExact(NeedBackoffUponAccess(m, a, had, n))
<1>. DEFINE u == UpdateBackoff(m)
            r == NeedBackoffUponAccess(m, a, had, n)
<1>1. u \in Managers /\ u.medium = medium /\ AllExact(u) /\ Counted(u)
  BY UpdateBackoffExact, UpdateBackoffType DEF SameAccess
<1>2. PICK z \in Int : z = 0
  OBVIOUS
<1>3. \/ r = u
      \/ IsBusy /\ r = GenerateBackoff(u, a, n)
      \/ ~(u.edcaf[a].slots > 0) /\ r = [u EXCEPT !.edcaf[a].start = z]
  BY <1>2 DEF NeedBackoffUponAccess
<1>. HIDE DEF u, r
<1>4. CASE IsBusy /\ r = GenerateBackoff(u, a, n)
  <2>1. r \in Managers /\ r.medium = medium /\ Counted(r)
    BY <1>1, <1>4, GenerateBackoffIs, GenerateBackoffType DEF SameAccess
  <2>2. AccessGrantStart(r) > 0
    BY <1>4, <2>1, BusyIsNotGranted
  <2>. QED  BY <2>1, <2>2, ExactIsCounted DEF r
<1>5. CASE ~(u.edcaf[a].slots > 0) /\ r = [u EXCEPT !.edcaf[a].start = z]
  <2>1. u.edcaf[a].slots = 0
    BY <1>1, <1>5, BackoffFields
  <2>2. AllExact(r)
    BY <1>1, <1>5, <2>1, SetStartExact
  <2>. QED  BY <2>2 DEF r
<1>6. CASE r = u
  BY <1>1, <1>6 DEF r
<1>. QED  BY <1>3, <1>4, <1>5, <1>6

\* A request for access.
LEMMA RequestAccessExact ==
  ASSUME NEW m, receiving \in BOOLEAN, Sound(m, receiving), NEW a \in Edcafs, AllExact(m),
         RxKnown(m, receiving), RequestAccess(m, a), UNCHANGED receiving
  PROVE  Countdown'
<1>. DEFINE l == Align(m, a)
            u == UpdateBackoff(l)
            r == [u EXCEPT !.edcaf[a].access = "REQUESTED"]
<1>0. m \in Managers
  BY DEF Sound
<1>1. SameAccess(m, l) /\ l \in Managers /\ AllExact(l)
  BY <1>0, AlignType, AlignExact DEF SameAccess
<1>2. GrantAndRestart(r)
  BY DEF RequestAccess
<1>. HIDE DEF l
<1>3. SameAccess(l, u) /\ AllExact(u) /\ Counted(u)
  BY <1>1, UpdateBackoffType, UpdateBackoffExact
<1>. HIDE DEF u
<1>4. Sound(u, receiving) /\ u \in Managers
  <2>1. SameAccess(m, u)
    BY <1>1, <1>3, SameAccessTwice
  <2>. QED  BY <2>1, SameAccessSound DEF SameAccess
<1>5. /\ r \in Managers /\ r.medium = u.medium /\ SameBackoffs(u, r)
      /\ r.edcaf[a].access = "REQUESTED" /\ r.edcaf[a].frames = u.edcaf[a].frames
      /\ \A b \in Edcafs \ {a} : r.edcaf[b] = u.edcaf[b]
  <2>1. r = [u EXCEPT !.edcaf[a].access = "REQUESTED"]
    OBVIOUS
  <2>2. "REQUESTED" \in {"NOT_REQUESTED", "REQUESTED", "GRANTED"}
    OBVIOUS
  <2>. HIDE DEF r
  <2>. QED  BY <1>4, <2>1, <2>2, SetAccessType, SetAccessBackoffs
<1>. HIDE DEF r
<1>6. \A b \in Edcafs : r.edcaf[b].access = "GRANTED" =>
        u.edcaf[b].access = "GRANTED" /\ r.edcaf[b].frames >= u.edcaf[b].frames
  <2>1. \A b \in Edcafs : u.edcaf[b].frames >= u.edcaf[b].frames
    BY <1>4, ManagerFields
  <2>. QED  BY <1>5, <2>1
<1>7. Sound(r, receiving)
  BY <1>4, <1>5, <1>6, SoundIf
<1>8. AllExact(r) /\ Counted(r)
  BY <1>3, <1>5, SameBackoffsExact
<1>9. RxKnown(r, receiving)
  BY <1>1, <1>3, <1>5 DEF RxKnown, SameAccess
<1>. QED  BY <1>2, <1>7, <1>8, <1>9, GrantAndRestartExact

\* The manager of a state.
LEMMA ManagerCounts ==
  ASSUME IInv, Countdown
  PROVE  /\ Manager \in Managers /\ AllExact(Manager) /\ RxKnown(Manager, receiving)
         /\ Sound(Manager, receiving) /\ receiving \in BOOLEAN
         /\ Manager.edcaf = edcaf /\ Manager.medium = medium
         /\ Manager.counter = counter
BY ManagerOK DEF Countdown

\* An MPDU is queued.
LEMMA QueueExact ==
  ASSUME IInv, Countdown, NEW a \in Edcafs, NEW n \in Draws, Queue(a, n)
  PROVE  Countdown'
<1>. DEFINE M == Manager
            q == [M EXCEPT !.edcaf[a].frames = M.edcaf[a].frames + 1]
            e == [M.edcaf[a] EXCEPT !.frames = M.edcaf[a].frames + 1]
<1>0. /\ M \in Managers /\ Sound(M, receiving) /\ AllExact(M) /\ RxKnown(M, receiving)
      /\ receiving \in BOOLEAN /\ M.edcaf = edcaf /\ M.medium = medium
  BY ManagerCounts
<1>1. /\ edcaf[a].frames < MaxFrames /\ UNCHANGED receiving
      /\ \/ Becomes(q)
         \/ RequestAccess(NeedBackoffUponAccess(q, a, edcaf[a].frames > 0, n), a)
  BY <1>0 DEF Queue, Manager
<1>. HIDE DEF M
<1>2. M.edcaf \in [Edcafs -> EdcafRecord] /\ M.edcaf[a] \in EdcafRecord /\ M.edcaf[a].frames \in Nat
  BY <1>0, ManagerFields
<1>3. M.edcaf[a].frames + 1 \in 0 .. MaxFrames /\ M.edcaf[a].frames + 1 >= M.edcaf[a].frames
  BY <1>0, <1>1, <1>2, ChannelAccessAssumption
<1>4. /\ e \in EdcafRecord /\ e.access = M.edcaf[a].access /\ e.frames = M.edcaf[a].frames + 1
      /\ e.slots = M.edcaf[a].slots /\ e.start = M.edcaf[a].start
  BY <1>2, <1>3 DEF EdcafRecord
<1>5. q = [M EXCEPT !.edcaf = [M.edcaf EXCEPT ![a] = e]]
  BY <1>0, <1>2 DEF Managers
<1>. HIDE DEF e, q
<1>6. [M.edcaf EXCEPT ![a] = e] \in [Edcafs -> EdcafRecord]
  BY <1>2, <1>4
<1>7. /\ q \in Managers /\ q.medium = M.medium /\ q.counter = M.counter
      /\ q.edcaf = [M.edcaf EXCEPT ![a] = e]
  BY <1>0, <1>5, <1>6 DEF Managers
<1>8. \A b \in Edcafs :
        q.edcaf[b].access = M.edcaf[b].access /\ q.edcaf[b].frames >= M.edcaf[b].frames
  <2>1. \A b \in Edcafs : M.edcaf[b].frames >= M.edcaf[b].frames
    BY <1>0, ManagerFields
  <2>. QED  BY <1>2, <1>3, <1>4, <1>7, <2>1
<1>9. Sound(q, receiving)
  BY <1>0, <1>7, <1>8, SoundIf
<1>10. AllExact(q)
  <2>1. SameBackoffs(M, q)
    BY <1>2, <1>4, <1>7 DEF SameBackoffs
  <2>. QED  BY <1>0, <1>7, <2>1, SameBackoffsExact
<1>11. RxKnown(q, receiving) /\ q.medium = medium
  BY <1>0, <1>7 DEF RxKnown
<1>12. CASE Becomes(q)
  <2>1. receiving' = receiving
    BY <1>1
  <2>. QED  BY <1>7, <1>10, <1>11, <1>12, <2>1, BecomesExact
<1>13. CASE RequestAccess(NeedBackoffUponAccess(q, a, edcaf[a].frames > 0, n), a)
  <2>. DEFINE had == edcaf[a].frames > 0
              u == NeedBackoffUponAccess(q, a, had, n)
  <2>1. RequestAccess(u, a) /\ UNCHANGED receiving
    BY <1>1, <1>13
  <2>. HIDE DEF had
  <2>2. SameAccess(q, u) /\ AllExact(u)
    BY <1>7, <1>10, <1>11, NeedBackoffType, NeedBackoffExact
  <2>. HIDE DEF u
  <2>3. Sound(u, receiving)
    BY <1>9, <2>2, SameAccessSound
  <2>4. RxKnown(u, receiving)
    BY <1>11, <2>2 DEF RxKnown, SameAccess
  <2>. QED  BY <1>0, <2>1, <2>2, <2>3, <2>4, RequestAccessExact
<1>. QED  BY <1>1, <1>12, <1>13

\* The queued frames of an EDCAF that holds no TXOP expire.
LEMMA ExpireExact ==
  ASSUME IInv, Countdown, NEW a \in Edcafs, Expire(a)
  PROVE  Countdown'
<1>. DEFINE M == Manager
<1>0. /\ M \in Managers /\ AllExact(M) /\ RxKnown(M, receiving) /\ M.edcaf = edcaf
  BY ManagerCounts
<1>1. PICK z \in 0 .. MaxFrames : z = 0
  BY ChannelAccessAssumption
<1>. DEFINE e == [M.edcaf[a] EXCEPT !.frames = z]
            r == [M EXCEPT !.edcaf = [M.edcaf EXCEPT ![a] = e]]
<1>2. Becomes(r) /\ receiving' = receiving
  BY <1>0, <1>1 DEF Expire, Becomes, Manager
<1>. HIDE DEF M
<1>3. M.edcaf \in [Edcafs -> EdcafRecord] /\ M.edcaf[a] \in EdcafRecord
  BY <1>0, ManagerFields
<1>4. e \in EdcafRecord /\ e.slots = M.edcaf[a].slots /\ e.start = M.edcaf[a].start
  BY <1>3 DEF EdcafRecord
<1>. HIDE DEF e
<1>5. [M.edcaf EXCEPT ![a] = e] \in [Edcafs -> EdcafRecord]
  BY <1>3, <1>4
<1>6. /\ r \in Managers /\ r.medium = M.medium /\ r.counter = M.counter
      /\ r.edcaf = [M.edcaf EXCEPT ![a] = e]
  BY <1>0, <1>5 DEF Managers
<1>. HIDE DEF r
<1>7. SameBackoffs(M, r)
  BY <1>3, <1>4, <1>6 DEF SameBackoffs
<1>8. AllExact(r) /\ RxKnown(r, receiving')
  BY <1>0, <1>2, <1>6, <1>7, SameBackoffsExact DEF RxKnown
<1>. QED  BY <1>2, <1>6, <1>8, BecomesExact

\* The access timeout.
LEMMA AccessTimeoutExact ==
  ASSUME IInv, Countdown, AccessTimeout
  PROVE  Countdown'
<1>. DEFINE M == Manager
            m == [M EXCEPT !.timer = NoTimer]
            u == UpdateBackoff(m)
<1>0. /\ M \in Managers /\ Sound(M, receiving) /\ AllExact(M) /\ RxKnown(M, receiving)
      /\ receiving \in BOOLEAN
  BY ManagerCounts
<1>1. GrantAndRestart(u) /\ UNCHANGED receiving
  BY DEF AccessTimeout
<1>. HIDE DEF M, u
<1>2. m \in Managers /\ m.medium = M.medium /\ m.edcaf = M.edcaf /\ m.counter = M.counter
  BY <1>0 DEF Managers, Timers
<1>3. Sound(m, receiving)
  BY <1>0, <1>2 DEF Sound, Held, Granted
<1>4. AllExact(m)
  <2>1. SameBackoffs(M, m)
    BY <1>2 DEF SameBackoffs
  <2>. QED  BY <1>0, <1>2, <2>1, SameBackoffsExact
<1>. HIDE DEF m
<1>5. Sound(u, receiving) /\ u.medium = m.medium
  BY <1>2, <1>3, UpdateBackoffType, SameAccessSound DEF u, SameAccess
<1>6. AllExact(u) /\ Counted(u)
  BY <1>2, <1>4, UpdateBackoffExact DEF u
<1>7. RxKnown(u, receiving)
  BY <1>0, <1>2, <1>5 DEF RxKnown
<1>. QED  BY <1>0, <1>1, <1>5, <1>6, <1>7, GrantAndRestartExact

----------------------------------------------------------------------------
(***************************************************************************)
(* The PHY and the NAV.                                                    *)
(***************************************************************************)
\* The bound on what is kept of the past.
LEMMA OldestIs ==
  /\ Oldest \in Int /\ Oldest + EifsNoDifs + Sifs <= 0 /\ Oldest <= 0
  /\ Oldest + EifsNoDifs + Sifs + Slot <= 0
  /\ \A a \in Edcafs :
       Oldest + EifsNoDifs + Sifs + Aifsn[a] * Slot + (2 + MaxBackoff) * Slot <= 0
<1>. DEFINE x == Max({Aifsn[a] : a \in Edcafs})
            n == 2 + MaxBackoff
<1>1. /\ x \in Nat /\ \A a \in Edcafs : Aifsn[a] <= x
      /\ n \in Nat /\ n > 0 /\ Slot \in Nat /\ Sifs \in Nat /\ EifsNoDifs \in Nat
      /\ \A a \in Edcafs : Aifsn[a] \in Nat
  BY MaxAifsn, ChannelAccessAssumption
<1>2. Oldest = -(Sifs + EifsNoDifs + Slot * (n + x))
  BY DEF Oldest
<1>. HIDE DEF x, n
<1>3. /\ Slot * (n + x) = n * Slot + x * Slot /\ n * Slot \in Nat /\ x * Slot \in Nat
      /\ Slot * (n + x) \in Nat
  BY <1>1
<1>4. Slot <= n * Slot
  <2>1. 1 <= n /\ 1 * Slot = Slot /\ n \in Int
    BY <1>1
  <2>. QED  BY <2>1, SlotsMonotone
<1>5. ASSUME NEW a \in Edcafs
      PROVE  Aifsn[a] * Slot <= x * Slot /\ Aifsn[a] * Slot \in Int
  <2>1. Aifsn[a] \in Int /\ x \in Int /\ Aifsn[a] <= x
    BY <1>1
  <2>. QED  BY <2>1, SlotsMonotone, SlotsAdd
<1>6. \A a \in Edcafs : Oldest + EifsNoDifs + Sifs + Aifsn[a] * Slot + n * Slot <= 0
  BY <1>1, <1>2, <1>3, <1>5
<1>7. \A a \in Edcafs : Oldest + EifsNoDifs + Sifs + Aifsn[a] * Slot + (2 + MaxBackoff) * Slot <= 0
  BY <1>6 DEF n
<1>. QED  BY <1>1, <1>2, <1>3, <1>4, <1>7

\* The backoffs that are up to date are exact when a busy period is set that is not over.
LEMMA BusyExact ==
  ASSUME NEW m \in Managers, Counted(m), NEW d \in MediumRecord,
         d.busyEnd >= 0 \/ d.rxEnd >= 0 \/ d.navEnd >= 0 \/ d.ackEnd >= 0,
         NEW r, r = [m EXCEPT !.medium = d]
  PROVE  /\ r \in Managers /\ r.medium = d /\ r.edcaf = m.edcaf
         /\ AccessGrantStart(r) > 0 /\ Counted(r) /\ AllExact(r)
<1>1. r \in Managers /\ r.medium = d /\ r.edcaf = m.edcaf /\ r.counter = m.counter
  BY DEF Managers
<1>2. Counted(r)
  BY <1>1 DEF Counted
<1>3. AccessGrantStart(r) > 0
  <2>1. /\ AccessGrantStart(r) \in Int
        /\ AccessGrantStart(r) >= Sifs + d.busyEnd /\ AccessGrantStart(r) >= Sifs + d.rxEnd
        /\ AccessGrantStart(r) >= Sifs + d.navEnd /\ AccessGrantStart(r) >= Sifs + d.ackEnd
    BY <1>1, AccessGrantStartAfter
  <2>2. /\ d.busyEnd \in Int /\ d.rxEnd \in Int /\ d.navEnd \in Int /\ d.ackEnd \in Int
        /\ Sifs \in Nat /\ Sifs > 0
    BY ChannelAccessAssumption DEF MediumRecord
  <2>. QED  BY <2>1, <2>2
<1>. QED  BY <1>1, <1>2, <1>3, ExactIsCounted

\* The manager of a state, brought up to date.
LEMMA UpdatedManager ==
  ASSUME NEW m \in Managers, AllExact(m)
  PROVE  LET u == UpdateBackoff(m)
         IN /\ u \in Managers /\ u.medium = m.medium /\ u.medium \in MediumRecord
            /\ u.medium.navEnd \in Int
            /\ AllExact(u) /\ Counted(u)
<1>. DEFINE u == UpdateBackoff(m)
<1>1. u \in Managers /\ u.medium = m.medium
  BY UpdateBackoffType DEF SameAccess
<1>2. AllExact(u) /\ Counted(u)
  BY UpdateBackoffExact
<1>. HIDE DEF u
<1>3. u.medium \in MediumRecord /\ u.medium.navEnd \in Int
  BY <1>1, ManagerFields
<1>. QED  BY <1>1, <1>2, <1>3 DEF u

\* The PHY starts to receive.
LEMMA NotifyRxStartExact ==
  ASSUME IInv, Countdown, NEW d \in BusyTimes, NotifyRxStartNow(d)
  PROVE  Countdown'
<1>0. PICK z \in Int : z = 0
  OBVIOUS
<1>. DEFINE M == Manager
            m == UpdateBackoff(M)
            c == [m.medium EXCEPT !.rxEnd = d, !.rxOk = TRUE]
            r == [m EXCEPT !.medium = c]
            c0 == [c EXCEPT !.ackEnd = z]
            s == [r EXCEPT !.medium = c0]
            t == RestartAccessTimeout(s)
<1>1. M \in Managers /\ AllExact(M)
  BY ManagerCounts
<1>2. /\ m \in Managers /\ m.medium \in MediumRecord /\ Counted(m)
  BY <1>1, UpdatedManager
<1>3. Becomes(r) \/ Becomes(t)
  BY <1>0, <1>2 DEF NotifyRxStartNow, Managers, MediumRecord
<1>4. receiving' = TRUE
  BY DEF NotifyRxStartNow
<1>. HIDE DEF M, m
<1>5. d \in Int /\ d > 0 /\ TRUE \in BOOLEAN
  BY ChannelAccessAssumption
<1>6. c \in MediumRecord /\ c.rxEnd = d /\ c.rxOk = TRUE
  BY <1>2, <1>5 DEF MediumRecord
<1>. HIDE DEF c
<1>7. c0 \in MediumRecord /\ c0.rxEnd = d /\ c0.rxOk = TRUE
  BY <1>6 DEF MediumRecord
<1>. HIDE DEF c0
<1>8. r \in Managers /\ r.medium = c /\ Counted(r) /\ AllExact(r)
  <2>1. c.rxEnd >= 0 /\ r = [m EXCEPT !.medium = c]
    BY <1>5, <1>6
  <2>. HIDE DEF r
  <2>. QED  BY <1>2, <1>6, <2>1, BusyExact
<1>. HIDE DEF r
<1>9. s \in Managers /\ s.medium = c0 /\ AllExact(s)
  <2>1. c0.rxEnd >= 0 /\ s = [r EXCEPT !.medium = c0]
    BY <1>5, <1>7
  <2>. HIDE DEF s
  <2>. QED  BY <1>7, <1>8, <2>1, BusyExact
<1>. HIDE DEF s
<1>10. t \in Managers /\ t.medium = c0 /\ AllExact(t)
  BY <1>9, RestartExact
<1>. HIDE DEF t
<1>11. RxKnown(r, TRUE) /\ RxKnown(t, TRUE)
  <2>1. d >= Oldest
    BY <1>5, OldestIs
  <2>. QED  BY <1>5, <1>6, <1>7, <1>8, <1>10, <2>1 DEF RxKnown
<1>. QED  BY <1>3, <1>4, <1>8, <1>10, <1>11, BecomesExact

\* A holder ends its TXOP at an instant at which the medium is not free yet.
LEMMA EndTxopExact ==
  ASSUME IInv, NEW m \in Managers, m.edcaf = edcaf, Counted(m), RxKnown(m, receiving'),
         AccessGrantStart(m) > 0, Holders # {}, NEW sent \in BOOLEAN, NEW n \in Draws,
         Becomes(EndTxop(m, Min(Holders), sent, n))
  PROVE  Countdown'
<1>. DEFINE a == Min(Holders)
            d == IF sent THEN [m EXCEPT !.edcaf[a].frames = m.edcaf[a].frames - 1] ELSE m
            md == [d.medium EXCEPT !.waiting = FALSE]
            d1 == [d EXCEPT !.medium = md]
            r == Release(d1, a, n)
            t == RestartAccessTimeout(r)
            e == [m.edcaf[a] EXCEPT !.frames = m.edcaf[a].frames - 1]
<1>0. /\ Sound(Manager, receiving) /\ Manager.edcaf = edcaf /\ Granted(Manager) = Holders
  BY ManagerOK
<1>1. a \in Holders
  <2>1. Holders \subseteq Nat
    BY ChannelAccessAssumption DEF Edcafs, Holders
  <2>. QED  BY <2>1, MinOfNats
<1>2. Becomes(t)
  <2>. DEFINE x == [d EXCEPT !.medium.waiting = FALSE]
  <2>1. Becomes(RestartAccessTimeout(Release(x, a, n)))
    BY DEF EndTxop
  <2>. QED  BY <2>1
<1>. HIDE DEF a
<1>3. a \in Edcafs /\ m.edcaf[a].frames > 0
  BY <1>0, <1>1 DEF Sound, Holders
<1>4. m.edcaf \in [Edcafs -> EdcafRecord] /\ m.edcaf[a] \in EdcafRecord
  BY <1>3, ManagerFields
<1>5. d \in Managers /\ d.medium = m.medium /\ SameBackoffs(m, d)
  <2>1. CASE sent
    <3>0. m.edcaf[a].frames - 1 \in 0 .. MaxFrames
      <4>1. m.edcaf[a].frames \in 0 .. MaxFrames
        BY <1>4 DEF EdcafRecord
      <4>. QED  BY <1>3, <4>1, ChannelAccessAssumption
    <3>1. e \in EdcafRecord /\ e.slots = m.edcaf[a].slots /\ e.start = m.edcaf[a].start
      BY <1>4, <3>0 DEF EdcafRecord
    <3>2. d = [m EXCEPT !.edcaf = [m.edcaf EXCEPT ![a] = e]]
      BY <1>3, <1>4, <2>1 DEF Managers
    <3>. HIDE DEF e, d
    <3>3. [m.edcaf EXCEPT ![a] = e] \in [Edcafs -> EdcafRecord]
      BY <1>4, <3>1
    <3>4. /\ d \in Managers /\ d.medium = m.medium /\ d.counter = m.counter
          /\ d.edcaf = [m.edcaf EXCEPT ![a] = e]
      BY <3>2, <3>3 DEF Managers
    <3>. QED  BY <1>4, <3>1, <3>4 DEF SameBackoffs
  <2>2. CASE ~sent
    BY <2>2 DEF SameBackoffs
  <2>. QED  BY <2>1, <2>2
<1>6. /\ md \in MediumRecord /\ md.rxEnd = m.medium.rxEnd /\ md.rxOk = m.medium.rxOk
      /\ md.busyEnd = m.medium.busyEnd /\ md.txEnd = m.medium.txEnd
      /\ md.navEnd = m.medium.navEnd /\ md.ackEnd = m.medium.ackEnd
  <2>1. d.medium \in MediumRecord
    BY <1>5, ManagerFields
  <2>. HIDE DEF d
  <2>. QED  BY <1>5, <2>1 DEF MediumRecord
<1>. HIDE DEF md
<1>7. d1 \in Managers /\ d1.medium = md /\ SameBackoffs(d, d1)
  <2>. HIDE DEF d
  <2>. QED  BY <1>5, <1>6 DEF Managers, SameBackoffs
<1>. HIDE DEF d, d1
<1>8. Counted(d1)
  BY <1>5, <1>7, SameBackoffsExact
<1>9. r \in Managers /\ r.medium = md /\ Counted(r)
  BY <1>3, <1>7, <1>8, ReleaseType, ReleaseIs
<1>. HIDE DEF r
<1>10. AllExact(r)
  <2>1. AccessGrantStart(r) > 0
    BY <1>6, <1>9 DEF AccessGrantStart
  <2>. QED  BY <1>8, <1>9, <2>1, ExactIsCounted
<1>11. t \in Managers /\ t.medium = md /\ AllExact(t)
  BY <1>9, <1>10, RestartExact
<1>. HIDE DEF t
<1>12. RxKnown(t, receiving')
  BY <1>6, <1>11 DEF RxKnown
<1>. QED  BY <1>2, <1>11, <1>12, BecomesExact

\* A reception ends.
LEMMA RxEndExact ==
  ASSUME IInv, Countdown, NEW ok \in BOOLEAN, NEW isAck \in BOOLEAN, NEW n \in Draws,
         RxEnd(ok, isAck, n)
  PROVE  Countdown'
<1>0. PICK z \in Int : z = 0
  OBVIOUS
<1>. DEFINE M == Manager
            c == [M.medium EXCEPT !.rxOk = ok]
            m == [M EXCEPT !.medium = c]
            k == IF isAck THEN z ELSE c.ackEnd
            c0 == [c EXCEPT !.ackEnd = k]
            s == [m EXCEPT !.medium = c0]
<1>1. /\ M \in Managers /\ AllExact(M) /\ M.edcaf = edcaf /\ M.medium = medium
      /\ RxKnown(M, receiving)
  BY ManagerCounts
<1>2. medium.rxEnd = 0 /\ receiving' = FALSE
  BY DEF RxEnd
<1>3. \/ Becomes(m)
      \/ Holders # {} /\ Becomes(EndTxop(s, Min(Holders), isAck, n))
  BY <1>0, <1>1 DEF RxEnd, Waiting, Managers, MediumRecord
<1>. HIDE DEF M
<1>4. M.medium \in MediumRecord
  BY <1>1, ManagerFields
<1>5. Counted(M)
  BY <1>1, <1>2, NotFreeYet, ExactIsCounted
<1>6. c \in MediumRecord /\ c.rxEnd = 0 /\ c.ackEnd \in Int
  BY <1>1, <1>2, <1>4 DEF MediumRecord
<1>7. k \in Int
  BY <1>6
<1>. HIDE DEF c, k
<1>8. c0 \in MediumRecord /\ c0.rxEnd = 0
  BY <1>6, <1>7 DEF MediumRecord
<1>. HIDE DEF c0
<1>9. m \in Managers /\ m.medium = c /\ m.edcaf = M.edcaf /\ Counted(m) /\ AllExact(m)
  <2>1. c.rxEnd >= 0 /\ m = [M EXCEPT !.medium = c]
    BY <1>6
  <2>. HIDE DEF m
  <2>. QED  BY <1>1, <1>5, <1>6, <2>1, BusyExact
<1>. HIDE DEF m
<1>10. /\ s \in Managers /\ s.medium = c0 /\ s.edcaf = m.edcaf /\ Counted(s)
       /\ AccessGrantStart(s) > 0
  <2>1. c0.rxEnd >= 0 /\ s = [m EXCEPT !.medium = c0]
    BY <1>8
  <2>. HIDE DEF s
  <2>. QED  BY <1>8, <1>9, <2>1, BusyExact
<1>. HIDE DEF s
<1>11. RxKnown(m, FALSE) /\ RxKnown(s, FALSE)
  <2>1. 0 >= Oldest
    BY OldestIs
  <2>. QED  BY <1>6, <1>8, <1>9, <1>10, <2>1 DEF RxKnown
<1>12. s.edcaf = edcaf
  BY <1>1, <1>9, <1>10
<1>13. CASE Becomes(m)
  BY <1>2, <1>9, <1>11, <1>13, BecomesExact
<1>14. CASE Holders # {} /\ Becomes(EndTxop(s, Min(Holders), isAck, n))
  BY <1>2, <1>10, <1>11, <1>12, <1>14, EndTxopExact
<1>. QED  BY <1>3, <1>13, <1>14

\* The response timer expires.
LEMMA ResponseTimeoutExact ==
  ASSUME IInv, Countdown, NEW n \in Draws, ResponseTimeout(n)
  PROVE  Countdown'
<1>1. /\ Manager \in Managers /\ Manager.edcaf = edcaf /\ Manager.medium = medium
      /\ AllExact(Manager) /\ RxKnown(Manager, receiving)
  BY ManagerCounts
<1>2. /\ Holders # {} /\ ~receiving /\ medium.ackEnd = 0 /\ UNCHANGED receiving
      /\ Becomes(EndTxop(Manager, Min(Holders), FALSE, n))
  BY DEF ResponseTimeout, Waiting
<1>3. receiving' = FALSE /\ receiving = FALSE /\ FALSE \in BOOLEAN
  BY <1>2, Zenon DEF IInv
<1>4. AccessGrantStart(Manager) > 0
  BY <1>1, <1>2, NotFreeYet
<1>5. Counted(Manager) /\ RxKnown(Manager, receiving')
  BY <1>1, <1>3, <1>4, ExactIsCounted
<1>. QED  BY <1>1, <1>2, <1>3, <1>4, <1>5, EndTxopExact

\* A transmission without a response ends.
LEMMA TransmissionDoneExact ==
  ASSUME IInv, Countdown, NEW sent \in BOOLEAN, NEW n \in Draws, TransmissionDone(sent, n)
  PROVE  Countdown'
<1>1. /\ Manager \in Managers /\ Manager.edcaf = edcaf /\ Manager.medium = medium
      /\ AllExact(Manager) /\ RxKnown(Manager, receiving)
  BY ManagerCounts
<1>2. /\ Holders # {} /\ medium.txEnd = 0 /\ receiving' = receiving
      /\ Becomes(EndTxop(Manager, Min(Holders), sent, n))
  BY DEF TransmissionDone
<1>3. AccessGrantStart(Manager) > 0
  BY <1>1, <1>2, NotFreeYet
<1>4. Counted(Manager) /\ RxKnown(Manager, receiving')
  BY <1>1, <1>2, <1>3, ExactIsCounted
<1>. QED  BY <1>1, <1>2, <1>3, <1>4, EndTxopExact

\* A CCA busy period starts.
LEMMA CcaBusyStartExact ==
  ASSUME IInv, Countdown, NEW d \in BusyTimes, NotifyCcaBusyStartNow(d)
  PROVE  Countdown'
<1>. DEFINE m == UpdateBackoff(Manager)
            c == [m.medium EXCEPT !.busyEnd = d]
            r == [m EXCEPT !.medium = c]
<1>0. /\ Manager \in Managers /\ AllExact(Manager) /\ RxKnown(Manager, receiving)
  BY ManagerCounts
<1>1. /\ m \in Managers /\ m.medium \in MediumRecord /\ Counted(m) /\ m.medium = Manager.medium
  BY <1>0, UpdatedManager
<1>. HIDE DEF m
<1>2. Becomes(r) /\ receiving' = receiving
  BY <1>1 DEF NotifyCcaBusyStartNow, m, Managers, MediumRecord
<1>3. d \in Int /\ d >= 0
  BY ChannelAccessAssumption
<1>4. /\ c \in MediumRecord /\ c.busyEnd = d /\ c.rxEnd = m.medium.rxEnd
      /\ c.rxOk = m.medium.rxOk
  BY <1>1, <1>3 DEF MediumRecord
<1>5. r = [m EXCEPT !.medium = c] /\ c.busyEnd >= 0
  BY <1>3, <1>4
<1>. HIDE DEF c, r
<1>6. r \in Managers /\ r.medium = c /\ AllExact(r)
  BY <1>1, <1>4, <1>5, BusyExact
<1>7. RxKnown(r, receiving')
  BY <1>0, <1>1, <1>2, <1>4, <1>6 DEF RxKnown
<1>. QED  BY <1>2, <1>6, <1>7, BecomesExact

\* A CCA busy period ends before its time: it was busy, and what passed of the
\* backoffs had been counted.
LEMMA CcaResetExact ==
  ASSUME IInv, Countdown, CcaReset
  PROVE  Countdown'
<1>0. PICK z \in Int : z = 0
  OBVIOUS
<1>. DEFINE M == Manager
            c0 == [M.medium EXCEPT !.rxEnd = z, !.rxOk = TRUE]
            s == [M EXCEPT !.medium = c0]
            m == UpdateBackoff(s)
            c == [m.medium EXCEPT !.busyEnd = z]
            r == [m EXCEPT !.medium = c]
<1>1. /\ M \in Managers /\ AllExact(M) /\ M.medium = medium
  BY ManagerCounts
<1>2. receiving' = receiving /\ medium.busyEnd > 0
  BY DEF CcaReset
<1>3. Becomes([UpdateBackoff(s) EXCEPT !.medium.busyEnd = z])
  <2>1. s = [Manager EXCEPT !.medium.rxEnd = 0, !.medium.rxOk = TRUE]
    BY <1>0, <1>1 DEF Managers, MediumRecord
  <2>. HIDE DEF s
  <2>. QED  BY <1>0, <2>1 DEF CcaReset
<1>4. Counted(M)
  <2>1. AccessGrantStart(M) \in Int /\ AccessGrantStart(M) >= Sifs + M.medium.busyEnd
    BY <1>1, AccessGrantStartAfter
  <2>2. Sifs \in Nat /\ M.medium.busyEnd \in Int
    BY <1>1, ManagerFields, ChannelAccessAssumption
  <2>3. AccessGrantStart(M) > 0
    BY <1>1, <1>2, <2>1, <2>2
  <2>. QED  BY <1>1, <2>3, ExactIsCounted
<1>. HIDE DEF M
<1>5. M.medium \in MediumRecord /\ TRUE \in BOOLEAN
  BY <1>1, ManagerFields
<1>6. c0 \in MediumRecord /\ c0.rxEnd = z /\ c0.rxOk = TRUE
  BY <1>5 DEF MediumRecord
<1>7. s = [M EXCEPT !.medium = c0] /\ c0.rxEnd >= 0
  BY <1>0, <1>6
<1>. HIDE DEF c0, s
<1>8. s \in Managers /\ s.medium = c0 /\ AllExact(s)
  BY <1>1, <1>4, <1>6, <1>7, BusyExact
<1>9. m \in Managers /\ m.medium \in MediumRecord /\ Counted(m) /\ m.medium = c0
  BY <1>8, UpdatedManager
<1>. HIDE DEF m
<1>10. Becomes(r)
  BY <1>3, <1>9 DEF m, Managers, MediumRecord
<1>11. c \in MediumRecord /\ c.rxEnd = z /\ c.rxOk = TRUE
  BY <1>6, <1>9 DEF MediumRecord
<1>12. r = [m EXCEPT !.medium = c] /\ c.rxEnd >= 0
  BY <1>0, <1>11
<1>. HIDE DEF c, r
<1>13. r \in Managers /\ r.medium = c /\ AllExact(r)
  BY <1>9, <1>11, <1>12, BusyExact
<1>14. RxKnown(r, receiving')
  <2>1. 0 >= Oldest
    BY OldestIs
  <2>. QED  BY <1>0, <1>11, <1>13, <2>1 DEF RxKnown
<1>. QED  BY <1>10, <1>13, <1>14, BecomesExact

\* The NAV is set.
LEMMA NavStartExact ==
  ASSUME IInv, Countdown, NEW d \in BusyTimes, NotifyNavStartNow(d)
  PROVE  Countdown'
<1>. DEFINE m == UpdateBackoff(Manager)
            k == Max({m.medium.navEnd, d})
            c == [m.medium EXCEPT !.navEnd = k]
            r == [m EXCEPT !.medium = c]
<1>0. /\ Manager \in Managers /\ AllExact(Manager) /\ RxKnown(Manager, receiving)
  BY ManagerCounts
<1>1. /\ m \in Managers /\ m.medium \in MediumRecord /\ Counted(m) /\ m.medium = Manager.medium
      /\ m.medium.navEnd \in Int
  BY <1>0, UpdatedManager
<1>. HIDE DEF m
<1>2. Becomes(r) /\ receiving' = receiving
  BY <1>1 DEF NotifyNavStartNow, m, Managers, MediumRecord
<1>3. d \in Int /\ d >= 0
  BY ChannelAccessAssumption
<1>4. k \in Int /\ k >= 0
  <2>1. k \in Int /\ k >= d
    BY <1>1, <1>3, MaxOfTwo
  <2>. HIDE DEF k
  <2>. QED  BY <1>3, <2>1
<1>. HIDE DEF k
<1>5. /\ c \in MediumRecord /\ c.navEnd = k /\ c.rxEnd = m.medium.rxEnd
      /\ c.rxOk = m.medium.rxOk
  BY <1>1, <1>4 DEF MediumRecord
<1>6. r = [m EXCEPT !.medium = c] /\ c.navEnd >= 0
  BY <1>4, <1>5
<1>. HIDE DEF c, r
<1>7. r \in Managers /\ r.medium = c /\ AllExact(r)
  BY <1>1, <1>5, <1>6, BusyExact
<1>8. RxKnown(r, receiving')
  BY <1>0, <1>1, <1>2, <1>5, <1>7 DEF RxKnown
<1>. QED  BY <1>2, <1>7, <1>8, BecomesExact

\* The NAV is reset.
LEMMA NavResetExact ==
  ASSUME IInv, Countdown, NotifyNavResetNow
  PROVE  Countdown'
<1>0. PICK z \in Int : z = 0
  OBVIOUS
<1>. DEFINE m == UpdateBackoff(Manager)
            c == [m.medium EXCEPT !.navEnd = z]
            r == [m EXCEPT !.medium = c]
            t == RestartAccessTimeout(r)
<1>1. /\ Manager \in Managers /\ AllExact(Manager) /\ RxKnown(Manager, receiving)
  BY ManagerCounts
<1>2. /\ m \in Managers /\ m.medium \in MediumRecord /\ Counted(m) /\ m.medium = Manager.medium
  BY <1>1, UpdatedManager
<1>. HIDE DEF m
<1>3. receiving' = receiving
  BY DEF NotifyNavResetNow
<1>4. Becomes(t)
  <2>1. r = [m EXCEPT !.medium.navEnd = 0]
    BY <1>0, <1>2 DEF Managers, MediumRecord
  <2>. HIDE DEF r
  <2>. QED  BY <2>1 DEF NotifyNavResetNow, m
<1>5. /\ c \in MediumRecord /\ c.navEnd = z /\ c.rxEnd = m.medium.rxEnd
      /\ c.rxOk = m.medium.rxOk
  BY <1>2 DEF MediumRecord
<1>6. r = [m EXCEPT !.medium = c] /\ c.navEnd >= 0
  BY <1>0, <1>5
<1>. HIDE DEF c, r
<1>7. r \in Managers /\ r.medium = c /\ AllExact(r)
  BY <1>2, <1>5, <1>6, BusyExact
<1>8. t \in Managers /\ t.medium = c /\ AllExact(t)
  BY <1>7, RestartExact
<1>. HIDE DEF t
<1>9. RxKnown(t, receiving')
  BY <1>1, <1>2, <1>3, <1>5, <1>8 DEF RxKnown
<1>. QED  BY <1>4, <1>8, <1>9, BecomesExact

----------------------------------------------------------------------------
(***************************************************************************)
(* Time passes.                                                            *)
(***************************************************************************)
\* By how much times age at a tick.
Step == IF LatestEnd - 1 < Oldest + EifsNoDifs THEN Slot - 1 ELSE -1

\* What a time that is not later than the latest end ages to.
LEMMA AgedIs ==
  ASSUME LatestEnd \in Int, LatestEnd >= Oldest, NEW t \in Int
  PROVE  /\ Step \in Int /\ Step >= -1 /\ LatestEnd + Step >= Oldest
         /\ \/ Step = -1 /\ LatestEnd - 1 >= Oldest + EifsNoDifs
            \/ Step = Slot - 1 /\ LatestEnd <= Oldest + EifsNoDifs
         /\ Aged(t) \in Int /\ Aged(t) >= t + Step /\ Aged(t) >= Oldest
         /\ Aged(t) = t + Step \/ Aged(t) = Oldest
         /\ AgedEnd(t) \in Int /\ AgedEnd(t) >= Oldest
         /\ AgedEnd(t) = Oldest \/ AgedEnd(t) = Aged(t)
         /\ t <= 0 /\ t < LatestEnd => AgedEnd(t) = Oldest
         /\ t <= LatestEnd => AgedEnd(t) <= LatestEnd + Step
         /\ t = LatestEnd => AgedEnd(t) = LatestEnd + Step
<1>. DEFINE L == LatestEnd
<1>1. /\ Oldest \in Int /\ Slot \in Nat /\ Slot > 0 /\ EifsNoDifs \in Nat
  BY OldestIs, ChannelAccessAssumption
<1>2. /\ \/ Step = -1 /\ L - 1 >= Oldest + EifsNoDifs
         \/ Step = Slot - 1 /\ L <= Oldest + EifsNoDifs
  BY <1>1 DEF Step
<1>3. Step \in Int /\ Step >= -1 /\ L + Step >= Oldest
  BY <1>1, <1>2
<1>4. Aged(t) = Max({t + Step, Oldest})
  BY DEF Aged, Step
<1>5. AgedEnd(t) = IF t <= 0 /\ t < L THEN Oldest ELSE Aged(t)
  BY DEF AgedEnd
<1>. HIDE DEF L
<1>6. /\ Aged(t) \in Int /\ Aged(t) >= t + Step /\ Aged(t) >= Oldest
      /\ Aged(t) = t + Step \/ Aged(t) = Oldest
  <2>1. t + Step \in Int
    BY <1>3
  <2>2. PICK u \in Int, o \in Int : u = t + Step /\ o = Oldest
    BY <1>1, <2>1
  <2>3. Aged(t) = Max({u, o})
    BY <1>4, <2>2
  <2>4. PICK M : M = Max({u, o})
    OBVIOUS
  <2>5. M \in Int /\ M >= u /\ M >= o /\ (M = u \/ M = o)
    BY <2>4, MaxOfTwo
  <2>. QED  BY <2>2, <2>3, <2>4, <2>5
<1>7. /\ AgedEnd(t) \in Int /\ AgedEnd(t) >= Oldest
      /\ AgedEnd(t) = Oldest \/ AgedEnd(t) = Aged(t)
      /\ t <= 0 /\ t < L => AgedEnd(t) = Oldest
  BY <1>1, <1>5, <1>6
<1>8. t <= L => AgedEnd(t) <= L + Step
  BY <1>1, <1>3, <1>6, <1>7 DEF L
<1>9. t = L => AgedEnd(t) = L + Step
  BY <1>1, <1>3, <1>5, <1>6 DEF L
<1>. QED  BY <1>2, <1>3, <1>6, <1>7, <1>8, <1>9 DEF L

\* The end of the reception that counts: with the EIFS when it failed.
RxCounts(d) == IF d.rxEnd <= 0 /\ ~d.rxOk THEN d.rxEnd + EifsNoDifs ELSE d.rxEnd

\* The latest end.
LEMMA LatestEndIs ==
  ASSUME IInv, Countdown
  PROVE  /\ LatestEnd \in Int /\ LatestEnd >= Oldest
         /\ medium.busyEnd \in Int /\ medium.txEnd \in Int /\ medium.navEnd \in Int
         /\ medium.ackEnd \in Int /\ medium.rxEnd \in Int /\ RxCounts(medium) \in Int
         /\ LatestEnd = Max({medium.busyEnd, RxCounts(medium), medium.txEnd, medium.navEnd,
                             medium.ackEnd})
         /\ LatestEnd >= medium.busyEnd /\ LatestEnd >= medium.txEnd
         /\ LatestEnd >= medium.navEnd /\ LatestEnd >= medium.ackEnd
         /\ LatestEnd >= RxCounts(medium) /\ LatestEnd >= medium.rxEnd
         /\ AccessGrantStart(Manager) = Sifs + LatestEnd
<1>. DEFINE x == Max({medium.busyEnd, RxCounts(medium), medium.txEnd, medium.navEnd, medium.ackEnd})
<1>1. /\ Manager \in Managers /\ Manager.medium = medium /\ RxKnown(Manager, receiving)
  BY ManagerCounts
<1>2. /\ medium.busyEnd \in Int /\ medium.txEnd \in Int /\ medium.navEnd \in Int
      /\ medium.ackEnd \in Int /\ medium.rxEnd \in Int
  BY <1>1, ManagerFields
<1>3. Sifs \in Nat /\ EifsNoDifs \in Nat /\ Oldest \in Int
  BY OldestIs, ChannelAccessAssumption
<1>4. RxCounts(medium) \in Int /\ RxCounts(medium) >= medium.rxEnd
  BY <1>2, <1>3 DEF RxCounts
<1>5. AccessGrantStart(Manager) = Sifs + x
  BY <1>1 DEF AccessGrantStart, RxCounts
<1>6. /\ x \in Int /\ x >= medium.busyEnd /\ x >= RxCounts(medium) /\ x >= medium.txEnd
      /\ x >= medium.navEnd /\ x >= medium.ackEnd
  BY <1>2, <1>4, MaxOfFive
<1>7. medium.rxEnd >= Oldest
  BY <1>1 DEF RxKnown
<1>8. LatestEnd = AccessGrantStart(Manager) - Sifs
  BY DEF LatestEnd
<1>9. LatestEnd = Max({medium.busyEnd, RxCounts(medium), medium.txEnd, medium.navEnd, medium.ackEnd})
  <2>1. LatestEnd = x
    <3>. HIDE DEF x
    <3>. QED  BY <1>3, <1>5, <1>6, <1>8
  <2>. QED  BY <2>1
<1>10. LatestEnd = x
  BY <1>9
<1>. HIDE DEF x
<1>. QED  BY <1>2, <1>3, <1>4, <1>5, <1>6, <1>7, <1>9, <1>10

\* The end of the last reception ages like the others, an EIFS before them.
LEMMA AgedRxEndIs ==
  ASSUME IInv, Countdown, NEW d, d.rxEnd = AgedRxEnd, d.rxOk = medium.rxOk
  PROVE  /\ AgedRxEnd \in Int /\ AgedRxEnd >= Oldest
         /\ AgedRxEnd > 0 => receiving
         /\ RxCounts(d) \in Int
         /\ RxCounts(d) <= LatestEnd + Step
         /\ RxCounts(medium) = LatestEnd => RxCounts(d) = LatestEnd + Step
<1>. DEFINE L == LatestEnd
            e == medium.rxEnd
            rx == RxCounts(medium)
            rx2 == RxCounts(d)
<1>1. L \in Int /\ L >= Oldest /\ e \in Int /\ rx \in Int /\ L >= e /\ L >= rx
  BY LatestEndIs
<1>2. /\ receiving => medium.rxOk
      /\ e > 0 => receiving
      /\ e >= Oldest
      /\ medium.rxOk \in BOOLEAN
  <2>1. Manager \in Managers /\ RxKnown(Manager, receiving) /\ Manager.medium = medium
    BY ManagerCounts
  <2>2. medium.rxOk \in BOOLEAN
    BY <2>1, ManagerFields
  <2>. QED  BY <2>1, <2>2 DEF RxKnown
<1>3. /\ Oldest \in Int /\ Slot \in Nat /\ Slot > 0 /\ EifsNoDifs \in Nat /\ Sifs \in Nat
      /\ Oldest + EifsNoDifs + Sifs + Slot <= 0 /\ Oldest <= 0
  BY OldestIs, ChannelAccessAssumption
<1>4. /\ Step \in Int /\ L + Step >= Oldest
      /\ \/ Step = -1 /\ L - 1 >= Oldest + EifsNoDifs
         \/ Step = Slot - 1 /\ L <= Oldest + EifsNoDifs
      /\ Aged(e) \in Int /\ Aged(e) >= e + Step /\ Aged(e) >= Oldest
      /\ Aged(e) = e + Step \/ Aged(e) = Oldest
      /\ AgedEnd(e) \in Int /\ AgedEnd(e) >= Oldest
      /\ AgedEnd(e) = Oldest \/ AgedEnd(e) = Aged(e)
      /\ e <= 0 /\ e < L => AgedEnd(e) = Oldest
      /\ e <= L => AgedEnd(e) <= L + Step
      /\ e = L => AgedEnd(e) = L + Step
  BY <1>1, AgedIs
<1>5. /\ medium.rxOk => rx = e /\ rx2 = AgedRxEnd /\ AgedRxEnd = AgedEnd(e)
      /\ ~medium.rxOk => /\ rx = IF e <= 0 THEN e + EifsNoDifs ELSE e
                         /\ rx2 = IF AgedRxEnd <= 0 THEN AgedRxEnd + EifsNoDifs ELSE AgedRxEnd
                         /\ AgedRxEnd = IF e + EifsNoDifs < L THEN AgedEnd(e) ELSE Aged(e)
  BY DEF RxCounts, AgedRxEnd
<1>. HIDE DEF L, e, rx, rx2
<1>6. AgedRxEnd \in Int /\ AgedRxEnd >= Oldest
  BY <1>4, <1>5
<1>7. AgedRxEnd > 0 => receiving
  <2>. SUFFICES ASSUME ~receiving PROVE AgedRxEnd <= 0
    BY <1>6
  <2>1. e <= 0
    BY <1>1, <1>2
  <2>2. Aged(e) <= 0
    BY <1>1, <1>3, <1>4, <2>1
  <2>. QED  BY <1>2, <1>3, <1>4, <1>5, <2>2
<1>8. CASE medium.rxOk
  <2>1. rx2 \in Int /\ rx2 <= L + Step /\ (rx = L => rx2 = L + Step)
    BY <1>1, <1>4, <1>5, <1>8
  <2>. QED  BY <1>6, <1>7, <2>1 DEF rx2, rx, L
<1>9. CASE ~medium.rxOk
  <2>1. e <= 0 /\ rx = e + EifsNoDifs
    BY <1>1, <1>2, <1>5, <1>9
  <2>2. CASE rx < L
    <3>1. AgedRxEnd = Oldest
      BY <1>1, <1>3, <1>4, <1>5, <1>9, <2>1, <2>2
    <3>2. rx2 = Oldest + EifsNoDifs
      BY <1>3, <1>5, <1>9, <3>1
    <3>3. Step = -1 /\ L - 1 >= Oldest + EifsNoDifs
      BY <1>1, <1>2, <1>3, <1>4, <2>1, <2>2
    <3>4. rx2 \in Int /\ rx2 <= L + Step
      BY <1>1, <1>3, <3>2, <3>3
    <3>5. rx # L
      BY <1>1, <2>2
    <3>. QED  BY <1>6, <1>7, <3>4, <3>5 DEF rx2, rx, L
  <2>3. CASE ~(rx < L)
    <3>1. rx = L
      BY <1>1, <2>3
    <3>2. AgedRxEnd = Aged(e)
      BY <1>1, <1>5, <1>9, <2>1, <2>3
    <3>3. Aged(e) = e + Step /\ Aged(e) <= 0
      BY <1>1, <1>2, <1>3, <1>4, <2>1, <3>1
    <3>4. rx2 = L + Step
      BY <1>1, <1>3, <1>4, <1>5, <1>9, <2>1, <3>1, <3>2, <3>3
    <3>5. rx2 \in Int /\ rx2 <= L + Step
      BY <1>1, <1>4, <3>4
    <3>. QED  BY <1>6, <1>7, <3>4, <3>5 DEF rx2, rx, L
  <2>. QED  BY <2>2, <2>3
<1>. QED  BY <1>2, <1>8, <1>9

\* One backoff at a tick.
LEMMA TickExactFor ==
  ASSUME IInv, Countdown, NEW a \in Edcafs,
         NEW c2, c2 = IF counter[a] > 0 /\ AtBoundary(Manager, a, 1) THEN counter[a] - 1 ELSE counter[a]
  PROVE  Exact(AgedStart(a), AifsEnd(Manager, a) + Step, edcaf[a].slots, c2)
<1>. DEFINE start == edcaf[a].start
            aifs == AifsEnd(Manager, a)
            n == edcaf[a].slots
            c == counter[a]
            start2 == AgedStart(a)
            L == LatestEnd
            w == Aifsn[a] * Slot
            h == (2 + MaxBackoff) * Slot
<1>1. /\ start \in Int /\ aifs \in Int /\ n \in Draws /\ c \in Draws /\ c \in Nat
      /\ Exact(start, aifs, n, c)
  <2>1. /\ Manager \in Managers /\ AllExact(Manager) /\ Manager.edcaf = edcaf
        /\ Manager.counter = counter
    BY ManagerCounts
  <2>2. ExactFor(Manager, a)
    BY <2>1 DEF AllExact
  <2>3. /\ edcaf[a].start \in Int /\ AifsEnd(Manager, a) \in Int /\ edcaf[a].slots \in Draws
        /\ counter[a] \in Draws /\ counter[a] \in Nat
    BY <2>1, BackoffFields
  <2>. QED  BY <2>1, <2>2, <2>3 DEF ExactFor
<1>2. /\ L \in Int /\ L >= Oldest /\ AccessGrantStart(Manager) = Sifs + L
  BY LatestEndIs
<1>3. /\ Oldest \in Int /\ Oldest <= 0
      /\ Oldest + EifsNoDifs + Sifs + w + h <= 0
      /\ Slot \in Nat /\ Slot > 0 /\ Sifs \in Nat /\ Sifs > 0 /\ EifsNoDifs \in Nat
      /\ w \in Nat /\ h \in Nat
  <2>1. Aifsn[a] \in Nat /\ 2 + MaxBackoff \in Nat /\ Slot \in Nat
    BY ChannelAccessAssumption
  <2>2. w \in Nat /\ h \in Nat
    BY <2>1, Product
  <2>. QED  BY <2>2, OldestIs, ChannelAccessAssumption
<1>4. aifs = Sifs + L + w
  BY <1>2 DEF AifsEnd
<1>5. /\ Step \in Int
      /\ \/ Step = -1 /\ L - 1 >= Oldest + EifsNoDifs
         \/ Step = Slot - 1 /\ L <= Oldest + EifsNoDifs
      /\ Aged(start) \in Int /\ Aged(start) >= start + Step /\ Aged(start) >= Oldest
      /\ Aged(start) = start + Step \/ Aged(start) = Oldest
  BY <1>1, <1>2, AgedIs
<1>6. start2 = IF start <= 0 /\ start <= aifs THEN Oldest ELSE Aged(start)
  BY DEF AgedStart
<1>7. c2 = IF c > 0 /\ 1 >= aifs /\ (1 - aifs) % Slot = 0 THEN c - 1 ELSE c
  BY DEF AtBoundary
<1>. HIDE DEF start, start2, aifs, n, c, L, w
<1>8. start2 \in Int
  BY <1>3, <1>5, <1>6
<1>9. CASE Step = -1 /\ L - 1 >= Oldest + EifsNoDifs
  <2>1. aifs - 1 > Oldest
    <3>. HIDE DEF h
    <3>. QED  BY <1>2, <1>3, <1>4, <1>9
  <2>. HIDE DEF h
  <2>2. start > aifs => start2 = start - 1
    BY <1>1, <1>3, <1>5, <1>6, <1>9, <2>1
  <2>3. start <= aifs => start2 <= aifs - 1
    BY <1>1, <1>3, <1>5, <1>6, <1>9, <2>1
  <2>4. start <= Slot => start2 <= Slot
    BY <1>1, <1>3, <1>5, <1>6, <1>9
  <2>5. Exact(start2, aifs - 1, n, c2)
    BY <1>1, <1>7, <1>8, <2>2, <2>3, <2>4, ExactTick
  <2>6. aifs + Step = aifs - 1
    BY <1>1, <1>9
  <2>. QED  BY <2>5, <2>6 DEF start2, aifs, n
<1>10. CASE Step = Slot - 1 /\ L <= Oldest + EifsNoDifs
  <2>1. aifs + h <= 0
    <3>. HIDE DEF h
    <3>. QED  BY <1>2, <1>3, <1>4, <1>10
  <2>2. aifs > Oldest
    <3>. HIDE DEF h
    <3>. QED  BY <1>2, <1>3, <1>4
  <2>3. start > aifs => start2 = start + (Slot - 1)
    <3>. HIDE DEF h
    <3>. QED  BY <1>1, <1>3, <1>5, <1>6, <1>10, <2>2
  <2>4. start <= aifs => start2 <= aifs + (Slot - 1)
    <3>. HIDE DEF h
    <3>. QED  BY <1>1, <1>3, <1>5, <1>6, <1>10, <2>2
  <2>5. aifs + (2 + MaxBackoff) * Slot <= 0
    BY <2>1
  <2>. HIDE DEF h
  <2>6. c = 0 /\ Exact(start2, aifs + (Slot - 1), n, 0)
    BY <1>1, <1>8, <2>3, <2>4, <2>5, ExactOld
  <2>7. c2 = 0
    BY <1>7, <2>6
  <2>8. aifs + Step = aifs + (Slot - 1)
    BY <1>10
  <2>. QED  BY <2>6, <2>7, <2>8 DEF start2, aifs, n
<1>. QED  BY <1>5, <1>9, <1>10

\* A tick: every backoff whose slot boundary is reached has a slot less.
LEMMA TickExact ==
  ASSUME IInv, Countdown, Tick
  PROVE  Countdown'
<1>. DEFINE M == Manager
            N == Manager'
            L == LatestEnd
<1>0. /\ M \in Managers /\ AllExact(M) /\ RxKnown(M, receiving) /\ M.edcaf = edcaf
      /\ M.medium = medium /\ M.counter = counter
  BY ManagerCounts
<1>1. IInv' /\ N \in Managers
  <2>1. IInv'
    BY TickIInv
  <2>. QED  BY <2>1 DEF IInv, Sound
<1>2. /\ edcaf' = [a \in Edcafs |-> [edcaf[a] EXCEPT !.start = AgedStart(a)]]
      /\ medium' = [busyEnd |-> AgedEnd(medium.busyEnd), txEnd |-> AgedEnd(medium.txEnd),
                    navEnd |-> AgedEnd(medium.navEnd), ackEnd |-> AgedEnd(medium.ackEnd),
                    rxEnd |-> AgedRxEnd, rxOk |-> medium.rxOk, waiting |-> medium.waiting]
      /\ counter' = [a \in Edcafs |->
           IF counter[a] > 0 /\ AtBoundary(M, a, 1) THEN counter[a] - 1 ELSE counter[a]]
      /\ UNCHANGED receiving
  BY DEF Tick
<1>3. N.edcaf = edcaf' /\ N.medium = medium' /\ N.counter = counter'
  BY DEF Manager
<1>. DEFINE d == medium'
            b2 == AgedEnd(medium.busyEnd)
            t2 == AgedEnd(medium.txEnd)
            n2 == AgedEnd(medium.navEnd)
            k2 == AgedEnd(medium.ackEnd)
            r2 == RxCounts(d)
<1>4. /\ d.busyEnd = b2 /\ d.txEnd = t2 /\ d.navEnd = n2 /\ d.ackEnd = k2
      /\ d.rxEnd = AgedRxEnd /\ d.rxOk = medium.rxOk
  BY <1>2
<1>5. /\ L \in Int /\ L >= Oldest
      /\ medium.busyEnd \in Int /\ medium.txEnd \in Int /\ medium.navEnd \in Int
      /\ medium.ackEnd \in Int /\ RxCounts(medium) \in Int
      /\ L = Max({medium.busyEnd, RxCounts(medium), medium.txEnd, medium.navEnd, medium.ackEnd})
      /\ L >= medium.busyEnd /\ L >= medium.txEnd /\ L >= medium.navEnd /\ L >= medium.ackEnd
      /\ L >= RxCounts(medium)
      /\ AccessGrantStart(M) = Sifs + L
  BY LatestEndIs
<1>6. /\ AgedRxEnd >= Oldest /\ (AgedRxEnd > 0 => receiving)
      /\ r2 \in Int /\ r2 <= L + Step /\ (RxCounts(medium) = L => r2 = L + Step)
  BY <1>4, AgedRxEndIs
<1>7. Step \in Int /\ Step >= -1 /\ L + Step >= Oldest
  BY <1>5, AgedIs
<1>8. /\ b2 \in Int /\ b2 <= L + Step /\ (medium.busyEnd = L => b2 = L + Step)
      /\ t2 \in Int /\ t2 <= L + Step /\ (medium.txEnd = L => t2 = L + Step)
      /\ n2 \in Int /\ n2 <= L + Step /\ (medium.navEnd = L => n2 = L + Step)
      /\ k2 \in Int /\ k2 <= L + Step /\ (medium.ackEnd = L => k2 = L + Step)
  <2>1. ASSUME NEW t \in Int, t <= L
        PROVE  /\ AgedEnd(t) \in Int /\ AgedEnd(t) <= L + Step
               /\ t = L => AgedEnd(t) = L + Step
    BY <1>5, <2>1, AgedIs
  <2>2. /\ medium.busyEnd <= L /\ medium.txEnd <= L /\ medium.navEnd <= L /\ medium.ackEnd <= L
    BY <1>5
  <2>. HIDE DEF L
  <2>. QED  BY <1>5, <2>1, <2>2
<1>9. AccessGrantStart(N) = Sifs + Max({b2, r2, t2, n2, k2})
  BY <1>3, <1>4 DEF AccessGrantStart, RxCounts
<1>. HIDE DEF b2, t2, n2, k2, r2, L
<1>10. Max({b2, r2, t2, n2, k2}) = L + Step
  <2>. DEFINE busy == medium.busyEnd
              tx == medium.txEnd
              nav == medium.navEnd
              ack == medium.ackEnd
              rx == RxCounts(medium)
              x == Max({b2, r2, t2, n2, k2})
  <2>1. /\ busy \in Int /\ tx \in Int /\ nav \in Int /\ ack \in Int /\ rx \in Int
        /\ L \in Int /\ L = Max({busy, rx, tx, nav, ack})
    BY <1>5
  <2>2. /\ b2 \in Int /\ t2 \in Int /\ n2 \in Int /\ k2 \in Int /\ r2 \in Int
        /\ Step \in Int
    BY <1>6, <1>7, <1>8
  <2>3. /\ b2 <= L + Step /\ (busy = L => b2 = L + Step)
        /\ t2 <= L + Step /\ (tx = L => t2 = L + Step)
        /\ n2 <= L + Step /\ (nav = L => n2 = L + Step)
        /\ k2 <= L + Step /\ (ack = L => k2 = L + Step)
        /\ r2 <= L + Step /\ (rx = L => r2 = L + Step)
    BY <1>6, <1>8
  <2>. HIDE DEF busy, tx, nav, ack, rx
  <2>4. L \in {busy, rx, tx, nav, ack}
    BY <2>1, MaxOfFive
  <2>5. /\ x \in {b2, r2, t2, n2, k2}
        /\ x >= b2 /\ x >= r2 /\ x >= t2 /\ x >= n2 /\ x >= k2
    BY <2>2, MaxOfFive
  <2>. HIDE DEF x
  <2>6. x = L + Step
    BY <2>1, <2>2, <2>3, <2>4, <2>5
  <2>. QED  BY <2>6 DEF x
<1>11. ASSUME NEW a \in Edcafs PROVE ExactFor(N, a)
  <2>1. AifsEnd(N, a) = AifsEnd(M, a) + Step
    <3>1. Aifsn[a] * Slot \in Int /\ Sifs \in Int
      BY ChannelAccessAssumption
    <3>2. AccessGrantStart(N) = AccessGrantStart(M) + Step /\ AccessGrantStart(M) \in Int
      BY <1>5, <1>7, <1>9, <1>10, <3>1
    <3>. HIDE DEF N, M
    <3>. QED  BY <1>7, <3>1, <3>2 DEF AifsEnd
  <2>2. /\ N.edcaf[a].start = AgedStart(a) /\ N.edcaf[a].slots = edcaf[a].slots
    <3>1. edcaf[a] \in EdcafRecord
      BY <1>0, ManagerFields
    <3>2. N.edcaf[a] = [edcaf[a] EXCEPT !.start = AgedStart(a)]
      BY <1>2, <1>3
    <3>. QED  BY <3>1, <3>2 DEF EdcafRecord
  <2>3. N.counter[a] = IF counter[a] > 0 /\ AtBoundary(Manager, a, 1) THEN counter[a] - 1 ELSE counter[a]
    BY <1>2, <1>3
  <2>. HIDE DEF N
  <2>4. Exact(AgedStart(a), AifsEnd(Manager, a) + Step, edcaf[a].slots, N.counter[a])
    BY <2>3, TickExactFor
  <2>. QED  BY <2>1, <2>2, <2>4 DEF ExactFor
<1>12. AllExact(N)
  BY <1>11 DEF AllExact
<1>13. RxKnown(N, receiving')
  BY <1>0, <1>2, <1>3, <1>4, <1>6 DEF RxKnown
<1>14. Becomes(N)
  BY DEF Becomes, Manager
<1>. HIDE DEF N
<1>. QED  BY <1>1, <1>12, <1>13, <1>14, BecomesExact

----------------------------------------------------------------------------
(***************************************************************************)
(* The theorem.                                                            *)
(***************************************************************************)
\* The backoffs that are drawn when the EDCAFs are initialized have all their slots.
LEMMA InitCountdown == Init => Countdown
<1>. SUFFICES ASSUME Init PROVE Countdown
  OBVIOUS
<1>. DEFINE M == Manager
<1>1. /\ M \in Managers /\ M.medium = medium /\ M.edcaf = edcaf /\ M.counter = counter
  BY InitIInv, ManagerOK
<1>2. medium.rxEnd = 0 /\ receiving = FALSE
  BY DEF Init
<1>3. \A a \in Edcafs : edcaf[a].slots = counter[a] /\ edcaf[a].start = 0
  BY DEF Init
<1>. HIDE DEF M
<1>4. Counted(M)
  <2>1. 0 <= Slot
    BY ChannelAccessAssumption
  <2>. QED  BY <1>1, <1>3, <2>1 DEF Counted
<1>5. AllExact(M)
  BY <1>1, <1>2, <1>4, NotFreeYet, ExactIsCounted
<1>6. RxKnown(M, receiving)
  <2>1. 0 >= Oldest /\ ~(0 > 0)
    BY OldestIs
  <2>. QED  BY <1>1, <1>2, <2>1 DEF RxKnown
<1>. QED  BY <1>5, <1>6 DEF Countdown, M

\* Every step keeps the backoffs exact.
LEMMA NextCountdown == IInv /\ Countdown /\ [Next]_vars => Countdown'
<1>. SUFFICES ASSUME IInv, Countdown, [Next]_vars PROVE Countdown'
  OBVIOUS
<1>1. CASE UNCHANGED vars
  <2>1. Becomes(Manager) /\ receiving' = receiving
    BY <1>1 DEF Becomes, Manager, vars
  <2>2. Manager \in Managers /\ AllExact(Manager) /\ RxKnown(Manager, receiving)
    BY ManagerCounts
  <2>3. RxKnown(Manager, receiving')
    BY <2>1, <2>2
  <2>. DEFINE m == Manager
  <2>4. m \in Managers /\ Becomes(m) /\ AllExact(m) /\ RxKnown(m, receiving')
    BY <2>1, <2>2, <2>3
  <2>. HIDE DEF m
  <2>. QED  BY <2>4, BecomesExact
<1>2. CASE Tick
  BY <1>2, TickExact
<1>3. ASSUME NEW d \in BusyTimes,
             NotifyRxStartNow(d) \/ NotifyCcaBusyStartNow(d) \/ NotifyNavStartNow(d)
      PROVE  Countdown'
  BY <1>3, NotifyRxStartExact, CcaBusyStartExact, NavStartExact
<1>4. CASE CcaReset \/ NotifyNavResetNow \/ AccessTimeout
  BY <1>4, CcaResetExact, NavResetExact, AccessTimeoutExact
<1>5. ASSUME NEW a \in Edcafs, Expire(a) PROVE Countdown'
  BY <1>5, ExpireExact
<1>6. ASSUME NEW n \in Draws, ResponseTimeout(n) \/ NotifyRxEndErrorNow(n) PROVE Countdown'
  BY <1>6, ResponseTimeoutExact, RxEndExact DEF NotifyRxEndErrorNow
<1>7. ASSUME NEW n \in Draws, NEW isAck \in BOOLEAN, NotifyRxEndOkNow(isAck, n) PROVE Countdown'
  BY <1>7, RxEndExact DEF NotifyRxEndOkNow
<1>8. ASSUME NEW n \in Draws, NEW a \in Edcafs, Queue(a, n) PROVE Countdown'
  BY <1>8, QueueExact
<1>9. ASSUME NEW n \in Draws, NEW sent \in BOOLEAN, TransmissionDone(sent, n) PROVE Countdown'
  BY <1>9, TransmissionDoneExact
<1>. QED  BY <1>1, <1>2, <1>3, <1>4, <1>5, <1>6, <1>7, <1>8, <1>9 DEF Next

\* Bringing a backoff that is exact up to date gives the reference counter.
LEMMA CountdownImplies == IInv /\ Countdown => CountdownIsExact
<1>. SUFFICES ASSUME IInv, Countdown PROVE CountdownIsExact
  OBVIOUS
<1>1. Manager \in Managers /\ AllExact(Manager) /\ Manager.counter = counter
  BY ManagerCounts
<1>2. Counted(UpdateBackoff(Manager)) /\ UpdateBackoff(Manager).counter = counter
  BY <1>1, UpdateBackoffExact, UpdateBackoffType
<1>. QED  BY <1>2 DEF Counted, CountdownIsExact

\* The lazy countdown (UpdateBackoff) always gives the counter that is decremented at
\* every slot boundary of the idle medium and goes on from what is left where a
\* transmission of this station (NotifyTxStartNow) cuts an EIFS short.
THEOREM LazyCountdownIsExact == Spec => []CountdownIsExact
<1>. QED  BY InitIInv, NextIInv, InitCountdown, NextCountdown, CountdownImplies, PTL DEF Spec
=============================================================================
