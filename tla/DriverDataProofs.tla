-------------------------- MODULE DriverDataProofs --------------------------
(***************************************************************************)
(* What is proved about the structures of MCDriverData, for every capacity *)
(* and bound.  The PCM ring of ringbuffer.cpp stays within its buffer,     *)
(* implements the drop-oldest queue, and its unlocked look never calls a   *)
(* ring that holds audio empty.  The event queue of ioctl.cpp loses an     *)
(* event only to a full queue.  Nothing uses a context of driver.cpp whose *)
(* withdrawal has got through its wait, and a live device is served.  A    *)
(* stream's audio never follows a later one's.  A level meant for one      *)
(* speaker is never set on another.                                        *)
(***************************************************************************)
EXTENDS MCDriverData, SequenceTheorems, TLAPS

(* The PCM ring.  The arithmetic is: a reduced index steps at most one turn. *)

RingInv == TypeOK /\ Within

\* Division with remainder by a positive number leaves only one remainder.
LEMMA Unique ==
  ASSUME NEW C \in Nat \ {0}, NEW q1 \in Int, NEW q2 \in Int,
         NEW r1 \in 0..C-1, NEW r2 \in 0..C-1, C * q1 + r1 = C * q2 + r2
  PROVE  r1 = r2
  <1>1. ASSUME NEW a \in Int, NEW b \in Int, a < b PROVE C * a + C <= C * b
    <2>1. C * (b - a) >= C
      BY <1>1, SMT
    <2> QED BY <2>1, SMT
  <1>2. ~(q1 < q2)
    BY <1>1, SMT
  <1>3. ~(q2 < q1)
    BY <1>1, SMT
  <1> QED BY <1>2, <1>3, SMT

\* A number is a multiple of the capacity and its reduced index.
LEMMA DivMod ==
  ASSUME NEW C \in Nat \ {0}, NEW t \in Int
  PROVE  t % C \in 0..C-1 /\ \E q \in Int : t = C * q + (t % C)
  <1>1. t = C * (t \div C) + (t % C)
    BY Z3
  <1>2. t \div C \in Int
    BY SMT
  <1>3. t % C \in 0..C-1
    BY SMT
  <1> QED BY <1>1, <1>2, <1>3

\* What is within one turn of a reduced index is reduced by a turn, or not.
LEMMA ModTurn ==
  ASSUME NEW C \in Nat \ {0}, NEW t \in Int, t >= -C, t < 2 * C
  PROVE  t % C = IF t < 0 THEN t + C ELSE IF t < C THEN t ELSE t - C
  <1>1. PICK q \in Int : t = C * q + (t % C)
    BY DivMod
  <1>2. t % C \in 0..C-1
    BY DivMod
  <1>3. CASE t < 0
    <2>1. t + C \in 0..C-1 /\ C * q + (t % C) = C * (-1) + (t + C)
      BY <1>1, <1>2, <1>3
    <2> QED BY <1>2, <1>3, <2>1, Unique
  <1>4. CASE t >= 0 /\ t < C
    <2>1. t \in 0..C-1 /\ C * q + (t % C) = C * 0 + t
      BY <1>1, <1>2, <1>4
    <2> QED BY <1>2, <1>4, <2>1, Unique
  <1>5. CASE t >= C
    <2>1. t - C \in 0..C-1 /\ C * q + (t % C) = C * 1 + (t - C)
      BY <1>1, <1>2, <1>5
    <2> QED BY <1>2, <1>5, <2>1, Unique
  <1> QED BY <1>3, <1>4, <1>5

\* Moving j places on from a reduced index, for j below the capacity, wraps at
\* most once.
LEMMA ModAdd ==
  ASSUME NEW C \in Nat \ {0}, NEW t \in Nat, NEW j \in 0..C-1
  PROVE  (t + j) % C = IF (t % C) + j < C THEN (t % C) + j ELSE (t % C) + j - C
  <1>0. t \in Int /\ t + j \in Int
    OBVIOUS
  <1>1. PICK q \in Int : t = C * q + (t % C)
    BY <1>0, DivMod
  <1>2. t + j \in Nat
    OBVIOUS
  <1>3. PICK p \in Int : t + j = C * p + ((t + j) % C)
    BY <1>0, DivMod, Zenon
  <1>4. t % C \in 0..C-1 /\ (t + j) % C \in 0..C-1
    BY <1>2, DivMod
  <1>5. CASE (t % C) + j < C
    <2>1. C * p + ((t + j) % C) = C * q + ((t % C) + j)
      BY <1>1, <1>3, <1>4
    <2>2. (t % C) + j \in 0..C-1
      BY <1>4, <1>5
    <2>3. (t + j) % C = (t % C) + j
      BY <2>1, <2>2, <1>4, Unique
    <2> QED BY <2>3, <1>5
  <1>6. CASE ~((t % C) + j < C)
    <2>1. C * p + ((t + j) % C) = C * (q + 1) + ((t % C) + j - C)
      BY <1>1, <1>3, <1>4
    <2>2. (t % C) + j - C \in 0..C-1 /\ q + 1 \in Int
      BY <1>4, <1>6
    <2>3. (t + j) % C = (t % C) + j - C
      BY <2>1, <2>2, <1>4, Unique
    <2> QED BY <2>3, <1>6
  <1> QED BY <1>5, <1>6

-----------------------------------------------------------------------------
\* The two copies write frames into the buffer and nothing else.
LEMMA CopiedType ==
  ASSUME RingInv, NEW n \in Nat, NEW skip \in Nat
  PROVE  Copied(n, skip) \in [0..Capacity-1 -> Nat]
  <1> DEFINE idx == tail % Capacity
             first == Least(Capacity - idx, n)
  <1>1. idx \in 0..Capacity-1
    BY CapacityPositive, DivMod DEF RingInv, TypeOK
  <1>2. first \in Nat
    BY <1>1, CapacityPositive DEF Least
  <1>3. Copied(n, skip) = [i \in 0..Capacity-1 |->
           IF i >= idx /\ i < idx + first THEN skip + (i - idx) + 1
           ELSE IF i < n - first THEN skip + first + i + 1 ELSE buffer[i]]
    BY DEF Copied
  <1>4. \A i \in 0..Capacity-1 : buffer[i] \in Nat
    BY DEF RingInv, TypeOK
  <1> HIDE DEF idx, first
  <1> QED BY <1>1, <1>2, <1>3, <1>4, CapacityPositive

\* Initially everything is empty.
LEMMA RingInit == Init => RingInv
  BY CapacityPositive DEF Init, RingInv, TypeOK, Within

\* The counters stay within a capacity of each other through every step.
LEMMA RingNext == RingInv /\ [Next]_vars => RingInv'
  <1> SUFFICES ASSUME RingInv, [Next]_vars PROVE RingInv'
    OBVIOUS
  <1> USE CapacityPositive, BoundsNatural, NobodyNotNumber DEF RingInv, TypeOK, Within
  <1>1. ASSUME NEW n \in 1..MaxWrite, Write(n) PROVE RingInv'
    <2>1. head' \in Nat /\ tail' \in Nat /\ written' \in Nat
      BY <1>1 DEF Write, Least
    <2>2. head' <= tail' /\ tail' - head' <= Capacity /\ head <= head'
      BY <1>1 DEF Write, Least
    <2>3. buffer' \in [0..Capacity-1 -> Nat]
      <3>1. /\ Least(n, Capacity) \in Nat
            /\ written + (n - Least(n, Capacity)) \in Nat
        BY DEF Least
      <3> QED BY <1>1, <3>1, CopiedType DEF Write
    <2>4. seen' = seen /\ avail' = avail
      BY <1>1 DEF Write
    <2>5. \A l \in Lookers : seen'[l] # Nobody => seen'[l] <= head'
      BY <2>1, <2>2, <2>4
    <2> QED BY <2>1, <2>2, <2>3, <2>4, <2>5
  <1>2. ASSUME NEW n \in 1..MaxRead, Read(n) PROVE RingInv'
    <2>1. head' = IF tail - head <= 0 THEN head
                  ELSE tail - Least(tail - head, Capacity)
                         + Least(Least(tail - head, Capacity), n)
      BY <1>2 DEF Read
    <2>3. head' \in Nat /\ head <= head' /\ head' <= tail
      BY <2>1 DEF Least
    <2>2. UNCHANGED <<buffer, tail, written, seen, avail>>
      BY <1>2 DEF Read
    <2>4. \A l \in Lookers : seen'[l] # Nobody => seen'[l] <= head'
      BY <2>2, <2>3
    <2>5. tail' - head' <= Capacity
      <3>1. ASSUME NEW h \in Nat, NEW t \in Nat, NEW g \in Nat,
                   h <= g, t - h <= Capacity
            PROVE  t - g <= Capacity
        BY <3>1
      <3>2. head \in Nat /\ tail \in Nat /\ tail - head <= Capacity /\ tail' = tail
        BY <2>2
      <3> QED BY <2>3, <3>1, <3>2
    <2>6. TypeOK'
      BY <2>2, <2>3
    <2> QED BY <2>2, <2>3, <2>4, <2>5, <2>6
  <1>3. CASE Reset
    BY <1>3 DEF Reset
  <1>4. ASSUME NEW l \in Lookers, LookHead(l) PROVE RingInv'
    BY <1>4 DEF LookHead, ringVars
  <1>5. ASSUME NEW l \in Lookers, LookTail(l) PROVE RingInv'
    BY <1>5 DEF LookTail, ringVars, Least
  <1>6. CASE UNCHANGED vars
    BY <1>6 DEF vars, ringVars
  <1> QED BY <1>1, <1>2, <1>3, <1>4, <1>5, <1>6 DEF Next

\* Types and bounds hold always, for every capacity.
THEOREM RingTypeCorrect == Spec => []TypeOK
  <1>1. RingInv => TypeOK
    BY DEF RingInv
  <1> QED BY <1>1, RingInit, RingNext, PTL DEF Spec

\* Head never passes Tail nor falls more than the buffer behind it.
THEOREM RingStaysWithin == Spec => []Within
  <1>1. RingInv => Within
    BY DEF RingInv
  <1> QED BY <1>1, RingInit, RingNext, PTL DEF Spec

\* RingBufferAvailable says "empty" only of an empty ring.
THEOREM EmptyIsEmpty == Spec => EmptyMeansEmpty
  <1>1. RingInv /\ [Next]_vars =>
            [\A l \in Lookers : LookTail(l) /\ avail'[l] = 0 => head = tail]_vars
    <2> SUFFICES ASSUME RingInv, NEW l \in Lookers, LookTail(l), avail'[l] = 0
                 PROVE  head = tail
      OBVIOUS
    <2>1. seen[l] \in Nat /\ seen[l] <= head /\ head <= tail
      BY DEF RingInv, TypeOK, Within, LookTail
    <2>2. avail'[l] = IF tail - seen[l] < 0 THEN 0
                      ELSE Least(tail - seen[l], Capacity)
      BY DEF RingInv, TypeOK, LookTail
    <2> QED BY <2>1, <2>2, CapacityPositive DEF Least, RingInv, TypeOK
  <1> QED BY <1>1, RingInit, RingNext, PTL DEF Spec, EmptyMeansEmpty

-----------------------------------------------------------------------------
\* Where RingBufferWrite puts a frame: what was buffered and is still within
\* reach is untouched by the two copies, the new frames lie behind it in order.
LEMMA CopiedPlaces ==
  ASSUME RingInv, NEW n \in 1..Capacity, NEW skip \in Nat,
         NEW p \in Nat, p < tail + n, tail + n - p <= Capacity
  PROVE  Copied(n, skip)[p % Capacity] =
             IF p < tail THEN buffer[p % Capacity] ELSE skip + (p - tail) + 1
  <1> USE CapacityPositive
  <1>0. tail \in Nat /\ tail % Capacity \in 0..Capacity-1 /\ p % Capacity \in 0..Capacity-1
    BY DivMod DEF RingInv, TypeOK
  <1>1. CASE p < tail
    <2>1. tail - p \in 0..Capacity-1 /\ p + (tail - p) = tail
      BY <1>0, <1>1
    <2>2. tail % Capacity = IF (p % Capacity) + (tail - p) < Capacity
                            THEN (p % Capacity) + (tail - p)
                            ELSE (p % Capacity) + (tail - p) - Capacity
      BY <2>1, ModAdd
    <2> HIDE DEF RingInv
    <2> QED BY <1>0, <1>1, <2>1, <2>2 DEF Copied, Least
  <1>2. CASE p >= tail
    <2>1. p - tail \in 0..Capacity-1 /\ tail + (p - tail) = p
      BY <1>0, <1>2
    <2>2. p % Capacity = IF (tail % Capacity) + (p - tail) < Capacity
                         THEN (tail % Capacity) + (p - tail)
                         ELSE (tail % Capacity) + (p - tail) - Capacity
      BY <1>0, <2>1, ModAdd
    <2> QED BY <1>0, <1>2, <2>1, <2>2 DEF Copied, Least
  <1> QED BY <1>0, <1>1, <1>2

\* The newest n elements of a sequence, one by one.
LEMMA LastOfSeq ==
  ASSUME NEW s \in Seq(Nat), NEW n \in Nat \ {0},
         NEW len \in Nat, len = Least(Len(s), n)
  PROVE  Abstract!LastOf(s, n) = [k \in 1..len |-> s[Len(s) - len + k]]
  <1>1. CASE Len(s) <= n
    <2>1. len = Len(s)
      BY <1>1 DEF Least
    <2>2. s = [k \in 1..Len(s) |-> s[k]]
      OBVIOUS
    <2>3. [k \in 1..Len(s) |-> s[k]] = [k \in 1..len |-> s[Len(s) - len + k]]
      BY <2>1
    <2> QED BY <1>1, <2>2, <2>3 DEF Abstract!LastOf
  <1>2. CASE Len(s) > n
    <2>1. len = n
      BY <1>2 DEF Least
    <2>2. SubSeq(s, Len(s) - n + 1, Len(s)) = [k \in 1..n |-> s[Len(s) - n + k]]
      BY <1>2
    <2>3. Abstract!LastOf(s, n) = SubSeq(s, Len(s) - n + 1, Len(s))
      BY <1>2 DEF Abstract!LastOf
    <2> QED BY <2>1, <2>2, <2>3, Zenon
  <1> QED BY <1>1, <1>2

\* The elements of two sequences put together.
LEMMA ConcatElement ==
  ASSUME NEW a \in Seq(Nat), NEW b \in Seq(Nat),
         NEW k \in 1..(Len(a) + Len(b))
  PROVE  (a \o b)[k] = IF k <= Len(a) THEN a[k] ELSE b[k - Len(a)]
  OBVIOUS

\* The abstract queue after a write: the newest frames, at most a bufferful.
LEMMA WriteStep ==
  ASSUME RingInv, NEW n \in 1..MaxWrite, Write(n) PROVE Abstract!Write(n)
  <1> USE CapacityPositive, BoundsNatural
  <1> DEFINE eff == Least(n, Capacity)
             new == [k \in 1..n |-> written + k]
             s == Contents \o new
             len == tail' - head'
             used == tail - head
  <1>1. /\ head \in Nat /\ tail \in Nat /\ written \in Nat /\ n \in Nat
        /\ used \in 0..Capacity /\ head = tail - used
        /\ eff \in 1..Capacity /\ eff <= n
        /\ eff = IF n <= Capacity THEN n ELSE Capacity
    BY DEF RingInv, TypeOK, Within, Least
  <1>2. /\ tail' = tail + eff /\ written' = written + n /\ out' = out
        /\ head' = IF eff > Capacity - used
                   THEN head + (eff - (Capacity - used)) ELSE head
        /\ buffer' = Copied(eff, written + (n - eff))
        /\ written + n <= MaxFrames
    BY DEF Write
  <1>3. /\ Len(s) = used + n /\ s \in Seq(Nat)
        /\ \A k \in 1..Len(s) : s[k] = IF k <= used THEN Contents[k]
                                       ELSE written + (k - used)
    <2>1. Contents \in Seq(Nat) /\ Len(Contents) = used
      <3>1. \A k \in 1..used : buffer[(head + k - 1) % Capacity] \in Nat
        <4> TAKE k \in 1..used
        <4>1. head + k - 1 \in Nat
          BY <1>1
        <4> QED BY <4>1, DivMod DEF RingInv, TypeOK
      <3> QED BY <3>1, <1>1 DEF Contents
    <2>2. new \in Seq(Nat) /\ Len(new) = n
      BY <1>1
    <2>3. \A k \in 1..n : new[k] = written + k
      OBVIOUS
    <2> HIDE DEF new
    <2>4. s \in Seq(Nat) /\ Len(s) = used + n
      BY <2>1, <2>2, <1>1
    <2>5. ASSUME NEW k \in 1..Len(s)
          PROVE  s[k] = IF k <= used THEN Contents[k] ELSE written + (k - used)
      <3>1. s[k] = IF k <= used THEN Contents[k] ELSE new[k - used]
        <4> HIDE DEF used
        <4>1. k \in 1..(Len(Contents) + Len(new))
          BY <2>1, <2>2, <2>4
        <4>2. (Contents \o new)[k] = IF k <= Len(Contents) THEN Contents[k]
                                      ELSE new[k - Len(Contents)]
          BY <2>1, <2>2, <4>1, ConcatElement, Zenon
        <4> QED BY <2>1, <4>2
      <3>2. k <= used \/ k - used \in 1..n
        BY <2>4, <1>1
      <3> QED BY <3>1, <3>2, <2>3
    <2> QED BY <2>4, <2>5
  <1>4. \A k \in 1..used : Contents[k] = buffer[(head + k - 1) % Capacity]
    BY DEF Contents
  <1>5. /\ len = tail' - head'
        /\ Contents' = [k \in 1..len |-> buffer'[(head' + k - 1) % Capacity]]
    BY DEF Contents
  <1> HIDE DEF eff, new, s, used, len
  <1>6. len \in Nat /\ len = Least(Len(s), Capacity) /\ head' \in Nat
    BY <1>1, <1>2, <1>3, <1>5 DEF Least
  <1>7. ASSUME NEW k \in 1..len
        PROVE  buffer'[(head' + k - 1) % Capacity] = s[Len(s) - len + k]
    <2> DEFINE p == head' + k - 1
               j == Len(s) - len + k
    <2>1. p \in Nat /\ p < tail + eff /\ tail + eff - p <= Capacity /\ p >= head
      BY <1>1, <1>2, <1>5, <1>6 DEF Least
    <2>2. written + (n - eff) \in Nat
      BY <1>1
    <2>3. j \in 1..Len(s) /\ j = (n - eff) + (p - head) + 1
      BY <1>1, <1>2, <1>3, <1>5, <1>6, SMTT(30) DEF Least
    <2>4. s[j] = IF j <= used THEN Contents[j] ELSE written + (j - used)
      BY <1>3, <2>3
    <2> HIDE DEF p, j
    <2>5. buffer'[p % Capacity] = IF p < tail THEN buffer[p % Capacity]
                                  ELSE written + (n - eff) + (p - tail) + 1
      <3>1. \A m \in 1..Capacity, sk \in Nat, q \in Nat :
              q < tail + m /\ tail + m - q <= Capacity =>
                Copied(m, sk)[q % Capacity] =
                  IF q < tail THEN buffer[q % Capacity] ELSE sk + (q - tail) + 1
        BY CopiedPlaces
      <3>2. eff \in 1..Capacity /\ p \in Nat
        BY <1>1, <2>1
      <3>3. Copied(eff, written + (n - eff))[p % Capacity] =
              IF p < tail THEN buffer[p % Capacity]
                          ELSE (written + (n - eff)) + (p - tail) + 1
        BY <2>1, <2>2, <3>1, <3>2, Zenon
      <3> QED BY <1>2, <3>3
    <2>6. CASE p < tail
      <3>1. n = eff
        BY <1>1, <2>1, <2>6
      <3>2. j \in 1..used /\ head + j - 1 = p
        BY <1>1, <2>1, <2>3, <2>6, <3>1
      <3>3. s[j] = buffer[p % Capacity]
        BY <1>4, <2>4, <3>2
      <3> QED BY <2>5, <2>6, <3>3 DEF p, j
    <2>7. CASE p >= tail
      <3>1. ~(j <= used) /\ j - used = (n - eff) + (p - tail) + 1
        BY <1>1, <2>1, <2>3, <2>7
      <3>2. s[j] = written + ((n - eff) + (p - tail) + 1)
        BY <2>4, <3>1
      <3>3. buffer'[p % Capacity] = written + ((n - eff) + (p - tail) + 1)
        BY <1>1, <2>1, <2>5, <2>7
      <3> QED BY <3>2, <3>3 DEF p, j
    <2> QED BY <1>1, <2>1, <2>6, <2>7
  <1>8. Contents' = [k \in 1..len |-> s[Len(s) - len + k]]
    BY <1>5, <1>7
  <1>9. Abstract!LastOf(s, Capacity) = [k \in 1..len |-> s[Len(s) - len + k]]
    BY <1>3, <1>6, LastOfSeq
  <1> QED BY <1>2, <1>8, <1>9 DEF Abstract!Write, s, new

\* The abstract queue after a read: what the two copies hand out is its
\* beginning, what Head has not passed is the rest.
LEMMA ReadStep ==
  ASSUME RingInv, NEW n \in 1..MaxRead, Read(n) PROVE Abstract!Read(n)
  <1> USE CapacityPositive, BoundsNatural
  <1> DEFINE used == tail - head
             count == Least(used, n)
             idx == head % Capacity
             first == Least(Capacity - idx, count)
  <1>1. /\ head \in Nat /\ tail \in Nat /\ n \in Nat \ {0}
        /\ used \in 0..Capacity /\ tail = head + used
        /\ count \in 0..used /\ (used = 0 => count = 0)
        /\ Least(used, Capacity) = used /\ tail - used = head
    BY DEF RingInv, TypeOK, Within, Least
  <1>2. idx \in 0..Capacity-1
    <2>1. head \in Int
      BY <1>1
    <2> QED BY <2>1, DivMod
  <1>3. /\ out' = [k \in 1..count |-> IF k <= first THEN buffer[idx + k - 1]
                                                  ELSE buffer[k - first - 1]]
        /\ head' = IF used <= 0 THEN head ELSE head + count
        /\ buffer' = buffer /\ tail' = tail /\ written' = written
    BY <1>1 DEF Read
  <1> DEFINE q == [k \in 1..used |-> buffer[(head + k - 1) % Capacity]]
  <1>4. Contents = q
    BY DEF Contents
  <1>5. q \in Seq(Nat) /\ Len(q) = used
    <2>1. \A k \in 1..used : buffer[(head + k - 1) % Capacity] \in Nat
      <3> TAKE k \in 1..used
      <3>1. head + k - 1 \in Nat
        BY <1>1
      <3> QED BY <3>1, DivMod DEF RingInv, TypeOK
    <2> QED BY <2>1, <1>1
  <1>6. \A k \in 1..used : q[k] = buffer[(head + k - 1) % Capacity]
    OBVIOUS
  <1>7. head' = head + count /\ tail' - head' = used - count
    BY <1>1, <1>3
  <1>8. Contents' = [k \in 1..(used - count) |-> buffer[(head + count + k - 1) % Capacity]]
    BY <1>3, <1>7 DEF Contents
  <1> HIDE DEF q, used, count, idx
  <1>9. out' = SubSeq(q, 1, count)
    <2>1. ASSUME NEW k \in 1..count
          PROVE  (IF k <= first THEN buffer[idx + k - 1]
                                ELSE buffer[k - first - 1]) = q[k]
      <3>1. k \in 1..used /\ k - 1 \in 0..Capacity-1 /\ head + (k - 1) = head + k - 1
        BY <1>1
      <3>2. (head + k - 1) % Capacity = IF idx + (k - 1) < Capacity
                                        THEN idx + (k - 1) ELSE idx + (k - 1) - Capacity
        BY <1>1, <3>1, ModAdd DEF idx
      <3>3. q[k] = buffer[(head + k - 1) % Capacity]
        BY <1>6, <3>1
      <3>4. CASE k <= first
        <4>1. (head + k - 1) % Capacity = idx + k - 1
          BY <1>1, <1>2, <3>1, <3>2, <3>4 DEF Least
        <4> QED BY <3>3, <3>4, <4>1
      <3>5. CASE ~(k <= first)
        <4>1. (head + k - 1) % Capacity = k - first - 1
          BY <1>1, <1>2, <3>1, <3>2, <3>5 DEF Least
        <4> QED BY <3>3, <3>5, <4>1
      <3> QED BY <3>4, <3>5
    <2>2. SubSeq(q, 1, count) = [k \in 1..count |-> q[k]]
      BY <1>1, <1>5
    <2> HIDE DEF first
    <2> QED BY <1>3, <2>1, <2>2
  <1>10. Contents' = SubSeq(q, count + 1, Len(q))
    <2>1. SubSeq(q, count + 1, Len(q)) = [k \in 1..(used - count) |-> q[count + k]]
      BY <1>1, <1>5
    <2>2. ASSUME NEW k \in 1..(used - count)
          PROVE  q[count + k] = buffer[(head + count + k - 1) % Capacity]
      <3>1. count + k \in 1..used /\ head + (count + k) - 1 = head + count + k - 1
        BY <1>1
      <3>2. q[count + k] = buffer[(head + (count + k) - 1) % Capacity]
        BY <1>6, <3>1
      <3> QED BY <3>1, <3>2
    <2> QED BY <1>8, <2>1, <2>2
  <1>11. Abstract!Least(n, Len(Contents)) = count
    BY <1>1, <1>4, <1>5 DEF Abstract!Least, Least, count
  <1> QED BY <1>3, <1>4, <1>9, <1>10, <1>11 DEF Abstract!Read

\* The empty ring stands for the empty queue, at the start and after a reset.
LEMMA EmptyContents ==
  ASSUME NEW h \in Nat
  PROVE  [k \in 1..(h - h) |-> buffer[(h + k - 1) % Capacity]] = <<>>
  <1>1. 1..(h - h) = {}
    OBVIOUS
  <1> QED BY <1>1

\* The empty ring of RingBufferInit stands for the empty queue.
LEMMA InitStep == Init => Abstract!Init
  <1> SUFFICES ASSUME Init PROVE Abstract!Init
    OBVIOUS
  <1>1. head = 0 /\ tail = 0 /\ written = 0 /\ out = <<>>
    BY DEF Init
  <1>2. Contents = <<>>
    BY <1>1, EmptyContents DEF Contents
  <1> QED BY <1>1, <1>2 DEF Abstract!Init

\* RingBufferReset empties the queue.
LEMMA ResetStep == ASSUME RingInv, Reset PROVE Abstract!Reset
  <1>1. head' = tail /\ tail' = tail /\ buffer' = buffer /\ tail \in Nat
        /\ written' = written /\ out' = out
    BY DEF Reset, RingInv, TypeOK
  <1>2. 1..(tail - tail) = {}
    BY <1>1
  <1>3. Contents' = <<>>
    BY <1>1, <1>2 DEF Contents
  <1> QED BY <1>1, <1>3 DEF Abstract!Reset

\* A step of the ring is a step of the queue, or none at all.
LEMMA NextStep == RingInv /\ [Next]_vars => [Abstract!Next]_(Abstract!vars)
  <1> SUFFICES ASSUME RingInv, [Next]_vars PROVE [Abstract!Next]_(Abstract!vars)
    OBVIOUS
  <1>1. ASSUME NEW n \in 1..MaxWrite, Write(n) PROVE Abstract!Next
    BY <1>1, WriteStep DEF Abstract!Next
  <1>2. ASSUME NEW n \in 1..MaxRead, Read(n) PROVE Abstract!Next
    BY <1>2, ReadStep DEF Abstract!Next
  <1>3. CASE Reset
    BY <1>3, ResetStep DEF Abstract!Next
  <1>4. CASE UNCHANGED ringVars
    BY <1>4 DEF ringVars, Abstract!vars, Contents
  <1>5. ASSUME NEW l \in Lookers, LookHead(l) \/ LookTail(l) PROVE UNCHANGED ringVars
    BY <1>5 DEF LookHead, LookTail, ringVars
  <1>6. CASE UNCHANGED vars
    BY <1>4, <1>6 DEF vars
  <1> QED BY <1>1, <1>2, <1>3, <1>4, <1>5, <1>6 DEF Next

\* The ring of ringbuffer.cpp implements the drop-oldest queue: whatever the
\* sizes, the wraps and the overruns, no frame is lost but the oldest, none
\* is repeated and none is out of order.
THEOREM Refinement == Spec => Implements
  <1> QED BY RingInit, RingNext, InitStep, NextStep, PTL DEF Spec, Implements, Abstract!Spec

-----------------------------------------------------------------------------
(* Context publication and removal (CtxPublish).                           *)

\* What a device's thread goes through that withdraws the published context.
Withdrawal == {"close", "cancel", "wait", "drain", "republish"}

\* The list holds each live device once.
LiveInv ==
    /\ \A i, j \in DOMAIN cLive : cLive[i] = cLive[j] => i = j
    /\ \A d \in Devices : cDev[d] = "live" <=> \E i \in DOMAIN cLive : cLive[i] = d

\* One device at a time withdraws what was published, with nothing published
\* meanwhile; the wait for the rundown is its.
WithdrawInv ==
    /\ \A d \in Devices : cDev[d] \in {"wait", "drain", "republish"} => cWas[d]
    /\ \A d \in Devices : cWas[d] => cDev[d] \in Withdrawal \cup {"withdrawn", "freed"}
    /\ \A d, e \in Devices :
          cWas[d] /\ cDev[d] \in Withdrawal /\ cWas[e] /\ cDev[e] \in Withdrawal => d = e
    /\ cWithdrawing <=> \E d \in Devices : cWas[d] /\ cDev[d] \in Withdrawal
    /\ cDraining <=> \E d \in Devices : cDev[d] = "drain"
    /\ cWithdrawing => cPtr = NoDevice

\* A caller is inside the published context, or one whose withdrawal has not
\* got through its wait.
UseInv ==
    \A c \in Callers : cCaller[c] \in {"inside", "queued"} =>
        \/ cUsing[c] = cPtr
        \/ cWas[cUsing[c]] /\ cDev[cUsing[c]] \in {"close", "cancel", "wait", "drain"}

CtxInv == Ctx!TypeOK /\ LiveInv /\ WithdrawInv /\ UseInv /\ Ctx!LiveDeviceServed

\* No device is the mark for none.
LEMMA DeviceNone == NoDevice \notin Devices
  BY InstancesAssumption DEF Ctx!ConstantsOK

\* Nothing has arrived yet and nobody has called.
LEMMA CtxInit == Ctx!Init => CtxInv
  <1> SUFFICES ASSUME Ctx!Init PROVE CtxInv
    OBVIOUS
  <1> USE DeviceNone DEF Ctx!Init
  <1>1. Ctx!TypeOK
    <2>1. cLive \in Seq(Devices) /\ cPtr \in Devices \cup {NoDevice}
      OBVIOUS
    <2>2. cDev \in [Devices -> Ctx!DeviceStates] /\ cWas \in [Devices -> BOOLEAN]
      BY DEF Ctx!DeviceStates
    <2>3. cClosing \in [Devices -> BOOLEAN] /\ cWithdrawing \in BOOLEAN /\ cDraining \in BOOLEAN
      OBVIOUS
    <2>4. cCaller \in [Callers -> {"out", "acquired", "inside", "queued"}]
      OBVIOUS
    <2>5. cUsing \in [Callers -> Devices \cup {NoDevice}]
      OBVIOUS
    <2>6. \A c \in Callers : cUsing[c] = NoDevice /\ cCaller[c] = "out"
      OBVIOUS
    <2> QED BY <2>1, <2>2, <2>3, <2>4, <2>5, <2>6 DEF Ctx!TypeOK
  <1>2. LiveInv
    BY DEF LiveInv
  <1>3. WithdrawInv
    BY DEF WithdrawInv, Withdrawal
  <1>4. UseInv /\ Ctx!LiveDeviceServed
    BY DEF UseInv, Ctx!LiveDeviceServed, Ctx!Contains
  <1> QED BY <1>1, <1>2, <1>3, <1>4 DEF CtxInv

\* Types, under the steps of a device's thread.
LEMMA TypeSteps ==
  ASSUME Ctx!TypeOK, NEW d \in Devices, Ctx!PnpStep(d) \/ Ctx!AddDevice(d) \/ Ctx!Unlink(d)
                                        \/ Ctx!FreeCtx(d) \/ Ctx!Rearrive(d)
  PROVE  Ctx!TypeOK'
  <1> USE DeviceNone DEF Ctx!TypeOK, Ctx!DeviceStates, Ctx!To
  <1>1. CASE Ctx!AddDevice(d)
    BY <1>1 DEF Ctx!AddDevice
  <1>2. CASE Ctx!Unlink(d)
    <2>1. PICK i \in DOMAIN cLive : cLive[i] = d /\ cLive' = Ctx!RemoveAt(cLive, i)
      BY <1>2 DEF Ctx!Unlink
    <2>2. cLive' \in Seq(Devices)
      BY <2>1 DEF Ctx!RemoveAt
    <2> QED BY <1>2, <2>2 DEF Ctx!Unlink
  <1>3. CASE Ctx!BeginClose(d)
    BY <1>3 DEF Ctx!BeginClose
  <1>4. CASE Ctx!CancelAll(d)
    BY <1>4 DEF Ctx!CancelAll
  <1>5. CASE Ctx!StartWait(d)
    BY <1>5 DEF Ctx!StartWait
  <1>6. CASE Ctx!Rearm(d)
    BY <1>6 DEF Ctx!Rearm
  <1>7. CASE Ctx!Republish(d)
    <2>1. cLive # <<>> => Head(cLive) \in Devices
      OBVIOUS
    <2>2. cPtr' \in Devices \cup {NoDevice}
      BY <1>7, <2>1 DEF Ctx!Republish
    <2> QED BY <1>7, <2>2 DEF Ctx!Republish
  <1>8. CASE Ctx!FreeCtx(d)
    BY <1>8 DEF Ctx!FreeCtx
  <1>9. CASE Ctx!Rearrive(d)
    BY <1>9 DEF Ctx!Rearrive
  <1> QED BY <1>1, <1>2, <1>3, <1>4, <1>5, <1>6, <1>7, <1>8, <1>9 DEF Ctx!PnpStep

\* Types, under the steps of a caller.
LEMMA TypeCalls ==
  ASSUME Ctx!TypeOK, NEW c \in Callers,
         Ctx!Acquire(c) \/ Ctx!LookUp(c) \/ Ctx!QueueIrp(c) \/ Ctx!Leave(c)
  PROVE  Ctx!TypeOK'
  <1> USE DeviceNone DEF Ctx!TypeOK
  <1>1. CASE Ctx!Acquire(c)
    BY <1>1 DEF Ctx!Acquire
  <1>2. CASE Ctx!LookUp(c)
    BY <1>2 DEF Ctx!LookUp
  <1>3. CASE Ctx!QueueIrp(c)
    BY <1>3 DEF Ctx!QueueIrp
  <1>4. CASE Ctx!Leave(c)
    BY <1>4 DEF Ctx!Leave
  <1> QED BY <1>1, <1>2, <1>3, <1>4

\* A new device is the last of the list, and published if nothing is.
LEMMA AddKeeps ==
  ASSUME CtxInv, NEW d \in Devices, Ctx!AddDevice(d)
  PROVE  LiveInv' /\ WithdrawInv' /\ UseInv' /\ Ctx!LiveDeviceServed'
  <1> USE DeviceNone DEF Ctx!AddDevice, Ctx!To
  <1>0. /\ Ctx!TypeOK /\ LiveInv /\ WithdrawInv /\ UseInv /\ Ctx!LiveDeviceServed
        /\ cLive \in Seq(Devices) /\ cDev \in [Devices -> Ctx!DeviceStates]
    BY DEF CtxInv, Ctx!TypeOK
  <1>1. /\ Len(cLive') = Len(cLive) + 1 /\ cLive'[Len(cLive) + 1] = d
        /\ \A i \in DOMAIN cLive : cLive'[i] = cLive[i]
        /\ DOMAIN cLive = 1..Len(cLive) /\ DOMAIN cLive' = 1..(Len(cLive) + 1)
        /\ Len(cLive) \in Nat
    BY <1>0
  <1>2. \A e \in Devices : cDev'[e] = IF e = d THEN "live" ELSE cDev[e]
    BY <1>0
  <1>3. LiveInv'
    <2>1. \A i \in DOMAIN cLive : cLive[i] # d
      BY <1>0 DEF LiveInv
    <2>2. \A i, j \in DOMAIN cLive' : cLive'[i] = cLive'[j] => i = j
      BY <1>0, <1>1, <2>1 DEF LiveInv
    <2>3. \A e \in Devices : cDev'[e] = "live" <=> \E i \in DOMAIN cLive' : cLive'[i] = e
      BY <1>0, <1>1, <1>2, <2>1 DEF LiveInv
    <2> QED BY <2>2, <2>3 DEF LiveInv
  <1>4. WithdrawInv'
    BY <1>0, <1>2 DEF WithdrawInv, Withdrawal
  <1>5. UseInv'
    <2>1. \A c \in Callers : cCaller[c] \in {"inside", "queued"} => cUsing[c] \in Devices
      BY <1>0 DEF Ctx!TypeOK
    <2> QED BY <1>0, <1>2, <2>1 DEF UseInv
  <1>6. Ctx!LiveDeviceServed'
    <2>1. cLive' # <<>>
      BY <1>1
    <2>2. cPtr' # NoDevice => \E i \in 1..Len(cLive') : cLive'[i] = cPtr'
      BY <1>0, <1>1 DEF Ctx!LiveDeviceServed, Ctx!Contains
    <2> QED BY <1>0, <2>1, <2>2 DEF Ctx!LiveDeviceServed, Ctx!Contains
  <1> QED BY <1>3, <1>4, <1>5, <1>6

\* What is left of a list without its k-th entry.
LEMMA Removed ==
  ASSUME NEW S, NEW q \in Seq(S), NEW k \in DOMAIN q
  PROVE  /\ Len(q) \in Nat /\ DOMAIN q = 1..Len(q)
         /\ Ctx!RemoveAt(q, k) \in Seq(S)
         /\ DOMAIN Ctx!RemoveAt(q, k) = 1..(Len(q) - 1) /\ Len(Ctx!RemoveAt(q, k)) = Len(q) - 1
         /\ \A i \in 1..(Len(q) - 1) : Ctx!RemoveAt(q, k)[i] = q[IF i < k THEN i ELSE i + 1]
  <1> DEFINE a == SubSeq(q, 1, k - 1)
             b == SubSeq(q, k + 1, Len(q))
  <1>1. Len(q) \in Nat /\ DOMAIN q = 1..Len(q) /\ k \in 1..Len(q)
    OBVIOUS
  <1>2. a \in Seq(S) /\ Len(a) = k - 1 /\ \A i \in 1..(k - 1) : a[i] = q[i]
    BY <1>1
  <1>3. b \in Seq(S) /\ Len(b) = Len(q) - k /\ \A i \in 1..(Len(q) - k) : b[i] = q[k + i]
    BY <1>1
  <1>4. Ctx!RemoveAt(q, k) = a \o b
    BY DEF Ctx!RemoveAt
  <1> HIDE DEF a, b
  <1>5. a \o b \in Seq(S) /\ Len(a \o b) = Len(q) - 1 /\ DOMAIN (a \o b) = 1..(Len(q) - 1)
    <2>1. a \o b \in Seq(S) /\ Len(a \o b) = Len(a) + Len(b)
      BY <1>2, <1>3, ConcatProperties
    <2>2. Len(a) + Len(b) = Len(q) - 1
      BY <1>1, <1>2, <1>3
    <2>3. DOMAIN (a \o b) = 1..Len(a \o b)
      BY <2>1
    <2> QED BY <2>1, <2>2, <2>3
  <1>6. \A i \in 1..(Len(q) - 1) : (a \o b)[i] = IF i < k THEN a[i] ELSE b[i - (k - 1)]
    BY <1>1, <1>2, <1>3
  <1>7. ASSUME NEW i \in 1..(Len(q) - 1) PROVE (a \o b)[i] = q[IF i < k THEN i ELSE i + 1]
    <2>1. CASE i < k
      BY <1>1, <1>2, <1>6, <2>1
    <2>2. CASE ~(i < k)
      <3>1. i - (k - 1) \in 1..(Len(q) - k) /\ k + (i - (k - 1)) = i + 1
        BY <1>1, <2>2
      <3> QED BY <1>3, <1>6, <2>2, <3>1
    <2> QED BY <2>1, <2>2
  <1> QED BY <1>1, <1>4, <1>5, <1>7

\* A device that goes leaves the rest of the list, in order; was it the
\* published one, the withdrawal is its.
LEMMA UnlinkKeeps ==
  ASSUME CtxInv, NEW d \in Devices, Ctx!Unlink(d)
  PROVE  LiveInv' /\ WithdrawInv' /\ UseInv' /\ Ctx!LiveDeviceServed'
  <1> USE DeviceNone DEF Ctx!To
  <1>0. /\ Ctx!TypeOK /\ LiveInv /\ WithdrawInv /\ UseInv /\ Ctx!LiveDeviceServed
        /\ cLive \in Seq(Devices) /\ cDev \in [Devices -> Ctx!DeviceStates]
        /\ cWas \in [Devices -> BOOLEAN]
    BY DEF CtxInv, Ctx!TypeOK
  <1>1. PICK k \in DOMAIN cLive : cLive[k] = d /\ cLive' = Ctx!RemoveAt(cLive, k)
    BY DEF Ctx!Unlink
  <1>2. /\ Len(cLive) \in Nat /\ DOMAIN cLive = 1..Len(cLive)
        /\ DOMAIN cLive' = 1..(Len(cLive) - 1) /\ Len(cLive') = Len(cLive) - 1
        /\ \A i \in 1..(Len(cLive) - 1) : cLive'[i] = cLive[IF i < k THEN i ELSE i + 1]
    BY <1>0, <1>1, Removed
  <1>3. \A e \in Devices : (\E i \in DOMAIN cLive' : cLive'[i] = e)
                              <=> e # d /\ (\E i \in DOMAIN cLive : cLive[i] = e)
    <2>1. ASSUME NEW i \in DOMAIN cLive' PROVE \E j \in DOMAIN cLive : cLive[j] = cLive'[i] /\ j # k
      BY <1>1, <1>2, <2>1, SMTT(30)
    <2>2. ASSUME NEW j \in DOMAIN cLive, j # k PROVE \E i \in DOMAIN cLive' : cLive'[i] = cLive[j]
      <3>1. CASE j < k
        BY <1>2, <2>2, <3>1
      <3>2. CASE j > k
        <4>1. j - 1 \in DOMAIN cLive' /\ ~(j - 1 < k) /\ (j - 1) + 1 = j
          BY <1>1, <1>2, <3>2
        <4> QED BY <1>2, <4>1
      <3> QED BY <1>2, <2>2, <3>1, <3>2
    <2> QED BY <1>0, <1>1, <2>1, <2>2 DEF LiveInv
  <1>4. \A e \in Devices : cDev'[e] = (IF e = d THEN "close" ELSE cDev[e])
                          /\ cWas'[e] = (IF e = d THEN cPtr = d ELSE cWas[e])
    BY <1>0 DEF Ctx!Unlink
  <1>5. LiveInv'
    <2>1. ASSUME NEW i \in DOMAIN cLive', NEW j \in DOMAIN cLive', cLive'[i] = cLive'[j]
          PROVE  i = j
      <3> DEFINE At(n) == IF n < k THEN n ELSE n + 1
      <3>1. At(i) \in DOMAIN cLive /\ At(j) \in DOMAIN cLive /\ cLive[At(i)] = cLive[At(j)]
        BY <1>1, <1>2, <2>1
      <3>2. At(i) = At(j)
        BY <1>0, <3>1 DEF LiveInv
      <3> QED BY <1>1, <1>2, <3>2
    <2>2. \A e \in Devices : cDev'[e] = "live" <=> \E i \in DOMAIN cLive' : cLive'[i] = e
      BY <1>0, <1>3, <1>4 DEF LiveInv
    <2> QED BY <2>1, <2>2 DEF LiveInv
  <1>6. cDev[d] = "live" /\ ~cWas[d]
    BY <1>0 DEF Ctx!Unlink, WithdrawInv, Withdrawal
  <1>7. WithdrawInv'
    <2>1. CASE cPtr = d
      BY <1>0, <1>4, <1>6, <2>1 DEF Ctx!Unlink, WithdrawInv, Withdrawal
    <2>2. CASE cPtr # d
      BY <1>0, <1>4, <1>6, <2>2 DEF Ctx!Unlink, WithdrawInv, Withdrawal
    <2> QED BY <2>1, <2>2
  <1>8. UseInv'
    <2>1. \A c \in Callers : cCaller[c] \in {"inside", "queued"} => cUsing[c] \in Devices
      BY <1>0 DEF Ctx!TypeOK
    <2> QED BY <1>0, <1>4, <1>6, <2>1 DEF Ctx!Unlink, UseInv
  <1>9. Ctx!LiveDeviceServed'
    <2>1. CASE cPtr = d
      BY <2>1 DEF Ctx!Unlink, Ctx!LiveDeviceServed
    <2>2. CASE cPtr # d /\ cPtr # NoDevice
      <3>1. cPtr \in Devices /\ \E i \in DOMAIN cLive : cLive[i] = cPtr
        BY <1>0, <1>2, <2>2 DEF Ctx!TypeOK, Ctx!LiveDeviceServed, Ctx!Contains
      <3>2. \E i \in DOMAIN cLive' : cLive'[i] = cPtr
        BY <1>3, <2>2, <3>1
      <3>3. cPtr' = cPtr /\ cLive' # <<>> /\ \E i \in 1..Len(cLive') : cLive'[i] = cPtr
        BY <1>2, <2>2, <3>2 DEF Ctx!Unlink
      <3> QED BY <2>2, <3>3 DEF Ctx!LiveDeviceServed, Ctx!Contains
    <2>3. CASE cPtr = NoDevice
      <3>1. cWithdrawing
        BY <1>0, <1>1, <2>3 DEF Ctx!LiveDeviceServed
      <3> QED BY <2>3, <3>1 DEF Ctx!Unlink, Ctx!LiveDeviceServed
    <2> QED BY <2>1, <2>2, <2>3
  <1> QED BY <1>5, <1>7, <1>8, <1>9

\* The rest of a device's thread: nobody is inside when its wait is over.
LEMMA WithdrawKeeps ==
  ASSUME CtxInv, NEW d \in Devices,
         Ctx!PnpStep(d) \/ Ctx!FreeCtx(d) \/ Ctx!Rearrive(d)
  PROVE  LiveInv' /\ WithdrawInv' /\ UseInv' /\ Ctx!LiveDeviceServed'
  <1> USE DeviceNone DEF Ctx!To
  <1>0. /\ Ctx!TypeOK /\ LiveInv /\ WithdrawInv /\ UseInv /\ Ctx!LiveDeviceServed
        /\ cLive \in Seq(Devices) /\ cDev \in [Devices -> Ctx!DeviceStates]
        /\ cWas \in [Devices -> BOOLEAN]
    BY DEF CtxInv, Ctx!TypeOK
  <1>u. \A c \in Callers : cCaller[c] \in {"inside", "queued"} => cUsing[c] \in Devices
    BY <1>0 DEF Ctx!TypeOK
  <1>s. \E s : cDev' = [cDev EXCEPT ![d] = s] /\ s # "live" /\ cDev[d] # "live" /\ cLive' = cLive
    BY DEF Ctx!PnpStep, Ctx!BeginClose, Ctx!CancelAll, Ctx!StartWait, Ctx!Rearm, Ctx!Republish,
           Ctx!FreeCtx, Ctx!Rearrive
  <1>v. LiveInv'
    BY <1>0, <1>s DEF LiveInv
  <1>p. ASSUME cPtr' = cPtr, cWithdrawing' = cWithdrawing PROVE Ctx!LiveDeviceServed'
    BY <1>0, <1>s, <1>p DEF Ctx!LiveDeviceServed
  <1>1. CASE Ctx!BeginClose(d)
    <2>1. WithdrawInv'
      BY <1>0, <1>1 DEF Ctx!BeginClose, WithdrawInv, Withdrawal
    <2>2. UseInv'
      BY <1>0, <1>1, <1>u DEF Ctx!BeginClose, UseInv
    <2> QED BY <1>1, <1>v, <1>p, <2>1, <2>2 DEF Ctx!BeginClose
  <1>2. CASE Ctx!CancelAll(d)
    <2>1. WithdrawInv'
      BY <1>0, <1>2 DEF Ctx!CancelAll, WithdrawInv, Withdrawal
    <2>2. ASSUME NEW c \in Callers, cCaller'[c] \in {"inside", "queued"}
          PROVE  cCaller[c] = cCaller'[c] /\ cUsing[c] = cUsing'[c]
      BY <1>0, <1>2, <2>2 DEF Ctx!CancelAll, Ctx!TypeOK
    <2>3. UseInv'
      BY <1>0, <1>2, <1>u, <2>2 DEF Ctx!CancelAll, UseInv
    <2> QED BY <1>2, <1>v, <1>p, <2>1, <2>3 DEF Ctx!CancelAll
  <1>3. CASE Ctx!StartWait(d)
    <2>1. WithdrawInv'
      BY <1>0, <1>3 DEF Ctx!StartWait, WithdrawInv, Withdrawal
    <2>2. UseInv'
      BY <1>0, <1>3, <1>u DEF Ctx!StartWait, UseInv
    <2> QED BY <1>3, <1>v, <1>p, <2>1, <2>2 DEF Ctx!StartWait
  <1>4. CASE Ctx!Rearm(d)
    <2>1. WithdrawInv'
      BY <1>0, <1>4 DEF Ctx!Rearm, WithdrawInv, Withdrawal
    <2>2. UseInv'
      BY <1>4 DEF Ctx!Rearm, Ctx!Referenced, UseInv
    <2> QED BY <1>4, <1>v, <1>p, <2>1, <2>2 DEF Ctx!Rearm
  <1>5. CASE Ctx!Republish(d)
    <2>1. cWas[d] /\ cWithdrawing /\ cPtr = NoDevice
      BY <1>0, <1>5 DEF Ctx!Republish, WithdrawInv, Withdrawal
    <2>2. WithdrawInv'
      BY <1>0, <1>5, <2>1 DEF Ctx!Republish, WithdrawInv, Withdrawal
    <2>3. UseInv'
      BY <1>0, <1>5, <1>u, <2>1 DEF Ctx!Republish, UseInv
    <2>4. Ctx!LiveDeviceServed'
      <3>1. CASE cLive = <<>>
        BY <1>5, <2>1, <3>1 DEF Ctx!Republish, Ctx!LiveDeviceServed
      <3>2. CASE cLive # <<>>
        <4>1. Head(cLive) \in Devices /\ Len(cLive) >= 1 /\ cLive[1] = Head(cLive)
              /\ 1 \in 1..Len(cLive)
          BY <1>0, <3>2
        <4>2. cPtr' = Head(cLive) /\ cLive' = cLive
          BY <1>5, <3>2 DEF Ctx!Republish
        <4> QED BY <3>2, <4>1, <4>2 DEF Ctx!LiveDeviceServed, Ctx!Contains
      <3> QED BY <3>1, <3>2
    <2> QED BY <1>v, <2>2, <2>3, <2>4
  <1>6. CASE Ctx!FreeCtx(d)
    <2>1. WithdrawInv'
      BY <1>0, <1>6 DEF Ctx!FreeCtx, WithdrawInv, Withdrawal
    <2>2. UseInv'
      BY <1>0, <1>6, <1>u DEF Ctx!FreeCtx, UseInv
    <2> QED BY <1>6, <1>v, <1>p, <2>1, <2>2 DEF Ctx!FreeCtx
  <1>7. CASE Ctx!Rearrive(d)
    <2>1. WithdrawInv'
      BY <1>0, <1>7 DEF Ctx!Rearrive, WithdrawInv, Withdrawal
    <2>2. UseInv'
      BY <1>0, <1>7, <1>u DEF Ctx!Rearrive, UseInv
    <2> QED BY <1>7, <1>v, <1>p, <2>1, <2>2 DEF Ctx!Rearrive
  <1> QED BY <1>1, <1>2, <1>3, <1>4, <1>5, <1>6, <1>7 DEF Ctx!PnpStep

\* A caller gets in by what is published when it looks.
LEMMA CallKeeps ==
  ASSUME CtxInv, NEW c \in Callers,
         Ctx!Acquire(c) \/ Ctx!LookUp(c) \/ Ctx!QueueIrp(c) \/ Ctx!Leave(c)
  PROVE  LiveInv' /\ WithdrawInv' /\ UseInv' /\ Ctx!LiveDeviceServed'
  <1>0. Ctx!TypeOK /\ LiveInv /\ WithdrawInv /\ UseInv /\ Ctx!LiveDeviceServed
    BY DEF CtxInv
  <1>1. UNCHANGED <<cDev, cWas, cLive, cPtr, cWithdrawing, cDraining, cClosing>>
    BY DEF Ctx!Acquire, Ctx!LookUp, Ctx!QueueIrp, Ctx!Leave
  <1>2. LiveInv' /\ WithdrawInv' /\ Ctx!LiveDeviceServed'
    BY <1>0, <1>1 DEF LiveInv, WithdrawInv, Ctx!LiveDeviceServed
  <1>3. UseInv'
    BY <1>0, <1>1 DEF UseInv, Ctx!TypeOK, Ctx!Acquire, Ctx!LookUp, Ctx!QueueIrp, Ctx!Leave
  <1> QED BY <1>2, <1>3

\* Every step keeps the invariant.
LEMMA CtxNext == CtxInv /\ [Ctx!Next]_cVars => CtxInv'
  <1> SUFFICES ASSUME CtxInv, [Ctx!Next]_cVars PROVE CtxInv'
    OBVIOUS
  <1>1. ASSUME NEW d \in Devices,
               Ctx!AddDevice(d) \/ Ctx!Unlink(d) \/ Ctx!PnpStep(d) \/ Ctx!FreeCtx(d) \/ Ctx!Rearrive(d)
        PROVE  CtxInv'
    <2>1. Ctx!TypeOK'
      BY <1>1, TypeSteps DEF CtxInv
    <2> QED BY <1>1, <2>1, AddKeeps, UnlinkKeeps, WithdrawKeeps DEF CtxInv
  <1>2. ASSUME NEW c \in Callers,
               Ctx!Acquire(c) \/ Ctx!LookUp(c) \/ Ctx!QueueIrp(c) \/ Ctx!Leave(c)
        PROVE  CtxInv'
    <2>1. Ctx!TypeOK'
      BY <1>2, TypeCalls DEF CtxInv
    <2> QED BY <1>2, <2>1, CallKeeps DEF CtxInv
  <1>3. CASE UNCHANGED cVars
    BY <1>3 DEF CtxInv, Ctx!TypeOK, LiveInv, WithdrawInv, UseInv, Ctx!LiveDeviceServed, cVars
  <1> QED BY <1>1, <1>2, <1>3 DEF Ctx!Next

\* The invariant is strong enough: who is inside by a context is inside by
\* the published one, which is live, or by one whose wait is not over.
LEMMA CtxSafe == CtxInv => LiveContextsOnly
  <1> SUFFICES ASSUME CtxInv PROVE LiveContextsOnly
    OBVIOUS
  <1>1. Ctx!TypeOK /\ LiveInv /\ WithdrawInv /\ UseInv /\ Ctx!LiveDeviceServed
    BY DEF CtxInv
  <1>2. cPtr # NoDevice => cPtr \in Devices /\ cDev[cPtr] = "live"
    <2>1. cPtr # NoDevice => \E i \in DOMAIN cLive : cLive[i] = cPtr
      BY <1>1 DEF Ctx!LiveDeviceServed, Ctx!Contains, Ctx!TypeOK
    <2> QED BY <1>1, <2>1 DEF LiveInv, Ctx!TypeOK
  <1>3. ASSUME NEW c \in Callers, cCaller[c] \in {"inside", "queued"}
        PROVE  cDev[cUsing[c]] \in {"live", "close", "cancel", "wait", "drain"}
    <2>1. cUsing[c] # NoDevice
      BY <1>1, <1>3 DEF Ctx!TypeOK
    <2> QED BY <1>1, <1>2, <1>3, <2>1 DEF UseInv
  <1>4. Ctx!NoUseAfterWithdraw
    BY <1>3 DEF Ctx!NoUseAfterWithdraw
  <1> QED BY <1>1, <1>4 DEF LiveContextsOnly

\* Devices, withdrawal, rundown and callers of driver.cpp stay accounted for,
\* for any numbers of devices and callers.
THEOREM CtxAccounted == Ctx!Spec => []CtxInv
  BY CtxInit, CtxNext, PTL DEF Ctx!Spec, Ctx!vars, cVars

\* driver.cpp: nothing uses a context whose withdrawal has got through its
\* wait, and a live device is served once no withdrawal is in progress.
THEOREM ContextsLive == Ctx!Spec => []LiveContextsOnly
  BY CtxAccounted, CtxSafe, PTL

-----------------------------------------------------------------------------
(* The control-event queue (EventChannel).                                 *)
\* The slots of the circular array that hold queued events.
Occupied == {k \in 0..Depth-1 : IF eHead <= eTail THEN eHead <= k /\ k < eTail
                                                  ELSE eHead <= k \/ k < eTail}
InSlots == {eSlot[k] : k \in Occupied}
InPost == {e \in Events!Event : e.n <= ePosted[e.from]}

\* An occupied slot has an event, no two the same.
SlotsInv ==
    /\ \A k \in Occupied : eSlot[k] \in Events!Event
    /\ \A j, k \in Occupied : eSlot[j] = eSlot[k] => j = k

\* Posters at work have an event.
HandInv == \A p \in {mixer, stream} : ePoster[p] # "idle" => ePosted[p] > 0

EventInv == Events!TypeOK /\ SlotsInv /\ HandInv /\ Events!Accounted

\* What is assumed of the depth and the events.
LEMMA EventConstants == Depth \in Nat /\ Depth > 1 /\ MaxPosts \in Nat \ {0}
                        /\ NoEvent \notin Events!Event
  BY InstancesAssumption DEF Events!ConstantsOK

\* The next slot.
LEMMA NextSlot ==
  ASSUME NEW k \in 0..Depth-1
  PROVE  Events!Next1(k) = (IF k = Depth - 1 THEN 0 ELSE k + 1) /\ Events!Next1(k) \in 0..Depth-1
  <1>1. PICK t \in Int : t = k + 1
    OBVIOUS
  <1>2. Depth \in Nat \ {0} /\ t >= -Depth /\ t < 2 * Depth
    BY <1>1, EventConstants
  <1>3. t % Depth = IF t < 0 THEN t + Depth ELSE IF t < Depth THEN t ELSE t - Depth
    BY <1>2, ModTurn, Zenon
  <1> QED BY <1>1, <1>3, EventConstants DEF Events!Next1

\* The length of the queue, from head forward to tail.
LEMMA QueueLength ==
  ASSUME Events!TypeOK
  PROVE  /\ Events!Length = IF eHead <= eTail THEN eTail - eHead ELSE eTail - eHead + Depth
         /\ Events!Length \in 0..Depth-1
  <1>1. eHead \in 0..Depth-1 /\ eTail \in 0..Depth-1
    BY DEF Events!TypeOK
  <1>2. Depth \in Nat \ {0} /\ eTail - eHead \in Int /\ eTail - eHead >= -Depth
        /\ eTail - eHead < 2 * Depth
    BY <1>1, EventConstants
  <1>3. (eTail - eHead) % Depth = IF eTail - eHead < 0 THEN eTail - eHead + Depth
          ELSE IF eTail - eHead < Depth THEN eTail - eHead ELSE eTail - eHead - Depth
    BY <1>2, ModTurn, Zenon
  <1> QED BY <1>1, <1>3, EventConstants DEF Events!Length

\* The queue from head to tail is what the occupied slots hold.
LEMMA WaitingInSlots == Events!TypeOK => Events!Waiting = InSlots
  <1> SUFFICES ASSUME Events!TypeOK PROVE Events!Waiting = InSlots
    OBVIOUS
  <1> USE EventConstants
  <1>1. eHead \in 0..Depth-1 /\ eTail \in 0..Depth-1
    BY DEF Events!TypeOK
  <1>2. /\ Events!Length = IF eHead <= eTail THEN eTail - eHead ELSE eTail - eHead + Depth
        /\ Events!Length \in 0..Depth-1
    BY QueueLength
  <1>3. \A k \in 1..Events!Length : Events!Queued[k] = eSlot[(eHead + k - 1) % Depth]
    BY DEF Events!Queued
  <1> DEFINE At(k) == IF eHead + k - 1 < Depth THEN eHead + k - 1 ELSE eHead + k - 1 - Depth
  <1>4. ASSUME NEW k \in 1..Events!Length
        PROVE  (eHead + k - 1) % Depth = At(k)
    <2>1. PICK t \in Int : t = eHead + k - 1
      BY <1>1
    <2>2. Depth \in Nat \ {0} /\ t >= 0 /\ t >= -Depth /\ t < 2 * Depth
      BY <1>1, <1>2, <2>1
    <2>3. t % Depth = IF t < 0 THEN t + Depth ELSE IF t < Depth THEN t ELSE t - Depth
      BY <2>2, ModTurn, Zenon
    <2>4. t % Depth = At(k)
      BY <1>1, <1>2, <2>1, <2>2, <2>3
    <2> HIDE DEF At
    <2> QED BY <2>1, <2>4
  <1>5. ASSUME NEW k \in 1..Events!Length PROVE Events!Queued[k] \in InSlots
    <2>1. At(k) \in Occupied
      BY <1>1, <1>2 DEF Occupied
    <2> QED BY <1>3, <1>4, <2>1 DEF InSlots
  <1>6. ASSUME NEW j \in Occupied PROVE \E k \in 1..Events!Length : Events!Queued[k] = eSlot[j]
    <2> DEFINE k == IF eHead <= j THEN j - eHead + 1 ELSE j - eHead + 1 + Depth
    <2>1. k \in 1..Events!Length /\ At(k) = j
      BY <1>1, <1>2 DEF Occupied
    <2> HIDE DEF k, At
    <2> QED BY <1>3, <1>4, <2>1
  <1> QED BY <1>5, <1>6 DEF Events!Waiting, InSlots

\* The same, after a step.
LEMMA WaitingThen == Events!TypeOK' => Events!Waiting' = InSlots'
  <1>1. (Events!TypeOK => Events!Waiting = InSlots)'
    BY WaitingInSlots, PTL
  <1> QED BY <1>1

\* The first of the occupied slots, and the one behind the last.
LEMMA Ends ==
  ASSUME Events!TypeOK
  PROVE  /\ eHead # eTail => eHead \in Occupied
         /\ eTail \in 0..Depth-1 /\ eTail \notin Occupied
         /\ Occupied \subseteq 0..Depth-1
  BY EventConstants DEF Events!TypeOK, Occupied

\* A fetch frees the first slot.
LEMMA HeadMoves ==
  ASSUME Events!TypeOK, eHead # eTail, eHead' = Events!Next1(eHead), eTail' = eTail
  PROVE  Occupied' = Occupied \ {eHead}
  <1>1. eHead' = IF eHead = Depth - 1 THEN 0 ELSE eHead + 1
    BY NextSlot DEF Events!TypeOK
  <1> QED BY <1>1, EventConstants DEF Events!TypeOK, Occupied

\* A stored event takes the slot behind the last.
LEMMA TailMoves ==
  ASSUME Events!TypeOK, Events!Next1(eTail) # eHead, eHead' = eHead, eTail' = Events!Next1(eTail)
  PROVE  Occupied' = Occupied \cup {eTail}
  <1>1. Events!Next1(eTail) = IF eTail = Depth - 1 THEN 0 ELSE eTail + 1
    BY NextSlot DEF Events!TypeOK
  <1> QED BY <1>1, EventConstants DEF Events!TypeOK, Occupied

\* In a full queue the oldest event's slot is given up as well.
LEMMA BothMove ==
  ASSUME Events!TypeOK, Events!Next1(eTail) = eHead, eHead' = Events!Next1(eHead),
         eTail' = Events!Next1(eTail)
  PROVE  Occupied' = (Occupied \ {eHead}) \cup {eTail} /\ eHead # eTail /\ eHead \in Occupied
  <1>1. Events!Next1(eTail) = IF eTail = Depth - 1 THEN 0 ELSE eTail + 1
    BY NextSlot DEF Events!TypeOK
  <1>2. eHead' = IF eHead = Depth - 1 THEN 0 ELSE eHead + 1
    BY NextSlot DEF Events!TypeOK
  <1> QED BY <1>1, <1>2, EventConstants DEF Events!TypeOK, Occupied

-----------------------------------------------------------------------------
\* Nothing has been posted yet.
LEMMA EventInit == Events!Init => EventInv
  <1> SUFFICES ASSUME Events!Init PROVE EventInv
    OBVIOUS
  <1> USE EventConstants DEF Events!Init
  <1>1. Events!TypeOK
    BY DEF Events!TypeOK
  <1>2. Occupied = {}
    BY DEF Occupied
  <1>3. SlotsInv /\ HandInv
    BY <1>2 DEF SlotsInv, HandInv
  <1>4. Events!Accounted
    <2>1. Events!Waiting = {} /\ Events!InHand = {} /\ Events!Delivered = {} /\ eLost = {}
      BY <1>1, <1>2, WaitingInSlots DEF InSlots, Events!InHand, Events!Delivered
    <2>2. \A e \in Events!Event : ~(e.n <= ePosted[e.from])
      BY DEF Events!Event
    <2> QED BY <2>1, <2>2 DEF Events!Accounted
  <1> QED BY <1>1, <1>3, <1>4 DEF EventInv

\* Types.
LEMMA EventTypes == ASSUME EventInv, Events!Next PROVE Events!TypeOK'
  <1> USE EventConstants DEF EventInv, Events!TypeOK
  <1>0. \A k \in 0..Depth-1 : Events!Next1(k) \in 0..Depth-1
    BY NextSlot
  <1>1. CASE Events!FetchQueued
    <2>1. eSlot[eHead] \in Events!Event
      BY <1>1, Ends DEF Events!FetchQueued, SlotsInv
    <2> QED BY <1>0, <1>1, <2>1 DEF Events!FetchQueued
  <1>2. CASE Events!FindEmpty \/ Events!InsertIrp
    BY <1>2 DEF Events!FindEmpty, Events!InsertIrp
  <1>3. ASSUME NEW p \in {mixer, stream}, Events!Post(p) PROVE Events!TypeOK'
    BY <1>3 DEF Events!Post
  <1>4. ASSUME NEW p \in {mixer, stream}, ePoster[p] # "idle" PROVE Events!Current(p) \in Events!Event
    BY <1>4 DEF Events!Current, Events!Event, HandInv
  <1>5. ASSUME NEW p \in {mixer, stream}, Events!Offer(p) PROVE Events!TypeOK'
    BY <1>5 DEF Events!Offer
  <1>6. ASSUME NEW p \in {mixer, stream}, Events!Deliver(p) PROVE Events!TypeOK'
    BY <1>4, <1>6 DEF Events!Deliver
  <1>7. ASSUME NEW p \in {mixer, stream}, Events!Enqueue(p) PROVE Events!TypeOK'
    <2>1. eLost' \subseteq Events!Event
      <3>1. CASE Events!Next1(eTail) = eHead
        <4>1. eHead # eTail
          BY <3>1, NextSlot, SMTT(30)
        <4> QED BY <1>7, <4>1, Ends DEF Events!Enqueue, SlotsInv
      <3> QED BY <1>7, <3>1 DEF Events!Enqueue
    <2> QED BY <1>0, <1>4, <1>7, <2>1 DEF Events!Enqueue
  <1> QED BY <1>1, <1>2, <1>3, <1>5, <1>6, <1>7 DEF Events!Next, Events!ReadStep, Events!PostStep

\* What the reader has, after one more.
LEMMA OneMoreGot ==
  ASSUME eGot \in Seq(Events!Event), NEW e \in Events!Event, eGot' = Append(eGot, e),
         e \notin Events!Delivered, \A j, k \in DOMAIN eGot : eGot[j] = eGot[k] => j = k
  PROVE  /\ Events!Delivered' = Events!Delivered \cup {e}
         /\ \A j, k \in DOMAIN eGot' : eGot'[j] = eGot'[k] => j = k
  <1>1. /\ DOMAIN eGot = 1..Len(eGot) /\ Len(eGot) \in Nat
        /\ DOMAIN eGot' = 1..(Len(eGot) + 1) /\ eGot'[Len(eGot) + 1] = e
        /\ \A i \in 1..Len(eGot) : eGot'[i] = eGot[i]
    OBVIOUS
  <1>2. \A i \in 1..Len(eGot) : eGot[i] # e
    BY <1>1 DEF Events!Delivered
  <1>3. Events!Delivered' = Events!Delivered \cup {e}
    BY <1>1 DEF Events!Delivered
  <1> QED BY <1>1, <1>2, <1>3

\* A poster that is done has nothing in hand.
LEMMA HandEmptied ==
  ASSUME EventInv, NEW p \in {mixer, stream}, ePoster[p] # "idle",
         ePoster' = [ePoster EXCEPT ![p] = "idle"], ePosted' = ePosted
  PROVE  /\ Events!InHand' = Events!InHand \ {Events!Current(p)}
         /\ Events!Current(p) \in Events!InHand /\ Events!Current(p) \in Events!Event
         /\ InPost' = InPost /\ HandInv'
  <1>1. ePoster \in [{mixer, stream} -> {"idle", "offer", "deliver", "enqueue"}]
        /\ ePosted \in [{mixer, stream} -> 0..MaxPosts]
    BY DEF EventInv, Events!TypeOK
  <1>2. \A q, r \in {mixer, stream} : Events!Current(q) = Events!Current(r) => q = r
    BY DEF Events!Current
  <1>3. \A q \in {mixer, stream} : Events!Current(q)' = Events!Current(q)
    BY DEF Events!Current
  <1>4. Events!InHand' = {Events!Current(q) : q \in {r \in {mixer, stream} : ePoster'[r] # "idle"}}
    BY <1>3 DEF Events!InHand
  <1>5. \A q \in {mixer, stream} : ePoster'[q] # "idle" <=> ePoster[q] # "idle" /\ q # p
    BY <1>1
  <1>6. Events!InHand' = Events!InHand \ {Events!Current(p)}
    BY <1>2, <1>4, <1>5 DEF Events!InHand
  <1>7. Events!Current(p) \in Events!InHand /\ InPost' = InPost
    BY DEF Events!InHand, InPost
  <1>8. Events!Current(p) \in Events!Event /\ HandInv'
    BY <1>1, <1>5, EventConstants DEF EventInv, HandInv, Events!Current, Events!Event
  <1> QED BY <1>6, <1>7, <1>8

\* A fetched event goes from the queue to the reader.
LEMMA FetchKeeps == ASSUME EventInv, Events!FetchQueued PROVE EventInv'
  <1>0. Events!TypeOK' /\ Events!TypeOK /\ SlotsInv /\ HandInv /\ Events!Accounted
    BY EventTypes DEF EventInv, Events!Next, Events!ReadStep
  <1>1. eHead \in Occupied /\ Occupied' = Occupied \ {eHead}
    BY <1>0, Ends, HeadMoves DEF Events!FetchQueued
  <1> DEFINE e == eSlot[eHead]
  <1>2. e \in InSlots /\ InSlots' = InSlots \ {e} /\ e \in Events!Event /\ SlotsInv'
    BY <1>0, <1>1 DEF Events!FetchQueued, SlotsInv, InSlots
  <1>3. Events!Waiting = InSlots /\ Events!Waiting' = InSlots'
    BY <1>0, WaitingInSlots, WaitingThen
  <1>4. Events!InHand' = Events!InHand /\ HandInv' /\ InPost' = InPost /\ eLost' = eLost
    BY <1>0 DEF Events!FetchQueued, Events!InHand, Events!Current, HandInv, InPost
  <1>5. e \notin Events!Delivered
    BY <1>2, <1>3, <1>0 DEF Events!Accounted
  <1>6. /\ Events!Delivered' = Events!Delivered \cup {e}
        /\ \A j, k \in DOMAIN eGot' : eGot'[j] = eGot'[k] => j = k
    BY <1>0, <1>2, <1>5, OneMoreGot DEF Events!FetchQueued, Events!TypeOK, Events!Accounted
  <1> HIDE DEF e
  <1>7. Events!Accounted'
    BY <1>0, <1>2, <1>3, <1>4, <1>6 DEF Events!Accounted, InPost
  <1> QED BY <1>0, <1>2, <1>4, <1>7 DEF EventInv

\* An event delivered directly goes from its poster to the reader.
LEMMA DeliverKeeps ==
  ASSUME EventInv, NEW p \in {mixer, stream}, Events!Deliver(p) PROVE EventInv'
  <1>0. Events!TypeOK' /\ Events!TypeOK /\ SlotsInv /\ HandInv /\ Events!Accounted
    BY EventTypes DEF EventInv, Events!Next, Events!PostStep
  <1> DEFINE e == Events!Current(p)
  <1>1. /\ Events!InHand' = Events!InHand \ {e} /\ e \in Events!InHand /\ e \in Events!Event
        /\ InPost' = InPost /\ HandInv'
    BY HandEmptied DEF Events!Deliver
  <1>2. Events!Waiting' = Events!Waiting /\ SlotsInv' /\ eLost' = eLost
    BY <1>0 DEF Events!Deliver, Events!Waiting, Events!Queued, Events!Length, SlotsInv, Occupied
  <1> HIDE DEF e
  <1>3. e \notin Events!Delivered
    BY <1>0, <1>1 DEF Events!Accounted
  <1>4. /\ Events!Delivered' = Events!Delivered \cup {e}
        /\ \A j, k \in DOMAIN eGot' : eGot'[j] = eGot'[k] => j = k
    BY <1>0, <1>1, <1>3, OneMoreGot DEF Events!Deliver, Events!TypeOK, Events!Accounted, e
  <1>5. Events!Accounted'
    BY <1>0, <1>1, <1>2, <1>4 DEF Events!Accounted, InPost
  <1> QED BY <1>0, <1>1, <1>2, <1>5 DEF EventInv

\* A stored event goes from its poster to the queue, the oldest of a full
\* queue to the lost ones.
LEMMA EnqueueKeeps ==
  ASSUME EventInv, NEW p \in {mixer, stream}, Events!Enqueue(p) PROVE EventInv'
  <1>0. Events!TypeOK' /\ Events!TypeOK /\ SlotsInv /\ HandInv /\ Events!Accounted
    BY EventTypes DEF EventInv, Events!Next, Events!PostStep
  <1> DEFINE e == Events!Current(p)
             gone == IF Events!Next1(eTail) = eHead THEN {eSlot[eHead]} ELSE {}
             kept == IF Events!Next1(eTail) = eHead THEN Occupied \ {eHead} ELSE Occupied
  <1>1. /\ Events!InHand' = Events!InHand \ {e} /\ e \in Events!InHand /\ e \in Events!Event
        /\ InPost' = InPost /\ HandInv'
    BY HandEmptied DEF Events!Enqueue
  <1>2. Events!Waiting = InSlots /\ Events!Waiting' = InSlots'
    BY <1>0, WaitingInSlots, WaitingThen
  <1>3. /\ Occupied' = kept \cup {eTail} /\ eTail \notin kept /\ kept \subseteq Occupied
        /\ eLost' = eLost \cup gone
        /\ Events!Next1(eTail) = eHead => eHead \in Occupied
    BY <1>0, Ends, TailMoves, BothMove DEF Events!Enqueue
  <1>4. eTail \in 0..Depth-1 /\ Occupied \subseteq 0..Depth-1 /\ eSlot' = [eSlot EXCEPT ![eTail] = e]
        /\ DOMAIN eSlot = 0..Depth-1
    BY <1>0, Ends DEF Events!Enqueue, Events!TypeOK
  <1>5. \A k \in Occupied' : eSlot'[k] = IF k = eTail THEN e ELSE eSlot[k]
    BY <1>3, <1>4
  <1>6. {eSlot[k] : k \in kept} = InSlots \ gone /\ gone \subseteq InSlots
    BY <1>0, <1>3 DEF InSlots, SlotsInv
  <1> HIDE DEF e, gone
  <1>7. InSlots' = (InSlots \ gone) \cup {e}
    <2>1. InSlots' = {eSlot'[k] : k \in kept} \cup {e}
      BY <1>3, <1>5 DEF InSlots
    <2>2. {eSlot'[k] : k \in kept} = {eSlot[k] : k \in kept}
      BY <1>3, <1>5
    <2> QED BY <1>6, <2>1, <2>2
  <1>8. e \notin InSlots
    BY <1>0, <1>1, <1>2 DEF Events!Accounted
  <1>9. SlotsInv'
    BY <1>0, <1>1, <1>3, <1>5, <1>8 DEF SlotsInv, InSlots
  <1>10. eGot' = eGot /\ Events!Delivered' = Events!Delivered
    BY DEF Events!Enqueue, Events!Delivered
  <1>11. Events!Accounted'
    BY <1>0, <1>1, <1>2, <1>3, <1>6, <1>7, <1>10 DEF Events!Accounted, InPost
  <1> QED BY <1>0, <1>1, <1>9, <1>11 DEF EventInv

\* A new event is in its poster's hand only.
LEMMA PostKeeps ==
  ASSUME EventInv, NEW p \in {mixer, stream}, Events!Post(p) PROVE EventInv'
  <1>0. Events!TypeOK' /\ Events!TypeOK /\ SlotsInv /\ HandInv /\ Events!Accounted
    BY EventTypes DEF EventInv, Events!Next
  <1> DEFINE e == [from |-> p, n |-> ePosted[p] + 1]
  <1>1. /\ ePoster \in [{mixer, stream} -> {"idle", "offer", "deliver", "enqueue"}]
        /\ ePosted \in [{mixer, stream} -> 0..MaxPosts]
        /\ ePoster[p] = "idle" /\ ePosted[p] < MaxPosts
        /\ ePosted' = [ePosted EXCEPT ![p] = @ + 1] /\ ePoster' = [ePoster EXCEPT ![p] = "offer"]
    BY <1>0 DEF Events!TypeOK, Events!Post
  <1>2. e \in Events!Event /\ e \notin InPost
    BY <1>1, EventConstants DEF Events!Event, InPost
  <1>3. InPost' = InPost \cup {e}
    <2>1. ASSUME NEW x \in Events!Event
          PROVE  x.n <= ePosted'[x.from] <=> x.n <= ePosted[x.from] \/ x = e
      <3>1. x.from \in {mixer, stream} /\ x.n \in 1..MaxPosts
            /\ x = [from |-> x.from, n |-> x.n]
        BY DEF Events!Event
      <3>2. CASE x.from = p
        <4>1. x = e <=> x.n = ePosted[p] + 1
          BY <3>1, <3>2
        <4>2. ePosted'[x.from] = ePosted[p] + 1 /\ ePosted[p] \in Int
          BY <1>1, <3>2
        <4> HIDE DEF e
        <4> QED BY <3>1, <3>2, <4>1, <4>2
      <3>3. CASE x.from # p
        <4>1. x # e /\ ePosted'[x.from] = ePosted[x.from]
          BY <1>1, <3>1, <3>3
        <4> QED BY <4>1
      <3> QED BY <3>2, <3>3
    <2> QED BY <1>2, <2>1 DEF InPost
  <1>4. Events!InHand' = Events!InHand \cup {e}
    <2>1. \A q \in {mixer, stream} : Events!Current(q)' = IF q = p THEN e ELSE Events!Current(q)
      BY <1>1 DEF Events!Current
    <2>2. Events!InHand' = {Events!Current(q)' : q \in {r \in {mixer, stream} : ePoster'[r] # "idle"}}
      BY DEF Events!InHand
    <2>3. \A q \in {mixer, stream} : ePoster'[q] # "idle" <=> ePoster[q] # "idle" \/ q = p
      BY <1>1
    <2> HIDE DEF e
    <2> QED BY <1>1, <2>1, <2>2, <2>3 DEF Events!InHand
  <1>5. HandInv'
    BY <1>0, <1>1 DEF HandInv
  <1>6. Events!Waiting' = Events!Waiting /\ SlotsInv' /\ eLost' = eLost /\ eGot' = eGot
        /\ Events!Delivered' = Events!Delivered
    BY <1>0 DEF Events!Post, Events!Waiting, Events!Queued, Events!Length, SlotsInv, Occupied,
                Events!Delivered
  <1> HIDE DEF e
  <1>7. Events!Accounted'
    BY <1>0, <1>2, <1>3, <1>4, <1>6 DEF Events!Accounted, InPost
  <1> QED BY <1>0, <1>5, <1>6, <1>7 DEF EventInv

\* The steps that move no event.
LEMMA IdleKeeps ==
  ASSUME EventInv,
         \/ Events!FindEmpty \/ Events!InsertIrp
         \/ \E p \in {mixer, stream} : Events!Offer(p)
  PROVE  EventInv'
  <1>0. Events!TypeOK' /\ Events!TypeOK /\ SlotsInv /\ HandInv /\ Events!Accounted
    BY EventTypes DEF EventInv, Events!Next, Events!ReadStep, Events!PostStep
  <1>1. UNCHANGED <<eSlot, eHead, eTail, ePosted, eGot, eLost>>
    BY DEF Events!FindEmpty, Events!InsertIrp, Events!Offer
  <1>2. \A p \in {mixer, stream} : ePoster'[p] # "idle" <=> ePoster[p] # "idle"
    BY <1>0 DEF Events!FindEmpty, Events!InsertIrp, Events!Offer, Events!TypeOK
  <1>3. SlotsInv' /\ HandInv'
    BY <1>0, <1>1, <1>2 DEF SlotsInv, Occupied, HandInv
  <1>4. Events!Waiting' = Events!Waiting /\ Events!Delivered' = Events!Delivered
    BY <1>1 DEF Events!Waiting, Events!Queued, Events!Length, Events!Delivered
  <1>5. Events!InHand' = Events!InHand
    <2>1. \A q \in {mixer, stream} : Events!Current(q)' = Events!Current(q)
      BY <1>1 DEF Events!Current
    <2> QED BY <1>2, <2>1 DEF Events!InHand
  <1>6. Events!Accounted'
    BY <1>0, <1>1, <1>4, <1>5 DEF Events!Accounted
  <1> QED BY <1>0, <1>3, <1>6 DEF EventInv

\* Every step keeps the invariant.
LEMMA EventNext == EventInv /\ [Events!Next]_eVars => EventInv'
  <1> SUFFICES ASSUME EventInv, [Events!Next]_eVars PROVE EventInv'
    OBVIOUS
  <1>1. CASE Events!Next
    BY <1>1, FetchKeeps, IdleKeeps, PostKeeps, DeliverKeeps, EnqueueKeeps
       DEF Events!Next, Events!ReadStep, Events!PostStep
  <1>2. CASE UNCHANGED eVars
    <2>1. Events!TypeOK' /\ SlotsInv' /\ HandInv'
      BY <1>2 DEF eVars, EventInv, Events!TypeOK, SlotsInv, HandInv, Occupied
    <2>2. Events!Waiting' = Events!Waiting /\ Events!Delivered' = Events!Delivered
          /\ Events!InHand' = Events!InHand
      BY <1>2 DEF eVars, Events!Waiting, Events!Queued, Events!Length, Events!Delivered,
                  Events!InHand, Events!Current
    <2>3. Events!Accounted'
      BY <1>2, <2>2 DEF eVars, EventInv, Events!Accounted
    <2> QED BY <2>1, <2>3 DEF EventInv
  <1> QED BY <1>1, <1>2

\* ioctl.cpp: every event posted is with its poster, queued, delivered or lost
\* to a full queue, in one of these places only and delivered once, for every
\* depth of the queue.
THEOREM EventsAccounted == Events!Spec => []Events!Accounted
  <1>1. EventInv => Events!Accounted
    BY DEF EventInv
  <1> QED BY <1>1, EventInit, EventNext, PTL DEF Events!Spec, Events!vars, eVars

\* ioctl.cpp: an event is lost only to a queue that is full, and it is the
\* oldest.
THEOREM OverflowOnly == Events!Spec => Events!OnlyOverflowLoses
  <1>1. EventInv /\ [Events!Next]_eVars =>
          [eLost' # eLost => Events!Length = Depth - 1 /\ eLost' = eLost \cup {Events!Queued[1]}]_eVars
    <2> SUFFICES ASSUME EventInv, Events!Next, eLost' # eLost
                 PROVE  Events!Length = Depth - 1 /\ eLost' = eLost \cup {Events!Queued[1]}
      BY DEF eVars
    <2>1. PICK p \in {mixer, stream} : Events!Enqueue(p) /\ Events!Next1(eTail) = eHead
      BY DEF Events!Next, Events!ReadStep, Events!PostStep, Events!FetchQueued, Events!FindEmpty,
             Events!InsertIrp, Events!Post, Events!Offer, Events!Deliver, Events!Enqueue
    <2>2. Events!TypeOK /\ eHead \in 0..Depth-1 /\ eTail \in 0..Depth-1
      BY DEF EventInv, Events!TypeOK
    <2>3. eHead = IF eTail = Depth - 1 THEN 0 ELSE eTail + 1
      BY <2>1, <2>2, NextSlot
    <2>4. Events!Length = Depth - 1
      BY <2>2, <2>3, QueueLength, EventConstants
    <2>5. Events!Queued[1] = eSlot[eHead]
      <3>1. 1 \in 1..Events!Length /\ eHead + 1 - 1 = eHead
        BY <2>2, <2>4, EventConstants
      <3>2. eHead % Depth = eHead
        BY <2>2, EventConstants, ModTurn
      <3> QED BY <3>1, <3>2 DEF Events!Queued
    <2> QED BY <2>1, <2>4, <2>5 DEF Events!Enqueue
  <1> QED BY <1>1, EventInit, EventNext, PTL
        DEF Events!Spec, Events!vars, eVars, Events!OnlyOverflowLoses

-----------------------------------------------------------------------------
(* A stream from start to stop (StreamPath).                               *)

\* A timer, a stream or a setter at work belongs to a session.
PathInv ==
    /\ Path!TypeOK /\ Path!SessionsApart
    /\ (pRun \/ pTimer \/ pSetter # "idle") => pSession > 0

\* What is assumed of the bounds and the kinds of packets.
LEMMA PathConstants ==
  MaxSessions \in Nat \ {0} /\ RingPackets \in Nat \ {0} /\ NoPacket \notin {Sound, Drained, Idle}
  BY InstancesAssumption DEF Path!ConstantsOK

\* No stream has been started yet.
LEMMA PathInit == Path!Init => PathInv
  <1> SUFFICES ASSUME Path!Init PROVE PathInv
    OBVIOUS
  <1> USE PathConstants DEF Path!Init
  <1>1. /\ pRing \in Seq(1..MaxSessions) /\ Len(pRing) <= RingPackets
        /\ pQueue \in Seq({"start", "stop"}) /\ pChan \in Seq({"start", "stop"})
    OBVIOUS
  <1>2. /\ pRun \in BOOLEAN /\ pTimer \in BOOLEAN /\ pActive \in BOOLEAN /\ pLoaded \in BOOLEAN
    OBVIOUS
  <1>3. /\ pSession \in 0..MaxSessions /\ pFrom \in 0..MaxSessions /\ pPublished \in 0..MaxSessions
    OBVIOUS
  <1>4. /\ pPacket \in {Sound, Drained, Idle, NoPacket} /\ (pPacket # NoPacket <=> pLoop = "process")
    OBVIOUS
  <1>5. Path!TypeOK
    BY <1>1, <1>2, <1>3, <1>4 DEF Path!TypeOK
  <1>6. Path!SessionsApart
    BY DEF Path!SessionsApart
  <1> QED BY <1>5, <1>6 DEF PathInv

\* The ring, the numbers and the packet, with the current session's sound.
LEMMA RingSteps ==
  ASSUME PathInv, Path!Produce \/ Path!RecvPacket \/ Path!Start \/ Path!Process
  PROVE  /\ pRing' \in Seq(1..MaxSessions) /\ Len(pRing') <= RingPackets
         /\ pSession' \in 0..MaxSessions /\ pFrom' \in 0..MaxSessions
         /\ pPublished' \in 0..MaxSessions
         /\ Path!SessionsApart'
         /\ (pRun' \/ pTimer' \/ pSetter' # "idle") => pSession' > 0
  <1>0. /\ pSession \in 0..MaxSessions /\ pFrom \in 0..MaxSessions /\ pPublished \in 0..MaxSessions
        /\ pRing \in Seq(1..MaxSessions) /\ Len(pRing) <= RingPackets
        /\ \A k \in DOMAIN pRing : pRing[k] = pSession
        /\ pPublished <= pFrom /\ pFrom <= pSession
        /\ (pRun \/ pTimer \/ pSetter # "idle") => pSession > 0
    BY DEF PathInv, Path!TypeOK, Path!SessionsApart
  <1> USE PathConstants, <1>0 DEF Path!SessionsApart
  <1>1. CASE Path!Produce
    <2>1. CASE pLoop = "pended"
      BY <1>1, <2>1 DEF Path!Produce, Path!channel
    <2>2. CASE pLoop # "pended"
      <3>1. pSession \in 1..MaxSessions
        BY <1>1 DEF Path!Produce
      <3>2. /\ pRing' = IF Len(pRing) = RingPackets THEN Append(Tail(pRing), pSession)
                                                   ELSE Append(pRing, pSession)
            /\ UNCHANGED <<pRun, pSetter, pTimer, pSession, pFrom, pPublished>>
        BY <1>1, <2>2 DEF Path!Produce, Path!channel, Path!hand
      <3>3. CASE Len(pRing) = RingPackets
        <4>1. /\ Tail(pRing) \in Seq(1..MaxSessions) /\ Len(Tail(pRing)) = RingPackets - 1
              /\ \A k \in 1..(RingPackets - 1) : Tail(pRing)[k] = pRing[k + 1]
          BY <3>3
        <4>2. \A k \in 1..(RingPackets - 1) : Tail(pRing)[k] = pSession
          BY <3>3, <4>1
        <4>3. /\ pRing' \in Seq(1..MaxSessions) /\ Len(pRing') = RingPackets
              /\ \A k \in 1..RingPackets : pRing'[k] = pSession
          BY <3>1, <3>2, <3>3, <4>1, <4>2
        <4> QED BY <3>2, <4>3, SMTT(30)
      <3>4. CASE Len(pRing) # RingPackets
        <4>1. pRing' = Append(pRing, pSession)
          BY <3>2, <3>4
        <4>2. pRing' \in Seq(1..MaxSessions) /\ Len(pRing') = Len(pRing) + 1
          BY <3>1, <4>1
        <4>3. ASSUME NEW k \in 1..(Len(pRing) + 1) PROVE pRing'[k] = pSession
          BY <4>1
        <4> QED BY <3>2, <3>4, <4>2, <4>3
      <3> QED BY <3>3, <3>4
    <2> QED BY <2>1, <2>2
  <1>2. CASE Path!RecvPacket
    <2>1. CASE pRing = <<>>
      BY <1>2, <2>1 DEF Path!RecvPacket, Path!channel
    <2>2. CASE pRing # <<>>
      <3>1. /\ pFrom' = Head(pRing) /\ pRing' = Tail(pRing)
            /\ UNCHANGED <<pRun, pSetter, pTimer, pSession, pPublished>>
        BY <1>2, <2>2 DEF Path!RecvPacket, Path!channel
      <3>2. Head(pRing) = pSession
        BY <2>2
      <3>3. /\ Tail(pRing) \in Seq(1..MaxSessions) /\ Len(Tail(pRing)) = Len(pRing) - 1
            /\ \A k \in 1..(Len(pRing) - 1) : Tail(pRing)[k] = pRing[k + 1]
        BY <2>2
      <3>4. \A k \in DOMAIN Tail(pRing) : Tail(pRing)[k] = pSession
        BY <3>3
      <3> QED BY <3>1, <3>2, <3>3, <3>4
    <2> QED BY <2>1, <2>2
  <1>3. CASE Path!Start
    BY <1>3 DEF Path!Start, Path!channel, Path!hand
  <1>4. CASE Path!Process
    BY <1>4 DEF Path!Process, Path!driver, Path!channel
  <1> QED BY <1>1, <1>2, <1>3, <1>4

\* Every step keeps the invariant.
LEMMA PathNext == PathInv /\ [Path!Next]_pVars => PathInv'
  <1> SUFFICES ASSUME PathInv, [Path!Next]_pVars PROVE PathInv'
    OBVIOUS
  <1> USE PathConstants
  <1>0. /\ pRun \in BOOLEAN /\ pTimer \in BOOLEAN /\ pActive \in BOOLEAN /\ pLoaded \in BOOLEAN
        /\ pSetter \in {"idle", "drain", "postStop", "postStart"}
        /\ pQueue \in Seq({"start", "stop"}) /\ pChan \in Seq({"start", "stop"})
        /\ pReader \in {"ready", "empty", "waiting"}
        /\ pLoop \in {"top", "issue", "pended", "process"}
        /\ pPacket \in {Sound, Drained, Idle, NoPacket}
        /\ (pPacket # NoPacket) <=> (pLoop = "process")
    BY DEF PathInv, Path!TypeOK
  <1> DEFINE Rest ==
        /\ pRun' \in BOOLEAN /\ pTimer' \in BOOLEAN /\ pActive' \in BOOLEAN /\ pLoaded' \in BOOLEAN
        /\ pSetter' \in {"idle", "drain", "postStop", "postStart"}
        /\ pQueue' \in Seq({"start", "stop"}) /\ pChan' \in Seq({"start", "stop"})
        /\ pReader' \in {"ready", "empty", "waiting"}
        /\ pLoop' \in {"top", "issue", "pended", "process"}
        /\ pPacket' \in {Sound, Drained, Idle, NoPacket}
        /\ (pPacket' # NoPacket) <=> (pLoop' = "process")
  <1>1. CASE Path!Produce \/ Path!RecvPacket \/ Path!Start \/ Path!Process
    <2>1. Rest
      <3>1. CASE Path!Produce
        BY <1>0, <3>1 DEF Path!Produce, Path!channel, Path!hand
      <3>2. CASE Path!RecvPacket
        BY <1>0, <3>2 DEF Path!RecvPacket, Path!channel
      <3>3. CASE Path!Start
        BY <1>0, <3>3 DEF Path!Start, Path!channel, Path!hand
      <3>4. CASE Path!Process
        BY <1>0, <3>4 DEF Path!Process, Path!driver, Path!channel
      <3> QED BY <1>1, <3>1, <3>2, <3>3, <3>4
    <2> QED BY <1>1, <2>1, RingSteps DEF PathInv, Path!TypeOK
  <1>2. ASSUME UNCHANGED <<pRing, pSession, pFrom, pPublished>>, Rest,
               (pRun' \/ pTimer' \/ pSetter' # "idle") => (pRun \/ pTimer \/ pSetter # "idle")
        PROVE  PathInv'
    BY <1>2 DEF PathInv, Path!TypeOK, Path!SessionsApart
  <1>3. CASE Path!Stop
    <2>1. Rest
      BY <1>0, <1>3 DEF Path!Stop, Path!channel, Path!hand
    <2> QED BY <1>2, <1>3, <2>1 DEF Path!Stop, Path!channel, Path!hand
  <1>4. CASE Path!DrainOnStop
    <2>1. Rest
      BY <1>0, <1>4 DEF Path!DrainOnStop, Path!channel, Path!hand
    <2> QED BY <1>2, <1>4, <2>1 DEF Path!DrainOnStop, Path!channel, Path!hand
  <1>5. CASE Path!PostEvent
    <2>1. Rest
      <3>1. PICK event \in {"start", "stop"} :
              \/ pReader' = "ready" /\ pChan' = Append(pChan, event) /\ pQueue' = pQueue
              \/ pQueue' = Append(pQueue, event) /\ UNCHANGED <<pReader, pChan>>
        BY <1>5 DEF Path!PostEvent
      <3>2. Append(pChan, event) \in Seq({"start", "stop"}) /\ Append(pQueue, event) \in Seq({"start", "stop"})
        BY <1>0
      <3>3. pQueue' \in Seq({"start", "stop"}) /\ pChan' \in Seq({"start", "stop"})
            /\ pReader' \in {"ready", "empty", "waiting"}
        BY <1>0, <3>1, <3>2
      <3>4. /\ UNCHANGED <<pRun, pActive, pLoaded, pLoop, pPacket>> /\ pSetter' = "idle"
            /\ pTimer' = (pSetter = "postStart")
        BY <1>5 DEF Path!PostEvent, Path!hand
      <3>5. pTimer' \in BOOLEAN
        BY <3>4
      <3> QED BY <1>0, <3>3, <3>4, <3>5
    <2> QED BY <1>2, <1>5, <2>1 DEF Path!PostEvent, Path!hand
  <1>6. CASE Path!ReaderStep
    <2>1. Rest
      <3>1. CASE Path!FetchQueued
        <4>1. /\ Head(pQueue) \in {"start", "stop"} /\ Tail(pQueue) \in Seq({"start", "stop"})
              /\ Append(pChan, Head(pQueue)) \in Seq({"start", "stop"})
          BY <1>0, <3>1 DEF Path!FetchQueued
        <4> QED BY <1>0, <3>1, <4>1 DEF Path!FetchQueued, Path!driver, Path!hand
      <3>2. CASE Path!FindEmpty \/ Path!InsertIrp
        BY <1>0, <3>2 DEF Path!FindEmpty, Path!InsertIrp, Path!driver, Path!hand
      <3> QED BY <1>6, <3>1, <3>2 DEF Path!ReaderStep
    <2> QED BY <1>2, <1>6, <2>1 DEF Path!ReaderStep, Path!FetchQueued, Path!FindEmpty,
                 Path!InsertIrp, Path!driver, Path!hand
  <1>7. CASE Path!Consume
    <2>1. Rest
      BY <1>0, <1>7 DEF Path!Consume, Path!driver, Path!hand
    <2> QED BY <1>2, <1>7, <2>1 DEF Path!Consume, Path!driver, Path!hand
  <1>8. CASE Path!LoadActive
    <2>1. Rest
      BY <1>0, <1>8 DEF Path!LoadActive, Path!driver, Path!channel
    <2> QED BY <1>2, <1>8, <2>1 DEF Path!LoadActive, Path!driver, Path!channel
  <1>9. CASE UNCHANGED pVars
    <2>1. Rest
      BY <1>0, <1>9 DEF pVars
    <2> QED BY <1>2, <1>9, <2>1 DEF pVars
  <1> QED BY <1>1, <1>3, <1>4, <1>5, <1>6, <1>7, <1>8, <1>9 DEF Path!Next, Path!LoopStep

\* A stream's audio never follows a later one's: the ring holds only the
\* current stream's, and what the loop publishes goes forward.
THEOREM SessionsStayApart == Path!Spec => []Path!SessionsApart
  <1>1. PathInv => Path!SessionsApart
    BY DEF PathInv
  <1>2. Path!Next \/ UNCHANGED Path!vars => Path!Next \/ UNCHANGED pVars
    BY DEF Path!vars, Path!driver, Path!channel, Path!hand, pVars
  <1>3. [Path!Next]_(Path!vars) => [Path!Next]_pVars
    BY <1>2
  <1> QED BY <1>1, <1>3, PathInit, PathNext, PTL DEF Path!Spec

-----------------------------------------------------------------------------
(* The volume and its speakers (VolumeSync).                               *)

\* A level under way to a speaker was meant for the session it is sent in.
VolumeInv ==
    /\ Volume!TypeOK
    /\ vSending # NoLevel => vSending.meant = vSending.to
    /\ vConnecting # NoLevel /\ vConnecting.at # "read" => vConnecting.level # NoLevel

\* What is assumed of the levels.
LEMMA VolumeConstants ==
  MaxLevel \in Nat /\ SpeakerCap \in Volume!Levels /\ NoLevel \notin Volume!Levels
  BY InstancesAssumption DEF Volume!ConstantsOK

\* The fields of the type invariant that the volume's threads share, apart.
Settings ==
    /\ vSlider \in Volume!Levels /\ vEvents \in Seq(Volume!Levels)
    /\ vSpeaker \in Volume!Levels /\ vChanged \in BOOLEAN /\ vReports \in Seq(Volume!Levels)
Echoes ==
    /\ vLast \in Volume!Levels \cup {NoLevel}
    /\ vToWindows \in [levels : SUBSET Volume!Levels, live : BOOLEAN]
    /\ vRun \in [sent : SUBSET Volume!Levels, inFlight : BOOLEAN, active : BOOLEAN,
                lastEcho : Volume!Levels \cup {NoLevel}]
    /\ vPush \in [Volume!Pushers -> Volume!Levels \cup {NoLevel}]
Commands ==
    /\ vLevelSet \in BOOLEAN /\ vSettleDue \in BOOLEAN
    /\ vPending \in Seq([number : Nat, level : Volume!Levels]) /\ Len(vPending) <= 1
    /\ vSession \in Nat
    /\ vQueue \in [{"events", "window"} -> Volume!Levels \cup {NoLevel}]
    /\ vSending \in [meant : Nat, to : Nat, level : Volume!Levels, set : BOOLEAN] \cup {NoLevel}
    /\ vSending # NoLevel => vSending.meant = vSending.to
Others ==
    /\ vConnecting \in [number : Nat, at : {"read", "check", "apply"},
                       level : Volume!Levels \cup {NoLevel}] \cup {NoLevel}
    /\ vConnecting # NoLevel /\ vConnecting.at # "read" => vConnecting.level # NoLevel
    /\ vOneHand \in BOOLEAN /\ vHand \in Volume!Hands
    /\ vMoves \in 0..Moves[vOneHand] /\ vBinds \in 0..1

\* The invariant is these parts together ...
LEMMA VolumeParts == VolumeInv <=> Settings /\ Echoes /\ Commands /\ Others
  BY DEF VolumeInv, Volume!TypeOK, Settings, Echoes, Commands, Others

\* ... after a step, too.
LEMMA VolumePartsThen == VolumeInv' <=> Settings' /\ Echoes' /\ Commands' /\ Others'
  <1>1. (VolumeInv <=> Settings /\ Echoes /\ Commands /\ Others)'
    BY VolumeParts, PTL
  <1> QED BY <1>1

\* A first speaker has just been bound.
LEMMA VolumeInit == Volume!Init => VolumeInv
  <1> SUFFICES ASSUME Volume!Init PROVE VolumeInv
    OBVIOUS
  <1> USE VolumeConstants DEF Volume!Init, Volume!Levels
  <1>1. Settings
    <2>1. vEvents \in Seq(Volume!Levels) /\ vReports \in Seq(Volume!Levels)
      OBVIOUS
    <2>2. vSlider \in Volume!Levels /\ vSpeaker \in Volume!Levels
      OBVIOUS
    <2> QED BY <2>1, <2>2 DEF Settings
  <1>2. Echoes
    <2>1. vRun \in [sent : SUBSET Volume!Levels, inFlight : BOOLEAN, active : BOOLEAN,
                lastEcho : Volume!Levels \cup {NoLevel}]
      BY DEF Volume!NoRun
    <2>2. vToWindows \in [levels : SUBSET Volume!Levels, live : BOOLEAN]
      OBVIOUS
    <2> QED BY <2>1, <2>2 DEF Echoes
  <1>3. Commands
    <2>1. vPending \in Seq([number : Nat, level : Volume!Levels]) /\ Len(vPending) <= 1
      OBVIOUS
    <2>2. /\ vQueue \in [{"events", "window"} -> Volume!Levels \cup {NoLevel}]
          /\ vSession \in Nat /\ vSending = NoLevel
      OBVIOUS
    <2> QED BY <2>1, <2>2 DEF Commands
  <1>4. Others
    BY DEF Others, Volume!Hands, Moves
  <1> QED BY <1>1, <1>2, <1>3, <1>4, VolumeParts

\* The records that the critical sections build.
LEMMA Records ==
  ASSUME Echoes
  PROVE  /\ Volume!Touched \in [sent : SUBSET Volume!Levels, inFlight : BOOLEAN, active : BOOLEAN,
                                lastEcho : Volume!Levels \cup {NoLevel}]
         /\ Volume!NoRun \in [sent : SUBSET Volume!Levels, inFlight : BOOLEAN, active : BOOLEAN,
                                lastEcho : Volume!Levels \cup {NoLevel}]
         /\ Volume!Done \in [sent : SUBSET Volume!Levels, inFlight : BOOLEAN, active : BOOLEAN,
                                lastEcho : Volume!Levels \cup {NoLevel}]
         /\ \A v \in Volume!Levels :
              Volume!Remembered(v) \in [levels : SUBSET Volume!Levels, live : BOOLEAN]
  BY DEF Echoes, Volume!Touched, Volume!NoRun, Volume!Done, Volume!Remembered

\* A level that the speaker came to.
LEMMA Reported ==
  ASSUME Echoes, NEW t \in Volume!Pushers, NEW v \in Volume!Levels, Volume!SonosChanged(t, v)
  PROVE  Echoes'
  <1> DEFINE Runs == [sent : SUBSET Volume!Levels, inFlight : BOOLEAN, active : BOOLEAN,
                      lastEcho : Volume!Levels \cup {NoLevel}]
  <1>1. vRun' \in Runs
    BY Records DEF Echoes, Volume!SonosChanged
  <1>2. /\ vLast' \in Volume!Levels \cup {NoLevel}
        /\ vToWindows' \in [levels : SUBSET Volume!Levels, live : BOOLEAN]
        /\ vPush' \in [Volume!Pushers -> Volume!Levels \cup {NoLevel}]
    BY Records DEF Echoes, Volume!SonosChanged
  <1> QED BY <1>1, <1>2 DEF Echoes

\* The steps of the users, the driver and the speaker.
LEMMA OutsideSteps ==
  ASSUME VolumeInv,
         \/ Volume!UserMovesSlider \/ Volume!UserMovesSpeaker \/ Volume!SpeakerReports
         \/ Volume!PushToWindows \/ Volume!Bind
  PROVE  VolumeInv'
  <1>0. Settings /\ Echoes /\ Commands /\ Others
    BY VolumeParts
  <1> USE VolumeConstants
  <1>1. CASE Volume!UserMovesSlider
    <2>1. Settings'
      BY <1>0, <1>1 DEF Volume!UserMovesSlider, Settings, Volume!device
    <2>2. Echoes' /\ Commands'
      BY <1>0, <1>1 DEF Volume!UserMovesSlider, Echoes, Commands, Volume!inner, Volume!control
    <2>3. Others'
      BY <1>0, <1>1 DEF Volume!UserMovesSlider, Volume!MayMove, Volume!Hands, Others, Moves
    <2> QED BY <2>1, <2>2, <2>3, VolumePartsThen
  <1>2. CASE Volume!UserMovesSpeaker
    <2>1. Settings'
      BY <1>0, <1>2 DEF Volume!UserMovesSpeaker, Settings, Volume!windows, Volume!Levels
    <2>2. Echoes' /\ Commands'
      BY <1>0, <1>2 DEF Volume!UserMovesSpeaker, Echoes, Commands, Volume!inner, Volume!control
    <2>3. Others'
      BY <1>0, <1>2 DEF Volume!UserMovesSpeaker, Volume!MayMove, Volume!Hands, Others, Moves
    <2> QED BY <2>1, <2>2, <2>3, VolumePartsThen
  <1>3. CASE Volume!SpeakerReports
    <2>1. Append(vReports, vSpeaker) \in Seq(Volume!Levels)
      BY <1>0 DEF Settings
    <2>3. Settings'
      BY <1>0, <1>3, <2>1 DEF Volume!SpeakerReports, Settings, Volume!windows
    <2>2. Echoes' /\ Commands' /\ Others'
      BY <1>0, <1>3 DEF Volume!SpeakerReports, Echoes, Commands, Others, Volume!inner,
                        Volume!control, Volume!bounds
    <2> QED BY <2>2, <2>3, VolumePartsThen
  <1>4. CASE Volume!PushToWindows
    <2>1. PICK t \in Volume!Pushers :
             /\ vPush[t] # NoLevel /\ vSlider' = vPush[t]
             /\ vEvents' \in {vEvents, Append(vEvents, vPush[t])}
             /\ vPush' = [vPush EXCEPT ![t] = NoLevel]
      BY <1>4 DEF Volume!PushToWindows
    <2>2. vPush[t] \in Volume!Levels
      BY <1>0, <2>1 DEF Echoes
    <2>3. Settings'
      BY <1>0, <1>4, <2>1, <2>2 DEF Volume!PushToWindows, Settings, Volume!device
    <2>4. Echoes'
      BY <1>0, <1>4, <2>1 DEF Volume!PushToWindows, Echoes, Volume!inner
    <2>5. Commands' /\ Others'
      BY <1>0, <1>4 DEF Volume!PushToWindows, Commands, Others, Volume!control, Volume!bounds,
                        Volume!inner
    <2> QED BY <2>3, <2>4, <2>5, VolumePartsThen
  <1>5. CASE Volume!Bind
    <2>1. Settings'
      <3>1. vSpeaker' \in 0..SpeakerCap /\ vReports' = <<>> /\ vChanged' = FALSE
            /\ vSlider' = vSlider /\ vEvents' = vEvents
        BY <1>5 DEF Volume!Bind, Volume!windows
      <3>2. vSpeaker' \in Volume!Levels
        BY <3>1 DEF Volume!Levels
      <3>3. vReports' \in Seq(Volume!Levels)
        BY <3>1
      <3> QED BY <1>0, <3>1, <3>2, <3>3 DEF Settings
    <2>2. Echoes'
      BY <1>0, <1>5, Records DEF Volume!Bind, Echoes
    <2>3. Commands'
      <3>1. /\ UNCHANGED <<vPending, vSending, vSettleDue, vQueue>>
            /\ vSession' = vSession + 1 /\ vLevelSet' = FALSE
        BY <1>5 DEF Volume!Bind
      <3>2. vSession' \in Nat
        BY <1>0, <3>1 DEF Commands
      <3>3. /\ vPending \in Seq([number : Nat, level : Volume!Levels]) /\ Len(vPending) <= 1
            /\ vSettleDue \in BOOLEAN
            /\ vQueue \in [{"events", "window"} -> Volume!Levels \cup {NoLevel}]
            /\ vSending \in [meant : Nat, to : Nat, level : Volume!Levels, set : BOOLEAN] \cup {NoLevel}
            /\ vSending # NoLevel => vSending.meant = vSending.to
        BY <1>0 DEF Commands
      <3> QED BY <3>1, <3>2, <3>3, Zenon DEF Commands
    <2>4. Others'
      <3>1. /\ vBinds < 1 /\ vBinds' = vBinds + 1 /\ vHand' = NoLevel
            /\ vOneHand' = vOneHand /\ vMoves' = vMoves
            /\ vConnecting' = [number |-> vSession + 1, at |-> "read", level |-> NoLevel]
        BY <1>5 DEF Volume!Bind
      <3>2. vBinds' \in 0..1 /\ vSession + 1 \in Nat
        BY <1>0, <3>1 DEF Others, Commands
      <3>3. vConnecting' \in [number : Nat, at : {"read", "check", "apply"},
                              level : Volume!Levels \cup {NoLevel}]
            /\ vConnecting'.at = "read"
        BY <3>1, <3>2
      <3> QED BY <1>0, <3>1, <3>2, <3>3 DEF Others, Volume!Hands
    <2> QED BY <2>1, <2>2, <2>3, <2>4, VolumePartsThen
  <1> QED BY <1>1, <1>2, <1>3, <1>4, <1>5

\* What the service's threads make of a change, one lock at a time.
LEMMA ChangeSteps ==
  ASSUME VolumeInv,
         \/ Volume!DriverChanged \/ Volume!SpeakerEvent \/ Volume!WindowChanged
         \/ Volume!Settle \/ Volume!ApplyLevel
  PROVE  VolumeInv'
  <1>0. Settings /\ Echoes /\ Commands /\ Others
    BY VolumeParts
  <1> USE VolumeConstants
  <1>1. CASE Volume!DriverChanged
    <2>1. Head(vEvents) \in Volume!Levels /\ Tail(vEvents) \in Seq(Volume!Levels)
      BY <1>0, <1>1 DEF Volume!DriverChanged, Settings
    <2>2. Settings'
      BY <1>0, <1>1, <2>1 DEF Volume!DriverChanged, Settings, Volume!device
    <2>3. Echoes'
      BY <1>0, <1>1, <2>1, Records DEF Volume!DriverChanged, Echoes
    <2>4. Commands'
      BY <1>0, <1>1, <2>1 DEF Volume!DriverChanged, Commands, Volume!control
    <2>5. Others'
      BY <1>0, <1>1 DEF Volume!DriverChanged, Others, Volume!bounds
    <2> QED BY <2>2, <2>3, <2>4, <2>5, VolumePartsThen
  <1>2. CASE Volume!SpeakerEvent
    <2>1. Head(vReports) \in Volume!Levels /\ Tail(vReports) \in Seq(Volume!Levels)
      BY <1>0, <1>2 DEF Volume!SpeakerEvent, Settings
    <2>2. Settings'
      BY <1>0, <1>2, <2>1 DEF Volume!SpeakerEvent, Settings, Volume!windows
    <2>3. Echoes'
      BY <1>0, <1>2, <2>1, Reported DEF Volume!SpeakerEvent, Volume!Pushers
    <2>4. Commands' /\ Others'
      BY <1>0, <1>2 DEF Volume!SpeakerEvent, Commands, Others, Volume!control, Volume!bounds
    <2> QED BY <2>2, <2>3, <2>4, VolumePartsThen
  <1>3. CASE Volume!WindowChanged
    <2>2. Settings'
      BY <1>0, <1>3 DEF Volume!WindowChanged, Settings, Volume!windows, Volume!device
    <2>3. Echoes'
      BY <1>0, <1>3, Records DEF Volume!WindowChanged, Echoes, Volume!Pushers
    <2>4. Commands'
      BY <1>0, <1>3 DEF Volume!WindowChanged, Commands, Volume!control
    <2>5. Others'
      BY <1>0, <1>3 DEF Volume!WindowChanged, Volume!MayMove, Others, Volume!Hands, Moves
    <2> QED BY <2>2, <2>3, <2>4, <2>5, VolumePartsThen
  <1>4. CASE Volume!Settle
    <2>1. Volume!Settled # NoLevel => Volume!Settled \in Volume!Levels
      BY <1>0 DEF Volume!Settled, Echoes
    <2>2. Settings' /\ Others'
      BY <1>0, <1>4 DEF Volume!Settle, Settings, Others, Volume!windows, Volume!device, Volume!bounds
    <2>3. Echoes'
      BY <1>0, <1>4, <2>1, Records DEF Volume!Settle, Echoes, Volume!Pushers
    <2>4. Commands'
      BY <1>0, <1>4 DEF Volume!Settle, Commands
    <2> QED BY <2>2, <2>3, <2>4, VolumePartsThen
  <1>5. CASE Volume!ApplyLevel
    <2>2. Settings' /\ Commands'
      BY <1>0, <1>5 DEF Volume!ApplyLevel, Settings, Commands, Volume!windows, Volume!device,
                        Volume!control
    <2>1. vConnecting.level \in Volume!Levels
      BY <1>0, <1>5 DEF Volume!ApplyLevel, Others
    <2>3. Echoes'
      BY <1>0, <1>5, <2>1, Reported DEF Volume!ApplyLevel, Volume!Pushers
    <2>4. Others'
      BY <1>0, <1>5 DEF Volume!ApplyLevel, Others, Volume!bounds
    <2> QED BY <2>2, <2>3, <2>4, VolumePartsThen
  <1> QED BY <1>1, <1>2, <1>3, <1>4, <1>5

\* The commands on their way to the speaker.
LEMMA CommandSteps ==
  ASSUME VolumeInv,
         Volume!Send \/ Volume!VolumeTakes \/ Volume!VolumeSets \/ Volume!VolumeDone
  PROVE  VolumeInv'
  <1>0. Settings /\ Echoes /\ Commands /\ Others
    BY VolumeParts
  <1> USE VolumeConstants
  <1>1. CASE Volume!Send
    <2>1. PICK t \in {"events", "window"} :
             /\ vQueue[t] # NoLevel
             /\ vPending' = Volume!Queued(vQueue[t])
             /\ vQueue' = [vQueue EXCEPT ![t] = NoLevel]
      BY <1>1 DEF Volume!Send
    <2>2. vPending' \in Seq([number : Nat, level : Volume!Levels]) /\ Len(vPending') <= 1
      BY <1>0, <2>1 DEF Commands, Volume!Queued
    <2>3. Commands'
      BY <1>0, <1>1, <2>1, <2>2 DEF Volume!Send, Commands, Volume!inner
    <2>4. Settings' /\ Echoes' /\ Others'
      BY <1>0, <1>1 DEF Volume!Send, Settings, Echoes, Others, Volume!inner, Volume!windows,
                        Volume!device, Volume!bounds
    <2> QED BY <2>3, <2>4, VolumePartsThen
  <1>2. CASE Volume!VolumeTakes
    <2> DEFINE c == Head(vPending)
    <2> DEFINE Command == [number : Nat, level : Volume!Levels]
    <2>0. /\ vPending \in Seq(Command) /\ Len(vPending) <= 1 /\ vPending # <<>>
          /\ vPending' = Tail(vPending)
      BY <1>0, <1>2 DEF Volume!VolumeTakes, Commands
    <2> HIDE DEF Command
    <2>1. /\ c \in Command /\ vPending' \in Seq(Command) /\ Len(vPending') <= 1
      BY <2>0
    <2>2. \/ /\ c.number = vSession
             /\ vSending' = [meant |-> c.number, to |-> vSession, level |-> c.level, set |-> FALSE]
             /\ vRun' = [Volume!Touched EXCEPT !.sent = @ \cup {c.level}, !.inFlight = TRUE]
          \/ vSending' = vSending /\ vRun' = vRun
      BY <1>2 DEF Volume!VolumeTakes, Volume!ForBound
    <2> HIDE DEF c
    <2>6. c.number \in Nat /\ c.level \in Volume!Levels
      BY <2>1 DEF Command
    <2>7. /\ vSending' \in [meant : Nat, to : Nat, level : Volume!Levels, set : BOOLEAN] \cup {NoLevel}
          /\ vSending' # NoLevel => vSending'.meant = vSending'.to
      <3>1. CASE vSending' = vSending
        BY <1>0, <3>1 DEF Commands
      <3>2. CASE vSending' = [meant |-> c.number, to |-> vSession, level |-> c.level, set |-> FALSE]
                 /\ c.number = vSession
        BY <2>6, <3>2
      <3> QED BY <2>2, <3>1, <3>2
    <2>8. vRun' \in [sent : SUBSET Volume!Levels, inFlight : BOOLEAN, active : BOOLEAN,
                     lastEcho : Volume!Levels \cup {NoLevel}]
      <3> DEFINE t == Volume!Touched
      <3>1. t \in [sent : SUBSET Volume!Levels, inFlight : BOOLEAN, active : BOOLEAN,
                   lastEcho : Volume!Levels \cup {NoLevel}]
        BY <1>0, Records
      <3>2. vRun' = vRun \/ vRun' = [t EXCEPT !.sent = @ \cup {c.level}, !.inFlight = TRUE]
        BY <2>2
      <3> HIDE DEF t
      <3>3. [t EXCEPT !.sent = @ \cup {c.level}, !.inFlight = TRUE]
              \in [sent : SUBSET Volume!Levels, inFlight : BOOLEAN, active : BOOLEAN,
                   lastEcho : Volume!Levels \cup {NoLevel}]
        BY <2>6, <3>1
      <3> QED BY <1>0, <3>2, <3>3 DEF Echoes
    <2>3. Commands'
      BY <1>0, <1>2, <2>1, <2>7 DEF Volume!VolumeTakes, Commands, Command
    <2>4. Echoes'
      BY <1>0, <1>2, <2>8 DEF Volume!VolumeTakes, Echoes
    <2>5. Settings' /\ Others'
      BY <1>0, <1>2 DEF Volume!VolumeTakes, Settings, Others, Volume!windows, Volume!device,
                        Volume!bounds
    <2> QED BY <2>3, <2>4, <2>5, VolumePartsThen
  <1>3. CASE Volume!VolumeSets
    <2>1. vSending \in [meant : Nat, to : Nat, level : Volume!Levels, set : BOOLEAN]
      BY <1>0, <1>3 DEF Volume!VolumeSets, Commands
    <2>2. Volume!CapAt(vSending.level) \in Volume!Levels
      BY <2>1 DEF Volume!CapAt
    <2>3. Settings'
      BY <1>0, <1>3, <2>2 DEF Volume!VolumeSets, Settings, Volume!windows
    <2>4. Commands'
      BY <1>0, <1>3, <2>1 DEF Volume!VolumeSets, Commands, Volume!inner
    <2>5. Echoes' /\ Others'
      BY <1>0, <1>3 DEF Volume!VolumeSets, Echoes, Others, Volume!inner, Volume!bounds
    <2> QED BY <2>3, <2>4, <2>5, VolumePartsThen
  <1>4. CASE Volume!VolumeDone
    <2>1. Echoes'
      BY <1>0, <1>4, Records DEF Volume!VolumeDone, Echoes
    <2>2. Commands'
      BY <1>0, <1>4 DEF Volume!VolumeDone, Commands
    <2>3. Settings' /\ Others'
      BY <1>0, <1>4 DEF Volume!VolumeDone, Settings, Others, Volume!windows, Volume!device,
                        Volume!bounds
    <2> QED BY <2>1, <2>2, <2>3, VolumePartsThen
  <1> QED BY <1>1, <1>2, <1>3, <1>4

\* A new speaker's level, and the echo windows.
LEMMA OtherSteps ==
  ASSUME VolumeInv,
         \/ Volume!ReadLevel \/ Volume!CheckLevel
         \/ Volume!WindowsWindowEnds \/ Volume!SpeakerWindowEnds \/ UNCHANGED vVars
  PROVE  VolumeInv'
  <1>0. Settings /\ Echoes /\ Commands /\ Others
    BY VolumeParts
  <1>1. CASE Volume!ReadLevel \/ Volume!CheckLevel
    <2>1. Settings' /\ Echoes' /\ Commands'
      BY <1>0, <1>1 DEF Volume!ReadLevel, Volume!CheckLevel, Settings, Echoes, Commands,
         Volume!inner, Volume!windows, Volume!device, Volume!control
    <2>2. vConnecting' \in [number : Nat, at : {"read", "check", "apply"},
                            level : Volume!Levels \cup {NoLevel}] \cup {NoLevel}
      BY <1>0, <1>1 DEF Volume!ReadLevel, Volume!CheckLevel, Settings, Others
    <2>3. vConnecting' # NoLevel /\ vConnecting'.at # "read" => vConnecting'.level # NoLevel
      <3>1. CASE Volume!ReadLevel
        <4>1. vConnecting' = [vConnecting EXCEPT !.at = "check", !.level = vSpeaker]
              /\ vConnecting \in [number : Nat, at : {"read", "check", "apply"},
                                  level : Volume!Levels \cup {NoLevel}]
          BY <1>0, <3>1 DEF Volume!ReadLevel, Others
        <4>2. vConnecting'.level = vSpeaker
          BY <4>1
        <4> QED BY <1>0, <4>2, VolumeConstants DEF Settings
      <3>2. CASE Volume!CheckLevel
        BY <1>0, <3>2 DEF Volume!CheckLevel, Others
      <3> QED BY <1>1, <3>1, <3>2
    <2>4. Others'
      BY <1>0, <1>1, <2>2, <2>3 DEF Volume!ReadLevel, Volume!CheckLevel, Others, Volume!bounds
    <2> QED BY <2>1, <2>4, VolumePartsThen
  <1>2. CASE Volume!WindowsWindowEnds \/ Volume!SpeakerWindowEnds
    <2>1. Settings' /\ Commands' /\ Others'
      BY <1>0, <1>2 DEF Volume!WindowsWindowEnds, Volume!SpeakerWindowEnds, Settings, Commands,
         Others, Volume!windows, Volume!device, Volume!control, Volume!bounds
    <2>2. Echoes'
      BY <1>0, <1>2 DEF Volume!WindowsWindowEnds, Volume!SpeakerWindowEnds, Echoes
    <2> QED BY <2>1, <2>2, VolumePartsThen
  <1>3. CASE UNCHANGED vVars
    BY <1>0, <1>3, VolumePartsThen DEF vVars, Settings, Echoes, Commands, Others
  <1> QED BY <1>1, <1>2, <1>3

\* Every step keeps the invariant.
LEMMA VolumeNext == VolumeInv /\ [Volume!Next]_vVars => VolumeInv'
  BY OutsideSteps, ChangeSteps, CommandSteps, OtherSteps DEF Volume!Next, Volume!ServiceStep

\* The two tuples of the module's variables change together.
LEMMA VolumeVars == [Volume!Next]_(Volume!vars) => [Volume!Next]_vVars
  BY DEF Volume!vars, vVars

\* Only a command still meant for the bound speaker moves it.
LEMMA SetRightly ==
  ASSUME VolumeInv, Volume!Next, vSending # NoLevel, vSpeaker' # vSpeaker,
         vSession' = vSession, vMoves' = vMoves
  PROVE  vSending.meant = vSession
  <1>0. vSession \in Nat /\ vMoves \in Nat /\ vSending.meant = vSending.to
    BY DEF VolumeInv, Volume!TypeOK, Moves
  <1>1. CASE Volume!VolumeSets
    BY <1>0, <1>1 DEF Volume!VolumeSets
  <1>2. ASSUME vSpeaker' = vSpeaker \/ vSession' = vSession + 1 \/ vMoves' = vMoves + 1
        PROVE  FALSE
    BY <1>0, <1>2
  <1>3. CASE Volume!UserMovesSpeaker \/ Volume!Bind
    BY <1>2, <1>3 DEF Volume!UserMovesSpeaker, Volume!Bind
  <1>4. CASE \/ Volume!UserMovesSlider \/ Volume!WindowChanged \/ Volume!PushToWindows
             \/ Volume!SpeakerReports \/ Volume!DriverChanged \/ Volume!SpeakerEvent
             \/ Volume!Send \/ Volume!VolumeTakes \/ Volume!VolumeDone \/ Volume!Settle
             \/ Volume!ReadLevel \/ Volume!CheckLevel \/ Volume!ApplyLevel
             \/ Volume!WindowsWindowEnds \/ Volume!SpeakerWindowEnds
    BY <1>2, <1>4 DEF Volume!UserMovesSlider, Volume!WindowChanged, Volume!PushToWindows,
       Volume!SpeakerReports, Volume!DriverChanged, Volume!SpeakerEvent, Volume!Send,
       Volume!VolumeTakes, Volume!VolumeDone, Volume!Settle, Volume!ReadLevel, Volume!CheckLevel,
       Volume!ApplyLevel, Volume!WindowsWindowEnds, Volume!SpeakerWindowEnds, Volume!device
  <1> QED BY <1>1, <1>3, <1>4 DEF Volume!Next, Volume!ServiceStep

\* run_speaker_control: a level queued for one speaker is never set on
\* another, however slow the send before it was.
THEOREM NotToAnother == Volume!Spec => NeverToAnother
  <1>1. VolumeInv /\ [Volume!Next]_vVars =>
          [(vSending # NoLevel /\ ~vSending.set /\ vSpeaker' # vSpeaker /\ vSession' = vSession
             /\ vMoves' = vMoves) => vSending.meant = vSession]_vVars
    BY SetRightly DEF vVars
  <1> QED BY <1>1, VolumeInit, VolumeNext, VolumeVars, PTL
        DEF Volume!Spec, Volume!NeverToAnother, NeverToAnother, Volume!vars, vVars
=============================================================================
