--------------------------- MODULE StandaloneProofs ---------------------------
(***************************************************************************)
(* Proofs about LoginThrottle, for any clients, accounts, budgets and      *)
(* requests in flight; about ExtractionBackfill, for any rows, hashes,     *)
(* types, ingests and runs of the script; and about the fetch planner of   *)
(* PureFunctions, for any UIDs, sizes and limits.                          *)
(***************************************************************************)
EXTENDS PureFunctions, LoginThrottle, ExtractionBackfill, FiniteSetTheorems,
        SequenceTheorems, WellFoundedInduction, TLAPS

----------------------------------------------------------------------------
(* The natural numbers.                                                    *)

\* A nonempty set of naturals has a least element, the one Min names.
LEMMA LeastNatural ==
    ASSUME NEW S \in SUBSET Nat, S # {}
    PROVE  Min(S) \in S /\ \A n \in S : Min(S) <= n
<1>1. PICK m \in S : \A n \in S : ~ (<<n, m>> \in OpToRel(<, Nat))
  BY NatLessThanWellFounded, WFMin
<1>2. \A n \in S : m <= n
  <2>1. \A n \in S : ~ (n < m)
    BY <1>1 DEF OpToRel
  <2>2. QED
    BY <2>1
<1>3. QED
  BY <1>2 DEF Min

\* The values of Doubled up to n, as a function.
Doublings(n) == {g \in [0..n -> Nat] : g[0] = 1 /\ \A i \in 1..n : g[i] = 2 * g[i - 1]}

\* They exist: the least n without them would be reached from the one before.
LEMMA DoublingsExist ==
    ASSUME NEW n \in Nat
    PROVE  Doublings(n) # {}
<1> DEFINE S == {m \in Nat : Doublings(m) = {}}
<1> SUFFICES S = {}
  OBVIOUS
<1> SUFFICES ASSUME S # {} PROVE FALSE
  OBVIOUS
<1>1. PICK m \in Nat : Doublings(m) = {} /\ \A k \in S : m <= k
  <2>1. S \subseteq Nat
    OBVIOUS
  <2>2. PICK T : T = S
    OBVIOUS
  <2>3. Min(T) \in T /\ \A k \in T : Min(T) <= k
    BY <2>1, <2>2, LeastNatural
  <2>4. QED
    BY <2>2, <2>3
<1>2. CASE m = 0
  <2>1. [i \in 0..0 |-> 1] \in Doublings(0)
    BY DEF Doublings
  <2>2. QED
    BY <1>1, <1>2, <2>1
<1>3. CASE m # 0
  <2>1. m - 1 \in Nat /\ ~ (m <= m - 1)
    BY <1>3
  <2>2. PICK g : g \in Doublings(m - 1)
    BY <1>1, <2>1
  <2>3. PICK h : h = [i \in 0..m |-> IF i = m THEN 2 * g[m - 1] ELSE g[i]]
    OBVIOUS
  <2>4. g \in [0..(m - 1) -> Nat] /\ g[0] = 1 /\ \A i \in 1..(m - 1) : g[i] = 2 * g[i - 1]
    BY <2>2 DEF Doublings
  <2>5. h \in [0..m -> Nat]
    BY <2>1, <2>3, <2>4
  <2>6. h[0] = 1
    BY <1>3, <2>3, <2>4
  <2>7. ASSUME NEW i \in 1..m
        PROVE  h[i] = 2 * h[i - 1]
    <3>1. CASE i = m
      BY <2>1, <2>3, <3>1
    <3>2. CASE i # m
      BY <2>1, <2>3, <2>4, <3>2
    <3>3. QED
      BY <3>1, <3>2
  <2>8. h \in Doublings(m)
    BY <2>5, <2>6, <2>7 DEF Doublings
  <2>9. QED
    BY <1>1, <2>8
<1>4. QED
  BY <1>2, <1>3

\* Two such functions agree where both are defined.
LEMMA DoublingsAgree ==
    ASSUME NEW n \in Nat, NEW m \in 0..n, NEW g \in Doublings(n), NEW h \in Doublings(m),
           NEW i \in 0..m
    PROVE  g[i] = h[i]
<1> DEFINE S == {j \in 0..m : g[j] # h[j]}
<1> SUFFICES ASSUME S # {} PROVE FALSE
  OBVIOUS
<1>1. PICK j \in 0..m : g[j] # h[j] /\ \A k \in S : j <= k
  <2>1. S \subseteq Nat
    OBVIOUS
  <2>2. PICK T : T = S
    OBVIOUS
  <2>3. Min(T) \in T /\ \A k \in T : Min(T) <= k
    BY <2>1, <2>2, LeastNatural
  <2>4. QED
    BY <2>2, <2>3
<1>2. j # 0
  BY <1>1 DEF Doublings
<1>3. j - 1 \in 0..m /\ ~ (j <= j - 1)
  BY <1>2
<1>4. g[j - 1] = h[j - 1]
  BY <1>1, <1>3
<1>5. g[j] = 2 * g[j - 1] /\ h[j] = 2 * h[j - 1]
  <2>1. j \in 1..m /\ j \in 1..n
    BY <1>2
  <2>2. QED
    BY <2>1 DEF Doublings
<1>6. QED
  BY <1>1, <1>4, <1>5

\* So the recursive function is defined.
LEMMA DoubledDefined ==
    Doubled = [n \in Nat |-> IF n = 0 THEN 1 ELSE 2 * Doubled[n - 1]]
<1> DEFINE d(n) == CHOOSE g : g \in Doublings(n)
           F == [n \in Nat |-> d(n)[n]]
<1>1. \A n \in Nat : d(n) \in Doublings(n)
  BY DoublingsExist
<1>2. ASSUME NEW n \in Nat
      PROVE  F[n] = IF n = 0 THEN 1 ELSE 2 * F[n - 1]
  <2>1. PICK g \in Doublings(n) : g = d(n)
    BY <1>1
  <2>2. F[n] = g[n]
    BY <2>1
  <2>3. CASE n = 0
    BY <2>2, <2>3 DEF Doublings
  <2>4. CASE n # 0
    <3>1. n - 1 \in Nat /\ n - 1 \in 0..n /\ n - 1 \in 0..(n - 1)
      BY <2>4
    <3>2. PICK h \in Doublings(n - 1) : h = d(n - 1)
      BY <1>1, <3>1
    <3>3. g[n - 1] = h[n - 1]
      BY <3>1, DoublingsAgree
    <3>4. g[n] = 2 * g[n - 1]
      BY <2>4 DEF Doublings
    <3>5. F[n - 1] = h[n - 1]
      BY <3>1, <3>2
    <3>6. QED
      BY <2>2, <2>4, <3>3, <3>4, <3>5
  <2>5. QED
    BY <2>3, <2>4
<1>3. F = [n \in Nat |-> F[n]]
  OBVIOUS
<1> HIDE DEF F
<1>4. F = [n \in Nat |-> IF n = 0 THEN 1 ELSE 2 * F[n - 1]]
  BY <1>2, <1>3
<1>5. QED
  BY <1>4 DEF Doubled

\* A power of two, at least two from the first doubling on.
LEMMA DoubledGrows ==
    ASSUME NEW n \in Nat
    PROVE  /\ Doubled[n] \in Nat /\ Doubled[n] >= 1
           /\ n > 0 => Doubled[n] >= 2
<1>1. /\ Doubled[0] = 1
      /\ \A k \in Nat : k > 0 => Doubled[k] = 2 * Doubled[k - 1]
  BY DoubledDefined
<1>2. \A k \in Nat : Doubled[k] \in Nat /\ Doubled[k] >= 1
  <2> DEFINE S == {k \in Nat : ~ (Doubled[k] \in Nat /\ Doubled[k] >= 1)}
  <2> SUFFICES ASSUME S # {} PROVE FALSE
    OBVIOUS
  <2>1. PICK k \in S : \A j \in S : k <= j
    <3>1. S \subseteq Nat
      OBVIOUS
    <3>2. PICK T : T = S
      OBVIOUS
    <3>3. Min(T) \in T /\ \A j \in T : Min(T) <= j
      BY <3>1, <3>2, LeastNatural
    <3>4. QED
      BY <3>2, <3>3
  <2>2. k > 0
    BY <1>1, <2>1
  <2>3. k - 1 \in Nat /\ ~ (k <= k - 1)
    BY <2>2
  <2>4. Doubled[k - 1] \in Nat /\ Doubled[k - 1] >= 1
    BY <2>1, <2>3
  <2>5. QED
    BY <1>1, <2>1, <2>2, <2>4
<1>3. QED
  <2>1. CASE n = 0
    BY <1>2, <2>1
  <2>2. CASE n > 0
    <3>1. Doubled[n - 1] \in Nat /\ Doubled[n - 1] >= 1
      BY <1>2, <2>2
    <3>2. Doubled[n] = 2 * Doubled[n - 1]
      BY <1>1, <2>2
    <3>3. QED
      BY <1>2, <3>1, <3>2
  <2>3. QED
    BY <2>1, <2>2

----------------------------------------------------------------------------
(* The login throttle.                                                     *)

\* A lockout lasts a window at least, and longer once it doubles.
LEMMA LockoutLasts ==
    ASSUME NEW n \in Nat
    PROVE  /\ Lockout(n) \in Nat /\ Lockout(n) >= Window
           /\ n > 0 => Lockout(n) > Window
<1>1. PICK d \in Nat : d = Doubled[n] /\ d >= 1 /\ (n > 0 => d >= 2)
  BY DoubledGrows
<1>2. BaseLockout * d \in Nat /\ BaseLockout * d >= BaseLockout
  BY <1>1, ThrottleAssumption
<1>3. n > 0 => BaseLockout * d >= BaseLockout * 2
  BY <1>1, ThrottleAssumption
<1>4. PICK length \in Nat : length = BaseLockout * d
  BY <1>2
<1>5. Lockout(n) = IF length < MaxLockout THEN length ELSE MaxLockout
  BY <1>1, <1>4 DEF Lockout
<1>6. length >= BaseLockout /\ (n > 0 => length >= BaseLockout * 2)
  BY <1>2, <1>3, <1>4
<1>7. QED
  BY <1>5, <1>6, ThrottleAssumption

\* The failures of a key: times in order, none in the future.
Ordered(f, t) == /\ f \in Seq(Nat)
                 /\ \A i \in 1..Len(f) : f[i] <= t
                 /\ \A i, j \in 1..Len(f) : i <= j => f[i] <= f[j]

\* What trimming leaves: a suffix, the failures in the window.
LEMMA TrimmedIsSuffix ==
    ASSUME NEW f, Ordered(f, now), now \in Nat
    PROVE  \E n \in 0..Len(f) :
              /\ Trimmed(f) \in Seq(Nat) /\ Len(Trimmed(f)) = Len(f) - n
              /\ \A i \in 1..(Len(f) - n) : /\ Trimmed(f)[i] = f[n + i]
                                            /\ f[n + i] >= now - Window
<1>1. PICK young : young = {n \in DOMAIN f : f[n] >= now - Window}
  OBVIOUS
<1>2. /\ f \in Seq(Nat) /\ DOMAIN f = 1..Len(f) /\ Len(f) \in Nat
      /\ \A i, j \in 1..Len(f) : i <= j => f[i] <= f[j]
  BY DEF Ordered
<1>3. CASE young = {}
  <2>1. Trimmed(f) = << >>
    BY <1>1, <1>3 DEF Trimmed
  <2>2. Len(f) \in 0..Len(f) /\ Len(Trimmed(f)) = Len(f) - Len(f) /\ Trimmed(f) \in Seq(Nat)
    BY <1>2, <2>1
  <2>3. \A i \in 1..(Len(f) - Len(f)) : FALSE
    BY <1>2
  <2>4. QED
    BY <2>2, <2>3
<1>4. CASE young # {}
  <2>1. young \subseteq Nat
    BY <1>1, <1>2
  <2>2. PICK m \in young : m = Min(young)
    BY <1>4, <2>1, LeastNatural
  <2>3. m \in 1..Len(f) /\ f[m] >= now - Window
    BY <1>1, <1>2
  <2>4. Trimmed(f) = SubSeq(f, m, Len(f))
    BY <1>1, <1>4, <2>2 DEF Trimmed
  <2>5. /\ Trimmed(f) \in Seq(Nat) /\ Len(Trimmed(f)) = Len(f) - (m - 1)
        /\ \A i \in 1..(Len(f) - (m - 1)) : Trimmed(f)[i] = f[m + i - 1]
    BY <1>2, <2>3, <2>4
  <2>6. ASSUME NEW i \in 1..(Len(f) - (m - 1))
        PROVE  Trimmed(f)[i] = f[(m - 1) + i] /\ f[(m - 1) + i] >= now - Window
    <3>1. PICK j \in 1..Len(f) : j = m + i - 1 /\ j = (m - 1) + i /\ m <= j
      BY <1>2, <2>3
    <3>2. f[m] <= f[j] /\ f[m] \in Nat /\ f[j] \in Nat
      BY <1>2, <2>3, <3>1
    <3>3. f[j] >= now - Window
      BY <2>3, <3>2, ThrottleAssumption
    <3>4. Trimmed(f)[i] = f[j]
      BY <2>5, <3>1
    <3>5. QED
      BY <3>1, <3>3, <3>4
  <2>7. m - 1 \in 0..Len(f)
    BY <1>2, <2>3
  <2>8. QED
    BY <2>5, <2>6, <2>7
<1>5. QED
  BY <1>3, <1>4

\* A key with failures f, locked until u, limit l, at time t, with c requests in
\* flight that may charge it.  Who reached the limit is locked for a window after
\* the last failure, who passed it for longer; and what may still be in the deque
\* when the requests in flight have failed stays within the bound.
Budget(f, u, l, t, c) ==
  /\ Ordered(f, t) /\ u \in Nat
  /\ Len(f) >= l => \A i \in 1..Len(f) : f[i] + Window <= u
  /\ Len(f) > l => \A i \in 1..Len(f) : f[i] + Window < u
  /\ Len(f) <= l + Cardinality(Attempts)
  /\ \A n \in 0..Len(f) :
        (\A i \in (n + 1)..Len(f) : f[i] >= t - Window)
            => Len(f) - n + c <= l + Cardinality(Attempts)

\* The number of requests there can be.
LEMMA AttemptsCount == Cardinality(Attempts) \in Nat
  BY FS_CardinalityType, ThrottleAssumption

\* A failure charged to a key.
LEMMA FailureIsCharged ==
    ASSUME now \in Nat, NEW f, NEW u, NEW key, _policy_for(key) \in Nat \ {0},
           NEW c \in Nat \ {0}, Budget(f, u, _policy_for(key), now, c), NEW s,
           s = register_failure([failures |-> f, locked_until |-> u], key)
    PROVE  Budget(s.failures, s.locked_until, _policy_for(key), now, c - 1)
<1> DEFINE A == Cardinality(Attempts)
<1>1. A \in Nat
  BY AttemptsCount
<1>2. PICK l \in Nat : l = _policy_for(key) /\ l > 0
  OBVIOUS
<1>3. PICK g : g = Trimmed(f)
  OBVIOUS
<1>4. /\ f \in Seq(Nat) /\ Len(f) \in Nat
      /\ \A i \in 1..Len(f) : f[i] <= now
      /\ \A i, j \in 1..Len(f) : i <= j => f[i] <= f[j]
  BY DEF Budget, Ordered
<1>5. PICK n \in 0..Len(f) :
         /\ g \in Seq(Nat) /\ Len(g) = Len(f) - n
         /\ \A i \in 1..(Len(f) - n) : g[i] = f[n + i] /\ f[n + i] >= now - Window
  BY <1>3, TrimmedIsSuffix DEF Budget
<1>6. Len(f) - n + c <= l + A
  <2>1. ASSUME NEW i \in (n + 1)..Len(f)
        PROVE  f[i] >= now - Window
    <3>1. PICK j \in 1..(Len(f) - n) : i = n + j
      <4>1. i - n \in 1..(Len(f) - n) /\ i = n + (i - n)
        BY <1>4
      <4>2. QED
        BY <4>1
    <3>2. QED
      BY <1>5, <3>1
  <2>2. QED
    BY <1>2, <2>1 DEF Budget
<1>7. PICK h : h = Append(g, now)
  OBVIOUS
<1>8. /\ h \in Seq(Nat) /\ Len(h) = Len(g) + 1 /\ Len(h) \in Nat
      /\ h[Len(h)] = now /\ \A i \in 1..Len(g) : h[i] = g[i]
  BY <1>5, <1>7
<1>9. ASSUME NEW i \in 1..Len(h)
      PROVE  h[i] <= now /\ (i # Len(h) => i \in 1..Len(g) /\ n + i \in 1..Len(f) /\ h[i] = f[n + i])
  <2>1. CASE i = Len(h)
    BY <1>8, <2>1
  <2>2. CASE i # Len(h)
    <3>1. i \in 1..Len(g) /\ n + i \in 1..Len(f)
      BY SMTT(30), <1>4, <1>5, <1>8, <2>2
    <3>2. h[i] = f[n + i]
      BY <1>5, <1>8, <3>1
    <3>3. QED
      BY <1>4, <3>1, <3>2
  <2>3. QED
    BY <2>1, <2>2
<1>10. ASSUME NEW i \in 1..Len(h), NEW j \in 1..Len(h), i <= j
       PROVE  h[i] <= h[j]
  <2>1. CASE j = Len(h)
    BY <1>8, <1>9, <2>1
  <2>2. CASE j # Len(h)
    <3>1. i # Len(h)
      BY <1>8, <1>10, <2>2
    <3>2. PICK a \in 1..Len(f), b \in 1..Len(f) : a = n + i /\ b = n + j /\ a <= b
      BY <1>4, <1>9, <1>10, <2>2, <3>1
    <3>3. h[i] = f[a] /\ h[j] = f[b]
      BY <1>9, <2>2, <3>1, <3>2
    <3>4. QED
      BY <1>4, <3>2, <3>3
  <2>3. QED
    BY <2>1, <2>2
<1>11. Ordered(h, now)
  <2>1. \A i \in 1..Len(h) : h[i] <= now
    BY <1>9
  <2>2. \A i \in 1..Len(h) : \A j \in 1..Len(h) : i <= j => h[i] <= h[j]
    BY <1>10
  <2>3. QED
    BY ONLY <1>8, <2>1, <2>2 DEF Ordered
<1>12. PICK o \in Int : o = Len(h) - l
  <2>1. Len(h) \in Nat
    BY <1>8
  <2>2. Len(h) - l \in Int
    BY ONLY <2>1, l \in Nat
  <2>3. QED
    BY ONLY <2>2
<1>13. s.failures = h /\ s.locked_until = IF o >= 0 THEN now + Lockout(o) ELSE u
  BY <1>2, <1>3, <1>7, <1>12 DEF register_failure
<1>14. ASSUME o >= 0
       PROVE  /\ Lockout(o) \in Nat /\ Lockout(o) >= Window
              /\ o > 0 => Lockout(o) > Window
  <2>1. o \in Nat
    BY <1>14
  <2>2. QED
    BY <2>1, LockoutLasts
<1>15. /\ s.locked_until \in Nat
       /\ Len(h) >= l => s.locked_until >= now + Window
       /\ Len(h) > l => s.locked_until > now + Window
  <2>1. Window \in Nat /\ u \in Nat
    BY ThrottleAssumption DEF Budget
  <2>2. CASE o >= 0
    <3>1. PICK last \in Nat : last = Lockout(o) /\ last >= Window /\ (o > 0 => last > Window)
      BY <1>14, <2>2
    <3>2. s.locked_until = now + last
      BY <1>13, <2>2, <3>1
    <3>3. PICK end \in Nat : end = s.locked_until /\ end = now + last
      BY <3>2
    <3>4. end >= now + Window /\ (o > 0 => end > now + Window)
      BY <2>1, <3>1, <3>3
    <3>5. Len(h) > l => o > 0
      BY <1>2, <1>8, <1>12
    <3>6. QED
      BY <3>3, <3>4, <3>5
  <2>3. CASE ~ (o >= 0)
    BY <1>2, <1>8, <1>12, <1>13, <2>1, <2>3
  <2>4. QED
    BY <2>2, <2>3
<1>16. ASSUME NEW i \in 1..Len(h)
       PROVE  /\ Len(h) >= l => h[i] + Window <= s.locked_until
              /\ Len(h) > l => h[i] + Window < s.locked_until
  <2>1. PICK x \in Nat : x = h[i] /\ x <= now
    BY <1>8, <1>9
  <2>2. Window \in Nat
    BY ThrottleAssumption
  <2>3. QED
    BY SMTT(30), <1>2, <1>8, <1>15, <2>1, <2>2
<1>17. Len(h) <= l + A /\ \A m \in 0..Len(h) : Len(h) - m + (c - 1) <= l + A
  <2>1. PICK a \in Nat, k \in Nat : a = A /\ k = Len(h)
    BY <1>1, <1>8
  <2>2. k + (c - 1) <= l + a
    BY <1>4, <1>5, <1>6, <1>8, <2>1
  <2>3. k <= l + a /\ \A m \in 0..k : k - m + (c - 1) <= l + a
    BY <1>2, <2>2
  <2>4. QED
    BY <2>1, <2>3
<1>18. QED
  BY <1>2, <1>11, <1>13, <1>15, <1>16, <1>17 DEF Budget

\* A request admitted to a key that is not locked.
LEMMA AdmissionFits ==
    ASSUME NEW f, NEW u, NEW l \in Nat, NEW t \in Nat, NEW c \in Nat, NEW d \in Nat,
           Budget(f, u, l, t, c), u <= t, d <= Cardinality(Attempts)
    PROVE  Budget(f, u, l, t, d)
<1>1. f \in Seq(Nat) /\ Len(f) \in Nat /\ u \in Nat
  BY DEF Budget, Ordered
<1>2. ASSUME NEW n \in 0..Len(f), \A i \in (n + 1)..Len(f) : f[i] >= t - Window
      PROVE  Len(f) - n + d <= l + Cardinality(Attempts)
  <2>1. CASE Len(f) <= l
    BY <1>1, <2>1, AttemptsCount
  <2>2. CASE Len(f) > l
    <3>1. n = Len(f)
      <4>1. SUFFICES ASSUME n # Len(f) PROVE FALSE
        OBVIOUS
      <4>2. n + 1 \in 1..Len(f) /\ n + 1 \in (n + 1)..Len(f)
        BY <1>1, <4>1
      <4>3. PICK i \in 1..Len(f) : i = n + 1 /\ f[i] >= t - Window
        BY <1>2, <4>2
      <4>4. f[i] + Window < u /\ f[i] \in Nat
        BY <1>1, <2>2 DEF Budget
      <4>5. QED
        BY SMTT(30), <1>1, <4>3, <4>4, ThrottleAssumption
    <3>2. QED
      BY <1>1, <3>1, AttemptsCount
  <2>3. QED
    BY <1>1, <2>1, <2>2
<1>3. QED
  BY <1>2 DEF Budget

\* Time passes, or requests end without a charge.
LEMMA BudgetRelaxes ==
    ASSUME NEW f, NEW u, NEW l \in Nat, NEW t \in Nat, NEW c \in Nat, NEW d \in Nat,
           NEW v \in Nat, Budget(f, u, l, t, c), d <= c, t <= v
    PROVE  Budget(f, u, l, v, d)
<1>1. f \in Seq(Nat) /\ Len(f) \in Nat /\ \A i \in 1..Len(f) : f[i] \in Nat
  BY DEF Budget, Ordered
<1>2. Ordered(f, v)
  BY <1>1 DEF Budget, Ordered
<1>3. ASSUME NEW n \in 0..Len(f), \A i \in (n + 1)..Len(f) : f[i] >= v - Window
      PROVE  Len(f) - n + d <= l + Cardinality(Attempts)
  <2>1. \A i \in (n + 1)..Len(f) : f[i] >= t - Window
    BY <1>1, <1>3, ThrottleAssumption
  <2>2. Len(f) - n + c <= l + Cardinality(Attempts)
    BY <2>1 DEF Budget
  <2>3. QED
    BY <1>1, <2>2, AttemptsCount
<1>4. QED
  BY <1>2, <1>3 DEF Budget

\* A key never charged.
LEMMA FreshBudget ==
    ASSUME NEW l \in Nat \ {0}, NEW t \in Nat, NEW c \in Nat, c <= Cardinality(Attempts)
    PROVE  Budget(<< >>, 0, l, t, c)
  BY AttemptsCount DEF Budget, Ordered

\* The requests in flight that may charge a key.
Charging(key) == {r \in Attempts : key \in attempt[r]}

ThrottleTypes == /\ now \in Nat
                 /\ state \in [Keys -> [failures : Seq(Nat), locked_until : Nat]]
                 /\ attempt \in [Attempts -> SUBSET Keys]

\* Every key keeps its budget, with what is in flight counted in.
ThrottleInv == /\ ThrottleTypes
               /\ \A k \in Keys : Budget(state[k].failures, state[k].locked_until,
                                         _policy_for(k), now, Cardinality(Charging(k)))

\* The limit of a key is positive.
LEMMA LimitIsPositive ==
    ASSUME NEW k \in Keys
    PROVE  _policy_for(k) \in Nat \ {0}
<1>1. k[1] \in {"ip", "account"}
  BY DEF Keys, ip_key, account_key
<1>2. QED
  BY <1>1, ThrottleAssumption DEF _policy_for

\* The requests that may charge a key are among those in flight.
LEMMA ChargingCount ==
    ASSUME NEW C, C \subseteq Attempts
    PROVE  /\ IsFiniteSet(C) /\ Cardinality(C) \in Nat
           /\ Cardinality(C) <= Cardinality(Attempts)
  BY FS_Subset, FS_CardinalityType, ThrottleAssumption

\* The first state satisfies the invariant.
LEMMA InitThrottle == ThrottleInit => ThrottleInv
<1> SUFFICES ASSUME ThrottleInit PROVE ThrottleInv
  OBVIOUS
<1>1. ThrottleTypes
  BY DEF ThrottleInit, ThrottleTypes, _KeyState
<1>2. ASSUME NEW k \in Keys
      PROVE  Budget(state[k].failures, state[k].locked_until, _policy_for(k), now,
                    Cardinality(Charging(k)))
  <2>1. state[k].failures = << >> /\ state[k].locked_until = 0
    BY DEF ThrottleInit, _KeyState
  <2>2. PICK C : C = Charging(k) /\ C \subseteq Attempts
    BY DEF Charging
  <2>3. Cardinality(C) \in Nat /\ Cardinality(C) <= Cardinality(Attempts)
    BY <2>2, ChargingCount
  <2>4. PICK l \in Nat \ {0}, t \in Nat : l = _policy_for(k) /\ t = now
    BY <1>1, LimitIsPositive DEF ThrottleTypes
  <2>5. Budget(<< >>, 0, l, t, Cardinality(C))
    BY <2>3, FreshBudget
  <2>6. QED
    BY <2>1, <2>2, <2>4, <2>5
<1>3. QED
  BY <1>1, <1>2 DEF ThrottleInv

\* A step that leaves a key's failures alone, and brings none of its requests.
LEMMA KeyRelaxes ==
    ASSUME ThrottleInv, NEW k \in Keys, state'[k] = state[k], now' \in Nat, now <= now',
           NEW C, C = Charging(k)', C \subseteq Charging(k)
    PROVE  Budget(state[k].failures, state[k].locked_until, _policy_for(k), now', Cardinality(C))
<1>1. PICK D : D = Charging(k) /\ D \subseteq Attempts
  BY DEF Charging
<1>2. Cardinality(C) \in Nat /\ Cardinality(D) \in Nat /\ Cardinality(C) <= Cardinality(D)
  BY <1>1, ChargingCount, FS_Subset
<1>3. PICK f, u : f = state[k].failures /\ u = state[k].locked_until
  OBVIOUS
<1>4. PICK l \in Nat, t \in Nat, v \in Nat : l = _policy_for(k) /\ t = now /\ v = now'
  BY LimitIsPositive DEF ThrottleInv, ThrottleTypes
<1>5. Budget(f, u, l, t, Cardinality(D))
  BY <1>1, <1>3, <1>4 DEF ThrottleInv
<1>6. Budget(f, u, l, v, Cardinality(C))
  BY <1>2, <1>4, <1>5, BudgetRelaxes
<1>7. QED
  BY <1>3, <1>4, <1>6

\* AuthService.login checks both keys before the password.
LEMMA AdmitKeeps ==
    ASSUME ThrottleInv, NEW r \in Attempts, NEW i \in Ips, NEW a \in Accounts, Admit(r, i, a)
    PROVE  ThrottleInv'
<1>1. PICK K \in SUBSET Keys : K = {ip_key(i), account_key(a)}
  BY DEF Keys
<1>2. /\ attempt' = [attempt EXCEPT ![r] = K] /\ UNCHANGED <<now, state>>
      /\ \A k \in K : ~ (state[k].locked_until > now)
  BY <1>1 DEF Admit, check, Locked
<1>3. ThrottleTypes'
  BY <1>2 DEF ThrottleInv, ThrottleTypes
<1>4. ASSUME NEW k \in Keys, NEW C, C = Charging(k)'
      PROVE  Budget(state[k].failures, state[k].locked_until, _policy_for(k), now, Cardinality(C))
  <2>1. C \subseteq Attempts
    BY <1>4 DEF Charging
  <2>2. PICK l \in Nat, t \in Nat : l = _policy_for(k) /\ t = now
    BY LimitIsPositive DEF ThrottleInv, ThrottleTypes
  <2>3. CASE k \in K
    <3>1. PICK D : D = Charging(k) /\ D \subseteq Attempts
      BY DEF Charging
    <3>2. PICK f, u : f = state[k].failures /\ u = state[k].locked_until
      OBVIOUS
    <3>3. Budget(f, u, l, t, Cardinality(D))
      BY <2>2, <3>1, <3>2 DEF ThrottleInv
    <3>4. u <= t
      BY <1>2, <2>2, <2>3, <3>2 DEF ThrottleInv, ThrottleTypes
    <3>5. /\ Cardinality(C) \in Nat /\ Cardinality(D) \in Nat
          /\ Cardinality(C) <= Cardinality(Attempts)
      BY <2>1, <3>1, ChargingCount
    <3>6. Budget(f, u, l, t, Cardinality(C))
      BY <3>3, <3>4, <3>5, AdmissionFits
    <3>7. QED
      BY <2>2, <3>2, <3>6
  <2>4. CASE k \notin K
    <3>1. C \subseteq Charging(k)
      BY <1>2, <1>4, <2>4 DEF Charging, ThrottleInv, ThrottleTypes
    <3>2. Budget(state[k].failures, state[k].locked_until, _policy_for(k), now', Cardinality(C))
      BY <1>2, <1>4, <2>2, <3>1, KeyRelaxes
    <3>3. QED
      BY <1>2, <3>2
  <2>5. QED
    BY <2>3, <2>4
<1>5. QED
  BY <1>2, <1>3, <1>4 DEF ThrottleInv, _policy_for

\* A failed login charges both its keys and is no longer in flight.
LEMMA LoginFailsKeeps ==
    ASSUME ThrottleInv, NEW r \in Attempts, LoginFails(r)
    PROVE  ThrottleInv'
<1>1. /\ attempt' = [attempt EXCEPT ![r] = {}] /\ now' = now /\ now \in Nat
      /\ state' = [k \in Keys |-> IF k \in attempt[r] THEN register_failure(state[k], k)
                                  ELSE state[k]]
  BY DEF LoginFails, ThrottleInv, ThrottleTypes
<1>2. ASSUME NEW k \in Keys, NEW C, C = Charging(k)'
      PROVE  /\ state'[k] \in [failures : Seq(Nat), locked_until : Nat]
             /\ Budget(state'[k].failures, state'[k].locked_until, _policy_for(k), now,
                       Cardinality(C))
  <2>1. CASE k \in attempt[r]
    <3>1. PICK D : D = Charging(k) /\ D \subseteq Attempts /\ r \in D
      BY <2>1 DEF Charging
    <3>2. C = D \ {r}
      BY <1>1, <1>2, <3>1 DEF Charging, ThrottleInv, ThrottleTypes
    <3>3. IsFiniteSet(D)
      BY <3>1, ChargingCount
    <3>4. Cardinality(C) = Cardinality(D) - 1 /\ Cardinality(D) \in Nat /\ Cardinality(C) \in Nat
      BY <3>1, <3>2, <3>3, FS_RemoveElement, FS_CardinalityType, ChargingCount
    <3>5. PICK f, u : /\ f = state[k].failures /\ u = state[k].locked_until
                      /\ state[k] = [failures |-> f, locked_until |-> u]
      BY DEF ThrottleInv, ThrottleTypes
    <3>6. PICK s : s = register_failure([failures |-> f, locked_until |-> u], k)
      OBVIOUS
    <3>7. Budget(f, u, _policy_for(k), now, Cardinality(D))
      BY <3>1, <3>5 DEF ThrottleInv
    <3>8. Cardinality(D) \in Nat \ {0}
      BY <3>4
    <3>9. Budget(s.failures, s.locked_until, _policy_for(k), now, Cardinality(D) - 1)
      BY <1>1, <3>6, <3>7, <3>8, LimitIsPositive, FailureIsCharged
    <3>10. state'[k] = s
      BY <1>1, <2>1, <3>5, <3>6
    <3>11. s = [failures |-> s.failures, locked_until |-> s.locked_until]
      BY <3>6 DEF register_failure
    <3>12. s.failures \in Seq(Nat) /\ s.locked_until \in Nat
      BY <3>9 DEF Budget, Ordered
    <3>13. QED
      BY <3>4, <3>9, <3>10, <3>11, <3>12
  <2>2. CASE k \notin attempt[r]
    <3>1. state'[k] = state[k]
      BY <1>1, <2>2
    <3>2. C \subseteq Charging(k)
      BY <1>1, <1>2 DEF Charging, ThrottleInv, ThrottleTypes
    <3>3. Budget(state[k].failures, state[k].locked_until, _policy_for(k), now', Cardinality(C))
      BY <1>1, <1>2, <3>1, <3>2, KeyRelaxes
    <3>4. QED
      BY <1>1, <3>1, <3>3 DEF ThrottleInv, ThrottleTypes
  <2>3. QED
    BY <2>1, <2>2
<1>3. ThrottleTypes'
  BY <1>1, <1>2 DEF ThrottleInv, ThrottleTypes
<1>4. QED
  BY <1>1, <1>2, <1>3 DEF ThrottleInv, _policy_for

\* A step after which no more requests are in flight on any key, and no key is
\* charged: a login that passes, the clock, a restart.
LEMMA ThrottleRelaxes ==
    ASSUME ThrottleInv, ThrottleTypes', now <= now', state' = state,
           \A k \in Keys : Charging(k)' \subseteq Charging(k)
    PROVE  ThrottleInv'
<1>1. now' \in Nat
  BY DEF ThrottleTypes
<1>2. ASSUME NEW k \in Keys, NEW C, C = Charging(k)'
      PROVE  Budget(state[k].failures, state[k].locked_until, _policy_for(k), now', Cardinality(C))
  <2>1. state'[k] = state[k] /\ C \subseteq Charging(k)
    BY <1>2
  <2>2. QED
    BY <1>1, <1>2, <2>1, KeyRelaxes
<1>3. QED
  BY <1>2 DEF ThrottleInv, _policy_for

\* Every step keeps the invariant.
LEMMA StepThrottle ==
    ASSUME ThrottleInv, [ThrottleNext]_throttle_vars
    PROVE  ThrottleInv'
<1>1. ASSUME NEW r \in Attempts, NEW i \in Ips, NEW a \in Accounts, Admit(r, i, a)
      PROVE  ThrottleInv'
  BY <1>1, AdmitKeeps
<1>2. ASSUME NEW r \in Attempts, LoginFails(r)
      PROVE  ThrottleInv'
  BY <1>2, LoginFailsKeeps
<1>3. ASSUME NEW r \in Attempts, LoginPasses(r)
      PROVE  ThrottleInv'
  <2>1. /\ attempt' = [attempt EXCEPT ![r] = {}] /\ now' = now /\ state' = state
        /\ now \in Nat /\ attempt \in [Attempts -> SUBSET Keys]
    BY <1>3 DEF LoginPasses, ThrottleInv, ThrottleTypes
  <2>2. ThrottleTypes' /\ now <= now' /\ \A k \in Keys : Charging(k)' \subseteq Charging(k)
    BY <2>1 DEF ThrottleInv, ThrottleTypes, Charging
  <2>3. QED
    BY <2>1, <2>2, ThrottleRelaxes
<1>4. CASE Tick \/ UNCHANGED throttle_vars
  <2>1. state' = state /\ attempt' = attempt /\ now \in Nat /\ now' \in {now, now + 1}
    BY <1>4 DEF Tick, throttle_vars, ThrottleInv, ThrottleTypes
  <2>2. ThrottleTypes' /\ now <= now' /\ \A k \in Keys : Charging(k)' \subseteq Charging(k)
    BY <2>1 DEF ThrottleInv, ThrottleTypes, Charging
  <2>3. QED
    BY <2>1, <2>2, ThrottleRelaxes
<1>5. CASE Restart
  <2>1. /\ state' = [k \in Keys |-> _KeyState] /\ attempt' = [r \in Attempts |-> {}]
        /\ now' = now /\ now \in Nat
    BY <1>5 DEF Restart, ThrottleInv, ThrottleTypes
  <2>2. ThrottleTypes'
    BY <2>1 DEF ThrottleTypes, _KeyState
  <2>3. ASSUME NEW k \in Keys
        PROVE  Budget(state'[k].failures, state'[k].locked_until, _policy_for(k), now,
                      Cardinality(Charging(k)'))
    <3>1. state'[k].failures = << >> /\ state'[k].locked_until = 0
      BY <2>1 DEF _KeyState
    <3>2. PICK C : C = Charging(k)' /\ C = {}
      BY <2>1 DEF Charging
    <3>3. Cardinality(C) = 0 /\ 0 <= Cardinality(Attempts)
      BY <3>2, FS_EmptySet, AttemptsCount
    <3>4. PICK l \in Nat \ {0}, t \in Nat : l = _policy_for(k) /\ t = now
      BY <2>1, LimitIsPositive
    <3>5. Budget(<< >>, 0, l, t, Cardinality(C))
      BY <3>3, FreshBudget
    <3>6. QED
      BY <3>1, <3>2, <3>4, <3>5
  <2>4. QED
    BY <2>1, <2>2, <2>3 DEF ThrottleInv, _policy_for
<1>6. QED
  BY <1>1, <1>2, <1>3, <1>4, <1>5 DEF ThrottleNext

\* The invariant holds throughout.
THEOREM ThrottleInvariant == ThrottleSpec => []ThrottleInv
<1>1. ThrottleInit => ThrottleInv
  BY InitThrottle
<1>2. ThrottleInv /\ [ThrottleNext]_throttle_vars => ThrottleInv'
  BY StepThrottle
<1>3. QED
  BY <1>1, <1>2, PTL DEF ThrottleSpec

\* InProcessRateLimiter.register_failure: a key with its limit of failures in the
\* last window is locked, and no key is charged more in a window than its limit
\* and what was in flight, in whatever order the attempts finish.
THEOREM BudgetsAreKept == ThrottleSpec => []BudgetIsKept
<1>1. ThrottleInv => BudgetIsKept
  <2> SUFFICES ASSUME ThrottleInv, NEW k \in Keys
               PROVE  /\ Cardinality(Recent(k)) >= _policy_for(k) => Locked(k)
                      /\ Len(state[k].failures) <= _policy_for(k) + Cardinality(Attempts)
    BY DEF BudgetIsKept
  <2>1. PICK f, u : f = state[k].failures /\ u = state[k].locked_until
    OBVIOUS
  <2>2. PICK l \in Nat \ {0}, t \in Nat : l = _policy_for(k) /\ t = now
    BY LimitIsPositive DEF ThrottleInv, ThrottleTypes
  <2>3. Budget(f, u, l, t, Cardinality(Charging(k)))
    BY <2>1, <2>2 DEF ThrottleInv
  <2>4. /\ f \in Seq(Nat) /\ Len(f) \in Nat /\ u \in Nat /\ Window \in Nat
        /\ \A i \in 1..Len(f) : f[i] \in Nat
        /\ Len(f) >= l => \A i \in 1..Len(f) : f[i] + Window <= u
        /\ Len(f) <= l + Cardinality(Attempts)
    BY <2>3, ThrottleAssumption DEF Budget, Ordered
  <2>5. PICK R : R = Recent(k)
    OBVIOUS
  <2>8. R = {n \in DOMAIN f : f[n] > t - Window}
    BY <2>1, <2>2, <2>5 DEF Recent
  <2>9. DOMAIN f = 1..Len(f)
    BY <2>4
  <2>6. ASSUME Cardinality(R) >= l
        PROVE  u > t
    <3>8. PICK L \in Nat : L = Len(f)
      BY <2>4
    <3>9. IsFiniteSet(1..L) /\ Cardinality(1..L) = IF 1 > L THEN 0 ELSE L - 1 + 1
      BY FS_Interval, 1 \in Int, L \in Int
    <3>1. IsFiniteSet(1..L) /\ Cardinality(1..L) = L
      BY <3>9
    <3>0. R \subseteq 1..L
      BY <2>8, <2>9, <3>8
    <3>2. IsFiniteSet(R) /\ Cardinality(R) <= Len(f) /\ Cardinality(R) \in Nat
      BY <3>0, <3>1, <3>8, FS_Subset, FS_CardinalityType
    <3>3. R # {}
      BY <2>6, <3>2, FS_EmptySet
    <3>4. PICK i \in 1..Len(f) : f[i] > t - Window
      BY <2>8, <2>9, <3>3
    <3>5. Len(f) >= l
      BY <2>4, <2>6, <3>2
    <3>6. f[i] + Window <= u /\ f[i] \in Nat
      BY <2>4, <3>5
    <3>7. QED
      BY <2>4, <3>4, <3>6
  <2>7. QED
    BY <2>1, <2>2, <2>4, <2>5, <2>6 DEF Locked
<1>2. QED
  BY <1>1, ThrottleInvariant, PTL

----------------------------------------------------------------------------
(* The stored outcomes.                                                    *)

\* The committed rows and the outcomes on them.
Outcomes == [hash : Hashes, type : Types, version : Nat]
StoredRows == [hash : Hashes, type : Types, status : {"pending", "done"},
               outcome : {Null} \union Outcomes]

\* A run that has begun, and one that finished a requeue.
Staging == UNION {[S -> Outcomes] : S \in SUBSET Rows}
ActiveRuns == [pc : {"load", "update"}, version : Nat, reach : {Null} \union Nat,
               queue : SUBSET Rows, outcomes : SUBSET Outcomes, staged : Staging,
               stale : SUBSET Rows, overtakes : BOOLEAN]
DoneRuns == [pc : {"done"}, reach : Nat, stale : SUBSET Rows]

RowTypes ==
  /\ row \in [Rows -> {Null} \union StoredRows]
  /\ engine \in Nat
  /\ ingest \in [Ingests -> {Null} \union [id : Rows, row : StoredRows]]
RunTypes == run \in [Runs -> {NoRun} \union ActiveRuns \union DoneRuns]

\* A row whose outcome, if it has one, is that of its own bytes and type.
Own(x) == x.outcome # Null => x.outcome.hash = x.hash /\ x.outcome.type = x.type

\* An ingest inserts such a row, where nobody else does.
InsertsOwn ==
  \A w \in Ingests : ingest[w] # Null =>
    /\ Own(ingest[w].row)
    /\ row[ingest[w].id] = Null
    /\ \A v \in Ingests \ {w} : ingest[v] # Null => ingest[v].id # ingest[w].id

\* What a run has extracted is of its own version of the code; what it has
\* staged is for rows it holds the lock of, which therefore are still pending.
StagesOwn(r) ==
  /\ run[r].version <= engine
  /\ \A i \in run[r].queue : Stored(i)
  /\ \A o \in run[r].outcomes : o.version = run[r].version
  /\ \A i \in DOMAIN run[r].staged :
       /\ Pending(i)
       /\ run[r].staged[i].hash = row[i].hash /\ run[r].staged[i].type = row[i].type
       /\ run[r].staged[i].version = run[r].version

\* No row is locked twice.
LocksApart ==
  \A r, q \in Runs : r # q /\ Active(r) /\ Active(q) =>
    DOMAIN run[r].staged \cap DOMAIN run[q].staged = {}

\* A run with a requeue that no run of older code was going beside.
Requeues(r) == run[r].pc = "done" \/ (Active(r) /\ ~run[r].overtakes)

\* A row it found stale is pending or has an outcome that is not stale, and
\* nobody still going can give it a stale one.
Reaches(r) ==
  /\ run[r].stale # {} => run[r].reach \in Nat /\ run[r].reach <= engine
  /\ \A i \in run[r].stale :
       /\ Stored(i)
       /\ Pending(i) \/ row[i].outcome.version >= run[r].reach
       /\ \A q \in Runs : Active(q) => run[q].version >= run[r].reach

BackfillInv ==
  /\ RowTypes /\ RunTypes
  /\ OutcomeIsOwn
  /\ InsertsOwn
  /\ \A r \in Runs : Active(r) => StagesOwn(r)
  /\ LocksApart
  /\ \A r \in Runs : Requeues(r) => Reaches(r)

\* What a step does to the rows there were: they keep their bytes and their type,
\* and their outcome too unless the step fills them, as outcomes of version v,
\* while they are pending.
Settles(F, v) ==
  \A i \in Rows : Stored(i) =>
    /\ row'[i] # Null /\ row'[i].hash = row[i].hash /\ row'[i].type = row[i].type
    /\ \/ row'[i].outcome = row[i].outcome /\ (Pending(i) => row'[i].status = "pending")
       \/ i \in F /\ Pending(i) /\ row'[i].outcome.version = v

\* What is stored is not NULL.
LEMMA StoredIsNotNull ==
    ASSUME NEW x \in StoredRows
    PROVE  x # Null
  BY BackfillAssumption DEF StoredRows, Outcomes

\* What one run did not find locked, no other run has staged.
LEMMA FreeOfOthers ==
    ASSUME NEW r \in Runs, NEW q \in Runs \ {r}, NEW i, i \notin LockedRows(r), Active(q)
    PROVE  i \notin DOMAIN run[q].staged
  BY DEF LockedRows

\* A run that is going has the state of one.
LEMMA ActiveIsARun ==
    ASSUME RunTypes, NEW r \in Runs, Active(r)
    PROVE  /\ run[r] \in ActiveRuns
           /\ run[r].version \in Nat /\ run[r].queue \in SUBSET Rows
           /\ run[r].outcomes \in SUBSET Outcomes
           /\ run[r].staged \in [DOMAIN run[r].staged -> Outcomes]
           /\ DOMAIN run[r].staged \in SUBSET Rows
<1>1. run[r] \in ActiveRuns
  BY DEF RunTypes, Active, NoRun, DoneRuns
<1>2. PICK S \in SUBSET Rows : run[r].staged \in [S -> Outcomes]
  BY <1>1 DEF ActiveRuns, Staging
<1>3. QED
  BY <1>1, <1>2 DEF ActiveRuns

\* Nothing staged is something that can be.
LEMMA NothingIsStaged ==
    /\ NothingStaged \in Staging
    /\ DOMAIN NothingStaged = {}
<1>1. NothingStaged \in [{} -> Outcomes]
  BY DEF NothingStaged
<1>2. {} \in SUBSET Rows
  OBVIOUS
<1>3. QED
  BY <1>1, <1>2 DEF Staging, NothingStaged

\* A nonempty set of rows has a newest, the one Max names.
LEMMA NewestRow ==
    ASSUME NEW S \in SUBSET Rows, S # {}
    PROVE  Max(S) \in S
<1>1. PICK n \in Nat : Rows = 1..n
  BY BackfillAssumption, FS_CardinalityType
<1> DEFINE D == {n - x : x \in S}
<1>2. PICK T : T = D
  OBVIOUS
<1>3. T \in SUBSET Nat /\ T # {}
  <2>1. ASSUME NEW d \in T
        PROVE  d \in Nat
    <3>1. PICK x \in S : d = n - x
      BY <1>2
    <3>2. x \in 1..n
      BY <1>1
    <3>3. QED
      BY <3>1, <3>2
  <2>2. PICK x \in S : TRUE
    OBVIOUS
  <2>3. n - x \in T
    BY <1>2, <2>2
  <2>4. QED
    BY <2>1, <2>3
<1>4. Min(T) \in T /\ \A d \in T : Min(T) <= d
  BY <1>3, LeastNatural
<1>5. PICK x \in S : Min(T) = n - x
  BY <1>2, <1>4
<1>6. \A y \in S : x >= y
  <2>1. TAKE y \in S
  <2>2. n - y \in T
    BY <1>2
  <2>3. n - x <= n - y
    BY <1>4, <1>5, <2>2
  <2>4. x \in Nat /\ y \in Nat
    BY <1>1
  <2>5. QED
    BY <2>3, <2>4
<1>7. QED
  BY <1>5, <1>6 DEF Max

\* EmailIngestService._reuse_or_extract: reused or extracted, the outcome is that of
\* the bytes and the type asked for.
LEMMA ReuseIsOwn ==
    ASSUME RowTypes, OutcomeIsOwn, NEW h \in Hashes, NEW t \in Types
    PROVE  /\ Row(h, t, "done", _reuse_or_extract(h, t)) \in StoredRows
           /\ Own(Row(h, t, "done", _reuse_or_extract(h, t)))
<1> DEFINE prior == {i \in Rows : Stored(i) /\ row[i].hash = h /\ row[i].type = t
                                  /\ row[i].status # "pending"}
<1>1. PICK p : p = get_prior_extraction(h, t)
  OBVIOUS
<1>2. CASE p = Null
  <2>1. _reuse_or_extract(h, t) = Outcome(h, t, engine)
    BY <1>1, <1>2 DEF _reuse_or_extract
  <2>2. QED
    BY <2>1 DEF Outcome, Row, Own, StoredRows, Outcomes, RowTypes
<1>3. CASE p # Null
  <2>1. PICK P : P = prior
    OBVIOUS
  <2>2. P \in SUBSET Rows /\ P # {} /\ p = Max(P)
    BY <1>1, <1>3, <2>1 DEF get_prior_extraction
  <2>3. p \in prior
    BY <2>1, <2>2, NewestRow
  <2>4. _reuse_or_extract(h, t) = row[p].outcome
    BY <1>1, <1>3 DEF _reuse_or_extract
  <2>5. row[p] \in StoredRows /\ row[p].hash = h /\ row[p].type = t
    BY <2>3 DEF Stored, RowTypes
  <2>6. row[p].outcome # Null => row[p].outcome.hash = h /\ row[p].outcome.type = t
    BY <2>3, <2>5 DEF OutcomeIsOwn
  <2>7. QED
    BY <2>4, <2>5, <2>6 DEF Row, Own, StoredRows
<1>4. QED
  BY <1>2, <1>3

\* _row_extraction: so is the outcome a run has for a row, memoized or not, and it
\* is of the run's version.
LEMMA ExtractionIsOwn ==
    ASSUME RunTypes, NEW r \in Runs, Active(r), StagesOwn(r), NEW h \in Hashes, NEW t \in Types,
           NEW o, o = _row_extraction(run[r].outcomes, h, t, run[r].version)
    PROVE  o \in Outcomes /\ o.hash = h /\ o.type = t /\ o.version = run[r].version
<1>1. run[r].version \in Nat /\ run[r].outcomes \in SUBSET Outcomes
  BY ActiveIsARun
<1>2. PICK K : K = {m \in run[r].outcomes : m.hash = h /\ m.type = t}
  OBVIOUS
<1>3. CASE K = {}
  <2>1. o = Outcome(h, t, run[r].version)
    BY <1>2, <1>3 DEF _row_extraction
  <2>2. QED
    BY <1>1, <2>1 DEF Outcome, Outcomes
<1>4. CASE K # {}
  <2>1. o = CHOOSE m \in K : TRUE
    BY <1>2, <1>4 DEF _row_extraction
  <2>2. o \in K
    BY <1>4, <2>1
  <2>3. QED
    BY <1>1, <1>2, <2>2 DEF StagesOwn
<1>5. QED
  BY <1>3, <1>4

\* _update_pending_row: committing staged outcomes fills the rows they are for.
LEMMA FillsRows ==
    ASSUME RowTypes, NEW S \in SUBSET Rows, NEW s \in [S -> Outcomes],
           \A i \in S : Stored(i), NEW R, R = Filled(s)
    PROVE  /\ R \in [Rows -> {Null} \union StoredRows]
           /\ \A i \in Rows \ S : R[i] = row[i]
           /\ \A i \in S : /\ R[i] \in StoredRows /\ R[i] # Null
                           /\ R[i].hash = row[i].hash /\ R[i].type = row[i].type
                           /\ R[i].outcome = s[i] /\ R[i].status = "done"
<1>1. R = [i \in Rows |-> IF i \in S THEN [row[i] EXCEPT !.status = "done", !.outcome = s[i]]
                          ELSE row[i]]
  BY DEF Filled
<1>2. ASSUME NEW i \in S
      PROVE  /\ R[i] \in StoredRows /\ R[i] # Null
             /\ R[i].hash = row[i].hash /\ R[i].type = row[i].type
             /\ R[i].outcome = s[i] /\ R[i].status = "done"
  <2>1. PICK x : x = row[i]
    OBVIOUS
  <2>2. x \in StoredRows
    BY <2>1 DEF RowTypes, Stored
  <2>3. R[i] = [x EXCEPT !.status = "done", !.outcome = s[i]]
    BY <1>1, <2>1
  <2>4. s[i] \in Outcomes
    OBVIOUS
  <2>5. /\ R[i] \in StoredRows
        /\ R[i].hash = x.hash /\ R[i].type = x.type /\ R[i].outcome = s[i] /\ R[i].status = "done"
    BY <2>2, <2>3, <2>4 DEF StoredRows
  <2>6. QED
    BY <2>1, <2>5, StoredIsNotNull
<1>3. \A i \in Rows \ S : R[i] = row[i]
  BY <1>1
<1>4. QED
  BY <1>1, <1>2, <1>3 DEF RowTypes

\* A run that does not move keeps what it is: the rows it waits for stay, and the
\* rows it has locked are not settled by others.
LEMMA StagesOwnStays ==
    ASSUME RowTypes, RunTypes, NEW q \in Runs, Active(q), StagesOwn(q),
           NEW F, NEW v, Settles(F, v), F \cap DOMAIN run[q].staged = {},
           run'[q] = run[q], engine' \in Nat, engine' >= engine
    PROVE  StagesOwn(q)'
<1>1. /\ run[q].version \in Nat /\ engine \in Nat
      /\ run[q].queue \in SUBSET Rows /\ DOMAIN run[q].staged \in SUBSET Rows
  BY ActiveIsARun DEF RowTypes
<1>2. run[q].version <= engine'
  BY <1>1 DEF StagesOwn
<1>3. \A i \in run[q].queue : row'[i] # Null
  BY <1>1 DEF StagesOwn, Settles
<1>4. ASSUME NEW i \in DOMAIN run[q].staged
      PROVE  /\ row'[i] # Null /\ row'[i].status = "pending"
             /\ run[q].staged[i].hash = row'[i].hash /\ run[q].staged[i].type = row'[i].type
             /\ run[q].staged[i].version = run[q].version
  <2>1. i \in Rows /\ i \notin F
    BY <1>1
  <2>2. /\ Stored(i) /\ Pending(i)
        /\ run[q].staged[i].hash = row[i].hash /\ run[q].staged[i].type = row[i].type
        /\ run[q].staged[i].version = run[q].version
    BY DEF StagesOwn, Pending
  <2>3. /\ row'[i] # Null /\ row'[i].hash = row[i].hash /\ row'[i].type = row[i].type
        /\ row'[i].status = "pending"
    BY <2>1, <2>2 DEF Settles
  <2>4. QED
    BY <2>2, <2>3
<1>5. QED
  BY <1>2, <1>3, <1>4 DEF StagesOwn, Stored, Pending

\* What a requeue found stays found: whoever fills a row it found stale has an
\* outcome that is not.
LEMMA ReachesStays ==
    ASSUME RowTypes, RunTypes, NEW r \in Runs, Reaches(r),
           NEW F, NEW v, Settles(F, v),
           F # {} => \E q \in Runs : Active(q) /\ v = run[q].version,
           run'[r].stale = run[r].stale, run'[r].reach = run[r].reach,
           run[r].stale \in SUBSET Rows,
           engine' \in Nat, engine' >= engine,
           \A q \in Runs : Active(q)' =>
              \/ Active(q) /\ run'[q].version = run[q].version
              \/ run'[q].version = engine
    PROVE  Reaches(r)'
<1>1. engine \in Nat
  BY DEF RowTypes
<1>2. CASE run[r].stale = {}
  BY <1>2 DEF Reaches
<1>3. CASE run[r].stale # {}
  <2>1. run[r].reach \in Nat /\ run[r].reach <= engine
    BY <1>3 DEF Reaches
  <2>2. run'[r].reach \in Nat /\ run'[r].reach <= engine'
    BY <1>1, <2>1
  <2>3. \A q \in Runs : Active(q) => run[q].version \in Nat /\ run[q].version >= run[r].reach
    BY <1>3, ActiveIsARun DEF Reaches
  <2>4. ASSUME NEW i \in run[r].stale
        PROVE  row'[i] # Null /\ (row'[i].status = "pending"
                                  \/ row'[i].outcome.version >= run[r].reach)
    <3>1. i \in Rows /\ Stored(i) /\ (Pending(i) \/ row[i].outcome.version >= run[r].reach)
      BY DEF Reaches
    <3>2. row'[i] # Null
      BY <3>1 DEF Settles
    <3>3. CASE i \in F /\ Pending(i) /\ row'[i].outcome.version = v
      BY <2>3, <3>2, <3>3
    <3>4. CASE row'[i].outcome = row[i].outcome /\ (Pending(i) => row'[i].status = "pending")
      BY <3>1, <3>2, <3>4
    <3>5. QED
      BY <3>1, <3>3, <3>4 DEF Settles
  <2>5. ASSUME NEW q \in Runs, Active(q)'
        PROVE  run'[q].version >= run[r].reach
    BY <2>1, <2>3, <2>5
  <2>6. QED
    BY <2>2, <2>4, <2>5 DEF Reaches, Stored, Pending
<1>4. QED
  BY <1>2, <1>3

\* Rows that are there or not stay so but for the ingests; theirs stay as they are.
LEMMA InsertsStay ==
    ASSUME RowTypes, InsertsOwn, UNCHANGED ingest, \A i \in Rows : row[i] = Null => row'[i] = Null
    PROVE  InsertsOwn'
<1>1. ASSUME NEW w \in Ingests, ingest[w] # Null
      PROVE  row'[ingest[w].id] = Null
  <2>1. ingest[w].id \in Rows
    BY <1>1 DEF RowTypes
  <2>2. QED
    BY <1>1, <2>1 DEF InsertsOwn
<1>2. QED
  BY <1>1 DEF InsertsOwn, Own

\* While no run moves, all that is said of the runs stays.
LEMMA RunsStand ==
    ASSUME BackfillInv, UNCHANGED run, engine' \in Nat, engine' >= engine, Settles({}, 0)
    PROVE  /\ RunTypes'
           /\ \A r \in Runs : Active(r)' => StagesOwn(r)'
           /\ LocksApart'
           /\ \A r \in Runs : Requeues(r)' => Reaches(r)'
<1>1. RunTypes'
  BY DEF BackfillInv, RunTypes
<1>2. ASSUME NEW q \in Runs, Active(q)'
      PROVE  StagesOwn(q)'
  <2>1. Active(q) /\ run'[q] = run[q]
    BY <1>2 DEF Active
  <2>2. {} \cap DOMAIN run[q].staged = {}
    OBVIOUS
  <2>3. RowTypes /\ RunTypes /\ StagesOwn(q)
    BY <2>1 DEF BackfillInv
  <2>4. QED
    BY <2>1, <2>2, <2>3, StagesOwnStays
<1>3. LocksApart'
  BY DEF BackfillInv, LocksApart, Active
<1>4. ASSUME NEW r \in Runs, Requeues(r)'
      PROVE  Reaches(r)'
  <2>1. Requeues(r)
    BY <1>4 DEF Requeues, Active
  <2>2. RowTypes /\ RunTypes /\ Reaches(r)
    BY <2>1 DEF BackfillInv
  <2>3. run[r].stale \in SUBSET Rows
    BY <2>1, <2>2 DEF Requeues, Active, RunTypes, ActiveRuns, DoneRuns, NoRun
  <2>4. \A q \in Runs : Active(q)' => Active(q) /\ run'[q].version = run[q].version
    BY DEF Active
  <2>5. run'[r].stale = run[r].stale /\ run'[r].reach = run[r].reach
    OBVIOUS
  <2>6. QED
    BY <2>2, <2>3, <2>4, <2>5, ReachesStays
<1>5. QED
  BY <1>1, <1>2, <1>3, <1>4

\* While one run moves: it must account for itself, and fill only what no other
\* has locked.
LEMMA OneRunMoves ==
    ASSUME BackfillInv, NEW r \in Runs, NEW F, NEW v, Settles(F, v),
           F # {} => Active(r) /\ v = run[r].version,
           UNCHANGED <<engine, ingest>>,
           row' \in [Rows -> {Null} \union StoredRows],
           OutcomeIsOwn', \A i \in Rows : row[i] = Null => row'[i] = Null,
           \A q \in Runs \ {r} : run'[q] = run[q],
           run' \in [Runs -> {NoRun} \union ActiveRuns \union DoneRuns],
           Active(r)' => /\ StagesOwn(r)'
                         /\ \/ Active(r) /\ run'[r].version = run[r].version
                            \/ run'[r].version = engine,
           \A q \in Runs \ {r} : Active(q) =>
              /\ F \cap DOMAIN run[q].staged = {}
              /\ Active(r)' => DOMAIN run'[r].staged \cap DOMAIN run[q].staged = {},
           Requeues(r)' => \/ Reaches(r)'
                           \/ /\ Requeues(r) /\ run'[r].stale = run[r].stale
                              /\ run'[r].reach = run[r].reach
    PROVE  BackfillInv'
<1>1. RowTypes' /\ RunTypes' /\ engine' \in Nat /\ engine' >= engine
  BY DEF BackfillInv, RowTypes, RunTypes
<1>2. InsertsOwn'
  BY InsertsStay DEF BackfillInv
<1>3. \A q \in Runs \ {r} : Active(q)' <=> Active(q)
  BY DEF Active
<1>4. ASSUME NEW q \in Runs, Active(q)'
      PROVE  StagesOwn(q)'
  <2>1. CASE q = r
    BY <1>4, <2>1
  <2>2. CASE q # r
    <3>1. Active(q) /\ run'[q] = run[q] /\ F \cap DOMAIN run[q].staged = {}
      BY <1>3, <1>4, <2>2
    <3>2. RowTypes /\ RunTypes /\ StagesOwn(q)
      BY <3>1 DEF BackfillInv
    <3>3. QED
      BY <1>1, <3>1, <3>2, StagesOwnStays
  <2>3. QED
    BY <2>1, <2>2
<1>5. LocksApart'
  <2>1. ASSUME NEW p \in Runs, NEW q \in Runs, p # q, Active(p)', Active(q)'
        PROVE  DOMAIN run'[p].staged \cap DOMAIN run'[q].staged = {}
    <3>1. CASE p = r
      BY <1>3, <2>1, <3>1
    <3>2. CASE q = r
      BY <1>3, <2>1, <3>2
    <3>3. CASE p # r /\ q # r
      BY <1>3, <2>1, <3>3 DEF BackfillInv, LocksApart
    <3>4. QED
      BY <3>1, <3>2, <3>3
  <2>2. QED
    BY <2>1 DEF LocksApart
<1>6. ASSUME NEW s \in Runs, Requeues(s)'
      PROVE  Reaches(s)'
  <2>1. CASE s = r /\ Reaches(r)'
    BY <2>1
  <2>2. CASE ~ (s = r /\ Reaches(r)')
    <3>1. Requeues(s) /\ run'[s].stale = run[s].stale /\ run'[s].reach = run[s].reach
      <4>1. CASE s = r
        BY <1>6, <2>2, <4>1
      <4>2. CASE s # r
        BY <1>6, <4>2 DEF Requeues, Active
      <4>3. QED
        BY <4>1, <4>2
    <3>2. RowTypes /\ RunTypes /\ Reaches(s)
      BY <3>1 DEF BackfillInv
    <3>3. run[s].stale \in SUBSET Rows
      BY <3>1, <3>2 DEF Requeues, Active, RunTypes, ActiveRuns, DoneRuns, NoRun
    <3>4. ASSUME NEW q \in Runs, Active(q)'
          PROVE  \/ Active(q) /\ run'[q].version = run[q].version
                 \/ run'[q].version = engine
      <4>1. CASE q = r
        BY <3>4, <4>1
      <4>2. CASE q # r
        BY <1>3, <3>4, <4>2
      <4>3. QED
        BY <4>1, <4>2
    <3>5. F # {} => \E q \in Runs : Active(q) /\ v = run[q].version
      OBVIOUS
    <3>6. QED
      BY <1>1, <3>1, <3>2, <3>3, <3>4, <3>5, ReachesStays
  <2>3. QED
    BY <2>1, <2>2
<1>7. QED
  BY <1>1, <1>2, <1>4, <1>5, <1>6 DEF BackfillInv

\* The table may start with a row an earlier engine left; no run is under way.
LEMMA BackfillStarts == BackfillInit => BackfillInv
<1> SUFFICES ASSUME BackfillInit PROVE BackfillInv
  OBVIOUS
<1>1. PICK h \in Hashes, t \in Types :
        row \in [Rows -> {Null}] \union
                {[i \in Rows |-> IF i = 1 THEN first ELSE Null] :
                   first \in {Row(h, t, "pending", Null), Row(h, t, "done", Outcome(h, t, 0))}}
  BY DEF BackfillInit
<1>2. PICK first : /\ \A i \in Rows : row[i] = first \/ row[i] = Null
                   /\ row \in [Rows -> {Null, first}]
                   /\ first \in {Row(h, t, "pending", Null), Row(h, t, "done", Outcome(h, t, 0))}
  BY <1>1
<1>3. first \in StoredRows /\ Own(first)
  BY <1>2 DEF Row, Outcome, StoredRows, Outcomes, Own
<1>4. RowTypes /\ RunTypes
  BY <1>2, <1>3 DEF BackfillInit, RowTypes, RunTypes
<1>5. OutcomeIsOwn
  BY <1>2, <1>3 DEF OutcomeIsOwn, Own, Stored
<1>6. \A r \in Runs : ~Active(r) /\ ~Requeues(r)
  BY DEF BackfillInit, Active, Requeues, NoRun
<1>7. InsertsOwn
  BY DEF BackfillInit, InsertsOwn
<1>8. QED
  BY <1>4, <1>5, <1>6, <1>7 DEF BackfillInv, LocksApart

\* A step in which the rows stay.
LEMMA RowsStay ==
    ASSUME RowTypes, OutcomeIsOwn, UNCHANGED row
    PROVE  /\ Settles({}, 0) /\ row' \in [Rows -> {Null} \union StoredRows] /\ OutcomeIsOwn'
           /\ \A i \in Rows : row[i] = Null => row'[i] = Null
  BY DEF RowTypes, OutcomeIsOwn, Settles, Stored, Pending

\* A deploy only raises the engine version: no row and no run changes.
LEMMA StepDeploy == BackfillInv /\ Deploy => BackfillInv'
<1> SUFFICES ASSUME BackfillInv, Deploy PROVE BackfillInv'
  OBVIOUS
<1>1. engine' \in Nat /\ engine' >= engine /\ UNCHANGED <<row, ingest, run>>
  BY DEF Deploy, BackfillInv, RowTypes
<1>2. Settles({}, 0) /\ OutcomeIsOwn'
  BY <1>1, RowsStay DEF BackfillInv
<1>3. InsertsOwn'
  BY <1>1, InsertsStay DEF BackfillInv
<1>4. RowTypes'
  BY <1>1 DEF BackfillInv, RowTypes
<1>5. QED
  BY <1>1, <1>2, <1>3, <1>4, RunsStand DEF BackfillInv

\* An ingest prepares a row at a free id, with the outcome it reuses or extracts.
LEMMA StepIngestAttachment ==
    ASSUME BackfillInv, NEW w \in Ingests, NEW h \in Hashes, NEW t \in Types,
           IngestAttachment(w, h, t)
    PROVE  BackfillInv'
<1>1. PICK i \in Rows :
        /\ Free(i)
        /\ ingest' = [ingest EXCEPT ![w] = [id |-> i, row |-> Row(h, t, "done", _reuse_or_extract(h, t))]]
  BY DEF IngestAttachment
<1>2. UNCHANGED <<row, engine, run>>
  BY DEF IngestAttachment
<1>3. PICK x : x = Row(h, t, "done", _reuse_or_extract(h, t))
  OBVIOUS
<1>4. x \in StoredRows /\ Own(x)
  BY <1>3, ReuseIsOwn DEF BackfillInv
<1>5. /\ ingest' \in [Ingests -> {Null} \union [id : Rows, row : StoredRows]]
      /\ ingest'[w] = [id |-> i, row |-> x]
      /\ \A v \in Ingests \ {w} : ingest'[v] = ingest[v]
  BY <1>1, <1>3, <1>4 DEF BackfillInv, RowTypes
<1>6. RowTypes'
  BY <1>2, <1>5 DEF BackfillInv, RowTypes
<1>7. InsertsOwn'
  <2>1. ASSUME NEW v \in Ingests, ingest'[v] # Null
        PROVE  /\ Own(ingest'[v].row)
               /\ row[ingest'[v].id] = Null
               /\ \A u \in Ingests \ {v} : ingest'[u] # Null => ingest'[u].id # ingest'[v].id
    <3>1. CASE v = w
      <4>1. ingest'[v].id = i /\ ingest'[v].row = x
        BY <1>5, <3>1
      <4>2. row[i] = Null /\ \A u \in Ingests : ingest[u] # Null => ingest[u].id # i
        BY <1>1 DEF Free
      <4>3. QED
        BY <1>4, <1>5, <3>1, <4>1, <4>2
    <3>2. CASE v # w
      <4>1. ingest[v] # Null /\ ingest'[v] = ingest[v]
        BY <1>5, <2>1, <3>2
      <4>2. ingest[v].id # i
        BY <1>1, <4>1 DEF Free
      <4>3. /\ Own(ingest[v].row)
            /\ row[ingest[v].id] = Null
            /\ \A u \in Ingests \ {v} : ingest[u] # Null => ingest[u].id # ingest[v].id
        BY <4>1 DEF BackfillInv, InsertsOwn
      <4>4. ASSUME NEW u \in Ingests \ {v}, ingest'[u] # Null
            PROVE  ingest'[u].id # ingest'[v].id
        BY <1>5, <4>1, <4>2, <4>3, <4>4
      <4>5. QED
        BY <4>1, <4>3, <4>4
    <3>3. QED
      BY <3>1, <3>2
  <2>2. QED
    BY <1>2, <2>1 DEF InsertsOwn, Own
<1>8. Settles({}, 0) /\ OutcomeIsOwn'
  BY <1>2, RowsStay DEF BackfillInv
<1>9. engine' \in Nat /\ engine' >= engine /\ UNCHANGED run
  BY <1>2 DEF BackfillInv, RowTypes
<1>10. QED
  BY <1>6, <1>7, <1>8, <1>9, RunsStand DEF BackfillInv

\* The insert of an ingest touches no row there was.
LEMMA EndIngestSettles ==
    ASSUME BackfillInv, NEW w \in Ingests, EndIngest(w)
    PROVE  /\ Settles({}, 0) /\ RowTypes' /\ OutcomeIsOwn'
           /\ \A i \in Rows : i # ingest[w].id => row'[i] = row[i]
<1>1. /\ ingest[w] # Null /\ ingest' = [ingest EXCEPT ![w] = Null]
      /\ UNCHANGED <<engine, run>>
  BY DEF EndIngest
<1>2. /\ ingest[w].id \in Rows /\ ingest[w].row \in StoredRows
      /\ Own(ingest[w].row) /\ row[ingest[w].id] = Null
  BY <1>1 DEF BackfillInv, RowTypes, InsertsOwn
<1>3. CASE UNCHANGED row
  <2>1. Settles({}, 0) /\ OutcomeIsOwn' /\ row' \in [Rows -> {Null} \union StoredRows]
    BY <1>3, RowsStay DEF BackfillInv
  <2>2. QED
    BY <1>1, <1>3, <2>1 DEF BackfillInv, RowTypes
<1>4. CASE row' = [row EXCEPT ![ingest[w].id] = ingest[w].row]
  <2>1. /\ row' \in [Rows -> {Null} \union StoredRows]
        /\ row'[ingest[w].id] = ingest[w].row
        /\ \A i \in Rows : i # ingest[w].id => row'[i] = row[i]
    BY <1>2, <1>4 DEF BackfillInv, RowTypes
  <2>2. Settles({}, 0)
    <3>1. ASSUME NEW i \in Rows, Stored(i)
          PROVE  row'[i] = row[i]
      BY <1>2, <2>1, <3>1 DEF Stored
    <3>2. QED
      BY <3>1 DEF Settles, Stored, Pending
  <2>3. OutcomeIsOwn'
    <3>1. ASSUME NEW i \in Rows, row'[i] # Null, row'[i].outcome # Null
          PROVE  row'[i].outcome.hash = row'[i].hash /\ row'[i].outcome.type = row'[i].type
      <4>1. CASE i = ingest[w].id
        BY <1>2, <2>1, <3>1, <4>1 DEF Own
      <4>2. CASE i # ingest[w].id
        BY <2>1, <3>1, <4>2 DEF BackfillInv, OutcomeIsOwn, Stored
      <4>3. QED
        BY <4>1, <4>2
    <3>2. QED
      BY <3>1 DEF OutcomeIsOwn, Stored
  <2>4. RowTypes'
    BY <1>1, <2>1 DEF BackfillInv, RowTypes
  <2>5. QED
    BY <2>1, <2>2, <2>3, <2>4
<1>5. QED
  BY <1>3, <1>4 DEF EndIngest

\* The prepared row is stored at its id by the commit, or dropped by a rollback.
LEMMA StepEndIngest ==
    ASSUME BackfillInv, NEW w \in Ingests, EndIngest(w)
    PROVE  BackfillInv'
<1>1. /\ ingest[w] # Null /\ ingest' = [ingest EXCEPT ![w] = Null]
      /\ UNCHANGED <<engine, run>>
  BY DEF EndIngest
<1>2. /\ Settles({}, 0) /\ RowTypes' /\ OutcomeIsOwn'
      /\ \A i \in Rows : i # ingest[w].id => row'[i] = row[i]
  BY EndIngestSettles
<1>3. ingest'[w] = Null /\ \A v \in Ingests \ {w} : ingest'[v] = ingest[v]
  BY <1>1 DEF BackfillInv, RowTypes
<1>4. ASSUME NEW v \in Ingests, ingest'[v] # Null
      PROVE  /\ Own(ingest'[v].row)
             /\ row'[ingest'[v].id] = Null
             /\ \A u \in Ingests \ {v} : ingest'[u] # Null => ingest'[u].id # ingest'[v].id
  <2>1. v # w /\ ingest'[v] = ingest[v] /\ ingest[v] # Null
    BY <1>3, <1>4
  <2>2. /\ Own(ingest[v].row)
        /\ row[ingest[v].id] = Null
        /\ \A u \in Ingests \ {v} : ingest[u] # Null => ingest[u].id # ingest[v].id
    BY <2>1 DEF BackfillInv, InsertsOwn
  <2>3. ingest[v].id # ingest[w].id /\ ingest[v].id \in Rows
    BY <1>1, <2>1, <2>2 DEF BackfillInv, RowTypes
  <2>4. row'[ingest[v].id] = Null
    BY <1>2, <2>2, <2>3
  <2>5. \A u \in Ingests \ {v} : ingest'[u] # Null => ingest'[u].id # ingest'[v].id
    BY <1>3, <2>1, <2>2
  <2>6. QED
    BY <2>1, <2>2, <2>4, <2>5
<1>5. InsertsOwn'
  BY <1>4 DEF InsertsOwn, Own
<1>6. engine' \in Nat /\ engine' >= engine /\ UNCHANGED run
  BY <1>1 DEF BackfillInv, RowTypes
<1>7. QED
  BY <1>2, <1>5, <1>6, RunsStand DEF BackfillInv

\* _requeue_stale_rows changes no outcome and none of the rows' bytes and types.
LEMMA RequeueSettles ==
    ASSUME RowTypes, OutcomeIsOwn, NEW S,
           row' = [i \in Rows |-> IF i \in S THEN [row[i] EXCEPT !.status = "pending"] ELSE row[i]],
           \A i \in S : Stored(i)
    PROVE  /\ Settles({}, 0) /\ row' \in [Rows -> {Null} \union StoredRows] /\ OutcomeIsOwn'
           /\ \A i \in Rows : row[i] = Null => row'[i] = Null
           /\ \A i \in Rows \cap S : row'[i] # Null /\ row'[i].status = "pending"
<1>1. ASSUME NEW i \in Rows \cap S
      PROVE  /\ row'[i] \in StoredRows /\ row'[i] # Null /\ row'[i].status = "pending"
             /\ row'[i].hash = row[i].hash /\ row'[i].type = row[i].type
             /\ row'[i].outcome = row[i].outcome
  <2>1. PICK x : x = row[i]
    OBVIOUS
  <2>2. x \in StoredRows
    BY <2>1 DEF RowTypes, Stored
  <2>3. row'[i] = [x EXCEPT !.status = "pending"]
    BY <2>1
  <2>4. /\ row'[i] \in StoredRows /\ row'[i].status = "pending"
        /\ row'[i].hash = x.hash /\ row'[i].type = x.type /\ row'[i].outcome = x.outcome
    BY <2>2, <2>3 DEF StoredRows
  <2>5. QED
    BY <2>1, <2>4, StoredIsNotNull
<1>2. \A i \in Rows \ S : row'[i] = row[i]
  OBVIOUS
<1>3. row' \in [Rows -> {Null} \union StoredRows]
  BY <1>1, <1>2 DEF RowTypes
<1>4. Settles({}, 0)
  <2>1. ASSUME NEW i \in Rows, Stored(i)
        PROVE  /\ row'[i] # Null /\ row'[i].hash = row[i].hash /\ row'[i].type = row[i].type
               /\ row'[i].outcome = row[i].outcome /\ (Pending(i) => row'[i].status = "pending")
    <3>1. CASE i \in S
      BY <1>1, <3>1
    <3>2. CASE i \notin S
      BY <1>2, <2>1, <3>2 DEF Stored, Pending
    <3>3. QED
      BY <3>1, <3>2
  <2>2. QED
    BY <2>1 DEF Settles
<1>5. OutcomeIsOwn'
  <2>1. ASSUME NEW i \in Rows, row'[i] # Null, row'[i].outcome # Null
        PROVE  row'[i].outcome.hash = row'[i].hash /\ row'[i].outcome.type = row'[i].type
    <3>1. CASE i \in S
      BY <1>1, <2>1, <3>1 DEF OutcomeIsOwn, Stored
    <3>2. CASE i \notin S
      BY <1>2, <2>1, <3>2 DEF OutcomeIsOwn, Stored
    <3>3. QED
      BY <3>1, <3>2
  <2>2. QED
    BY <2>1 DEF OutcomeIsOwn, Stored
<1>6. \A i \in Rows : row[i] = Null => row'[i] = Null
  BY <1>2 DEF Stored
<1>7. QED
  BY <1>1, <1>3, <1>4, <1>5, <1>6

\* A run requeues stale rows that no other run holds, and has staged nothing.
LEMMA StepStartRun ==
    ASSUME BackfillInv, NEW r \in Runs, NEW below \in {Null} \union 1..MaxVersion,
           StartRun(r, below)
    PROVE  BackfillInv'
<1> DEFINE found == IF below = Null THEN {} ELSE {i \in Rows : Stale(i, below)}
<1>1. PICK S : S = found
  OBVIOUS
<1>2. PICK o : o = \E q \in Runs : Active(q) /\ run[q].version < engine
  OBVIOUS
<1>0. PICK b : b = Attainable(below)
  OBVIOUS
<1>3. PICK x : x = [pc |-> "load", version |-> engine,
                    reach |-> IF S = {} THEN Null ELSE b, queue |-> {},
                    outcomes |-> {}, staged |-> NothingStaged, stale |-> S, overtakes |-> o]
  OBVIOUS
<1>4. /\ ~Active(r)
      /\ row' = [i \in Rows |-> IF i \in S THEN [row[i] EXCEPT !.status = "pending"] ELSE row[i]]
      /\ run' = [run EXCEPT ![r] = x]
      /\ UNCHANGED <<engine, ingest>>
  BY <1>0, <1>1, <1>2, <1>3 DEF StartRun
<1>5. S \subseteq Rows /\ \A i \in S : Stored(i)
  BY <1>1 DEF Stale
<1>6. engine \in Nat
  BY DEF BackfillInv, RowTypes
<1>7. S # {} => b \in Nat /\ b <= engine
  <2>1. S # {} => below # Null
    BY <1>1
  <2>2. S # {} => below \in 1..MaxVersion
    BY <2>1
  <2>3. S # {} => below \in Nat
    BY <2>2
  <2>4. QED
    BY <1>0, <1>6, <2>3 DEF Attainable
<1>8. /\ Settles({}, 0) /\ row' \in [Rows -> {Null} \union StoredRows] /\ OutcomeIsOwn'
      /\ \A i \in Rows : row[i] = Null => row'[i] = Null
      /\ \A i \in Rows \cap S : row'[i] # Null /\ row'[i].status = "pending"
  BY <1>4, <1>5, RequeueSettles DEF BackfillInv
<1>9. x \in ActiveRuns
  <2>1. o \in BOOLEAN
    BY <1>2
  <2>2. (IF S = {} THEN Null ELSE b) \in {Null} \union Nat
    BY <1>7
  <2>3. QED
    BY <1>3, <1>5, <1>6, <2>1, <2>2, NothingIsStaged DEF ActiveRuns
<1>10. /\ run' \in [Runs -> {NoRun} \union ActiveRuns \union DoneRuns]
       /\ run'[r] = x /\ \A q \in Runs \ {r} : run'[q] = run[q]
  BY <1>4, <1>9 DEF BackfillInv, RunTypes
<1>11. /\ x.version = engine /\ x.stale = S /\ x.overtakes = o /\ x.queue = {} /\ x.outcomes = {}
       /\ DOMAIN x.staged = {} /\ x.pc = "load" /\ (S # {} => x.reach = b)
  BY <1>3, NothingIsStaged
<1>12. StagesOwn(r)'
  BY <1>4, <1>6, <1>10, <1>11 DEF StagesOwn
<1>13. Requeues(r)' => Reaches(r)'
  <2> SUFFICES ASSUME Requeues(r)' PROVE Reaches(r)'
    OBVIOUS
  <2>1. ~o
    BY <1>10, <1>11 DEF Requeues
  <2>2. S # {} => x.reach \in Nat /\ x.reach <= engine'
    BY <1>4, <1>7, <1>11
  <2>3. ASSUME NEW i \in S, NEW q \in Runs, Active(q)'
        PROVE  run'[q].version >= x.reach
    <3>1. CASE q = r
      BY <1>6, <1>7, <1>10, <1>11, <2>3, <3>1
    <3>2. CASE q # r
      <4>1. Active(q) /\ run'[q] = run[q]
        BY <1>10, <2>3, <3>2 DEF Active
      <4>2. run[q].version \in Nat
        BY <4>1, ActiveIsARun DEF BackfillInv
      <4>3. ~ (run[q].version < engine)
        BY <1>2, <2>1, <4>1
      <4>4. QED
        BY <1>6, <1>7, <1>11, <2>3, <4>1, <4>2, <4>3
    <3>3. QED
      BY <3>1, <3>2
  <2>4. \A i \in S : row'[i] # Null /\ row'[i].status = "pending"
    BY <1>5, <1>8
  <2>5. QED
    BY <1>10, <1>11, <2>2, <2>3, <2>4 DEF Reaches, Stored, Pending
<1>14. \A q \in Runs \ {r} : Active(q) =>
          /\ {} \cap DOMAIN run[q].staged = {}
          /\ Active(r)' => DOMAIN run'[r].staged \cap DOMAIN run[q].staged = {}
  BY <1>10, <1>11
<1>15. Active(r)' => StagesOwn(r)' /\ (\/ Active(r) /\ run'[r].version = run[r].version
                                      \/ run'[r].version = engine)
  BY <1>10, <1>11, <1>12
<1>16. QED
  BY <1>4, <1>8, <1>10, <1>13, <1>14, <1>15, OneRunMoves

\* A step of one run that leaves the rows: it goes on, with less to do and nothing
\* newly staged.
LEMMA RunGoesOn ==
    ASSUME BackfillInv, NEW r \in Runs, Active(r), UNCHANGED <<row, engine, ingest>>,
           NEW x \in ActiveRuns, run' = [run EXCEPT ![r] = x],
           x.version = run[r].version, x.reach = run[r].reach, x.stale = run[r].stale,
           x.overtakes = run[r].overtakes,
           \A i \in x.queue : Stored(i), \A o \in x.outcomes : o.version = x.version,
           \A i \in DOMAIN x.staged :
              \/ i \in DOMAIN run[r].staged /\ x.staged[i] = run[r].staged[i]
              \/ /\ Pending(i) /\ i \notin LockedRows(r)
                 /\ x.staged[i].hash = row[i].hash /\ x.staged[i].type = row[i].type
                 /\ x.staged[i].version = x.version
    PROVE  BackfillInv'
<1>1. /\ run' \in [Runs -> {NoRun} \union ActiveRuns \union DoneRuns]
      /\ run'[r] = x /\ \A q \in Runs \ {r} : run'[q] = run[q]
  BY DEF BackfillInv, RunTypes
<1>2. StagesOwn(r) /\ Active(r)'
  BY <1>1 DEF BackfillInv, Active, ActiveRuns
<1>3. StagesOwn(r)'
  BY <1>1, <1>2 DEF StagesOwn, Stored, Pending
<1>4. /\ Settles({}, 0) /\ row' \in [Rows -> {Null} \union StoredRows] /\ OutcomeIsOwn'
      /\ \A i \in Rows : row[i] = Null => row'[i] = Null
  BY RowsStay DEF BackfillInv
<1>5. ASSUME NEW q \in Runs \ {r}, Active(q)
      PROVE  DOMAIN run'[r].staged \cap DOMAIN run[q].staged = {}
  <2>1. DOMAIN run[r].staged \cap DOMAIN run[q].staged = {}
    BY <1>5 DEF BackfillInv, LocksApart
  <2>2. ASSUME NEW i \in DOMAIN x.staged
        PROVE  i \notin DOMAIN run[q].staged
    BY <1>5, <2>1, FreeOfOthers
  <2>3. QED
    BY <1>1, <2>2
<1>6. Requeues(r)' => Requeues(r) /\ run'[r].stale = run[r].stale /\ run'[r].reach = run[r].reach
  BY <1>1, <1>2 DEF Requeues, Active, ActiveRuns
<1>7. \A q \in Runs \ {r} : Active(q) =>
          /\ {} \cap DOMAIN run[q].staged = {}
          /\ Active(r)' => DOMAIN run'[r].staged \cap DOMAIN run[q].staged = {}
  BY <1>5
<1>8. Active(r)' => StagesOwn(r)' /\ (\/ Active(r) /\ run'[r].version = run[r].version
                                      \/ run'[r].version = engine)
  BY <1>1, <1>3
<1>9. QED
  BY <1>1, <1>4, <1>6, <1>7, <1>8, OneRunMoves

\* The queue is the rows that are pending when it is read.
LEMMA StepLoad ==
    ASSUME BackfillInv, NEW r \in Runs, _load_pending_rows(r)
    PROVE  BackfillInv'
<1>1. PICK x : x = [run[r] EXCEPT !.pc = "update", !.queue = {i \in Rows : Pending(i)}]
  OBVIOUS
<1>2. Active(r) /\ run' = [run EXCEPT ![r] = x] /\ UNCHANGED <<row, engine, ingest>>
  BY <1>1 DEF _load_pending_rows, Active
<1>3. run[r] \in ActiveRuns /\ StagesOwn(r)
  BY <1>2, ActiveIsARun DEF BackfillInv
<1>4. /\ x \in ActiveRuns /\ x.version = run[r].version /\ x.reach = run[r].reach
      /\ x.stale = run[r].stale /\ x.overtakes = run[r].overtakes
      /\ x.outcomes = run[r].outcomes /\ x.staged = run[r].staged
      /\ x.queue = {i \in Rows : Pending(i)}
  BY <1>1, <1>3 DEF ActiveRuns
<1>5. /\ \A i \in x.queue : Stored(i)
      /\ \A o \in x.outcomes : o.version = x.version
      /\ \A i \in DOMAIN x.staged : i \in DOMAIN run[r].staged /\ x.staged[i] = run[r].staged[i]
  BY <1>3, <1>4 DEF StagesOwn, Pending
<1>6. QED
  BY <1>2, <1>4, <1>5, RunGoesOn

\* A row that is skipped leaves the queue and stages nothing.
LEMMA StepSkipRow ==
    ASSUME BackfillInv, NEW r \in Runs, NEW i \in Rows, SkipRow(r, i)
    PROVE  BackfillInv'
<1>1. Active(r) /\ UNCHANGED <<row, engine, ingest>>
  BY DEF SkipRow, Active
<1>2. run[r] \in ActiveRuns /\ StagesOwn(r)
  BY <1>1, ActiveIsARun DEF BackfillInv
<1>3. PICK x : x = [run[r] EXCEPT !.queue = run[r].queue \ {i}]
  OBVIOUS
<1>4. run' = [run EXCEPT ![r] = x]
  BY <1>3 DEF SkipRow
<1>5. /\ x \in ActiveRuns /\ x.version = run[r].version /\ x.reach = run[r].reach
      /\ x.stale = run[r].stale /\ x.overtakes = run[r].overtakes
      /\ x.outcomes = run[r].outcomes /\ x.staged = run[r].staged
      /\ x.queue = run[r].queue \ {i}
  BY <1>2, <1>3 DEF ActiveRuns
<1>6. /\ \A j \in x.queue : Stored(j)
      /\ \A o \in x.outcomes : o.version = x.version
      /\ \A j \in DOMAIN x.staged : j \in DOMAIN run[r].staged /\ x.staged[j] = run[r].staged[j]
  BY <1>2, <1>5 DEF StagesOwn
<1>7. QED
  BY <1>1, <1>4, <1>5, <1>6, RunGoesOn

\* What both ends of _update_pending_row have extracted.
LEMMA RowIsExtracted ==
    ASSUME BackfillInv, NEW r \in Runs, NEW i \in Rows, Active(r), i \in run[r].queue,
           NEW o, o = _row_extraction(run[r].outcomes, row[i].hash, row[i].type, run[r].version)
    PROVE  /\ o \in Outcomes /\ o.hash = row[i].hash /\ o.type = row[i].type
           /\ o.version = run[r].version
<1>1. StagesOwn(r) /\ RunTypes /\ row[i] \in StoredRows
  BY DEF BackfillInv, StagesOwn, RowTypes, Stored
<1>2. PICK h \in Hashes, t \in Types : h = row[i].hash /\ t = row[i].type
  BY <1>1 DEF StoredRows
<1>3. o = _row_extraction(run[r].outcomes, h, t, run[r].version)
  BY <1>2
<1>4. QED
  BY <1>1, <1>2, <1>3, ExtractionIsOwn

\* A row that fails stages nothing; its outcome stays in the memo.
LEMMA StepRowFails ==
    ASSUME BackfillInv, NEW r \in Runs, NEW i \in Rows, RowFails(r, i)
    PROVE  BackfillInv'
<1>1. PICK o : o = _row_extraction(run[r].outcomes, row[i].hash, row[i].type, run[r].version)
  OBVIOUS
<1>2. PICK x : x = [run[r] EXCEPT !.queue = run[r].queue \ {i},
                                  !.outcomes = run[r].outcomes \union {o}]
  OBVIOUS
<1>3. /\ Active(r) /\ i \in run[r].queue /\ run' = [run EXCEPT ![r] = x]
      /\ UNCHANGED <<row, engine, ingest>>
  BY <1>1, <1>2 DEF RowFails, Active
<1>4. run[r] \in ActiveRuns /\ StagesOwn(r)
  BY <1>3, ActiveIsARun DEF BackfillInv
<1>5. o \in Outcomes /\ o.version = run[r].version
  BY <1>1, <1>3, RowIsExtracted
<1>6. /\ x \in ActiveRuns /\ x.version = run[r].version /\ x.reach = run[r].reach
      /\ x.stale = run[r].stale /\ x.overtakes = run[r].overtakes
      /\ x.outcomes = run[r].outcomes \union {o} /\ x.staged = run[r].staged
      /\ x.queue = run[r].queue \ {i}
  BY <1>2, <1>4, <1>5 DEF ActiveRuns
<1>7. /\ \A j \in x.queue : Stored(j)
      /\ \A m \in x.outcomes : m.version = x.version
      /\ \A j \in DOMAIN x.staged : j \in DOMAIN run[r].staged /\ x.staged[j] = run[r].staged[j]
  BY <1>4, <1>5, <1>6 DEF StagesOwn
<1>8. QED
  BY <1>3, <1>6, <1>7, RunGoesOn

\* A run that commits what it staged: rows it has locked, so nobody else's.
LEMMA CommitSettles ==
    ASSUME BackfillInv, NEW r \in Runs, Active(r),
           NEW S \in SUBSET Rows, NEW s \in [S -> Outcomes],
           \A i \in S : /\ Pending(i) /\ s[i].hash = row[i].hash /\ s[i].type = row[i].type
                        /\ s[i].version = run[r].version,
           row' = Filled(s)
    PROVE  /\ Settles(S, run[r].version)
           /\ row' \in [Rows -> {Null} \union StoredRows] /\ OutcomeIsOwn'
           /\ \A i \in Rows : row[i] = Null => row'[i] = Null
<1>1. RowTypes /\ \A i \in S : Stored(i)
  BY DEF BackfillInv, Pending
<1>2. PICK R : R = Filled(s)
  OBVIOUS
<1>3. /\ R \in [Rows -> {Null} \union StoredRows]
      /\ \A i \in Rows \ S : R[i] = row[i]
      /\ \A i \in S : /\ R[i] \in StoredRows /\ R[i] # Null
                      /\ R[i].hash = row[i].hash /\ R[i].type = row[i].type
                      /\ R[i].outcome = s[i] /\ R[i].status = "done"
  BY <1>1, <1>2, FillsRows
<1>4. row' = R
  BY <1>2
<1>5. Settles(S, run[r].version)
  <2>1. ASSUME NEW i \in Rows, Stored(i), i \in S
        PROVE  /\ R[i] # Null /\ R[i].hash = row[i].hash /\ R[i].type = row[i].type
               /\ i \in S /\ Pending(i) /\ R[i].outcome.version = run[r].version
    BY <1>3, <2>1
  <2>2. ASSUME NEW i \in Rows, Stored(i), i \notin S
        PROVE  R[i] = row[i] /\ R[i] # Null
    BY <1>3, <2>2 DEF Stored
  <2>3. QED
    BY <1>4, <2>1, <2>2 DEF Settles, Pending
<1>6. OutcomeIsOwn'
  <2>1. ASSUME NEW i \in Rows, R[i] # Null, R[i].outcome # Null
        PROVE  R[i].outcome.hash = R[i].hash /\ R[i].outcome.type = R[i].type
    <3>1. CASE i \in S
      BY <1>3, <3>1
    <3>2. CASE i \notin S
      BY <1>3, <2>1, <3>2 DEF BackfillInv, OutcomeIsOwn, Stored
    <3>3. QED
      BY <3>1, <3>2
  <2>2. QED
    BY <1>4, <2>1 DEF OutcomeIsOwn, Stored
<1>7. \A i \in Rows : row[i] = Null => row'[i] = Null
  BY <1>1, <1>3, <1>4 DEF Stored
<1>8. QED
  BY <1>3, <1>4, <1>5, <1>6, <1>7

\* The last commit stores what is staged, and every staged row is settled by it.
LEMMA StepFinishRun ==
    ASSUME BackfillInv, NEW r \in Runs, FinishRun(r)
    PROVE  /\ BackfillInv'
           /\ Settles(DOMAIN run[r].staged, run[r].version)
<1>1. PICK x : x = IF run[r].stale = {} \/ run[r].overtakes THEN NoRun
                   ELSE [pc |-> "done", reach |-> run[r].reach, stale |-> run[r].stale]
  OBVIOUS
<1>2. /\ Active(r) /\ row' = Filled(run[r].staged) /\ run' = [run EXCEPT ![r] = x]
      /\ UNCHANGED <<engine, ingest>>
  BY <1>1 DEF FinishRun, Active
<1>3. /\ run[r] \in ActiveRuns /\ StagesOwn(r)
      /\ run[r].staged \in [DOMAIN run[r].staged -> Outcomes]
      /\ DOMAIN run[r].staged \in SUBSET Rows
  BY <1>2, ActiveIsARun DEF BackfillInv
<1>4. PICK s : s = run[r].staged
  OBVIOUS
<1>5. PICK S : S = DOMAIN run[r].staged
  OBVIOUS
<1>6. PICK v : v = run[r].version
  OBVIOUS
<1>7. /\ S \in SUBSET Rows /\ s \in [S -> Outcomes] /\ row' = Filled(s)
      /\ \A i \in S : /\ Pending(i) /\ s[i].hash = row[i].hash /\ s[i].type = row[i].type
                      /\ s[i].version = run[r].version
  BY <1>2, <1>3, <1>4, <1>5 DEF StagesOwn
<1>8. /\ Settles(S, run[r].version)
      /\ row' \in [Rows -> {Null} \union StoredRows] /\ OutcomeIsOwn'
      /\ \A i \in Rows : row[i] = Null => row'[i] = Null
  BY <1>2, <1>7, CommitSettles
<1>9. x \in {NoRun} \union DoneRuns
  <2>1. CASE run[r].stale = {} \/ run[r].overtakes
    BY <1>1, <2>1
  <2>2. CASE run[r].stale # {} /\ ~run[r].overtakes
    <3>1. Reaches(r)
      BY <1>2, <2>2 DEF BackfillInv, Requeues
    <3>2. run[r].reach \in Nat /\ run[r].stale \in SUBSET Rows
      BY <1>3, <2>2, <3>1 DEF Reaches, ActiveRuns
    <3>3. QED
      BY <1>1, <2>2, <3>2 DEF DoneRuns
  <2>3. QED
    BY <1>3, <2>1, <2>2 DEF ActiveRuns
<1>10. /\ run' \in [Runs -> {NoRun} \union ActiveRuns \union DoneRuns]
       /\ run'[r] = x /\ \A q \in Runs \ {r} : run'[q] = run[q]
  BY <1>2, <1>9 DEF BackfillInv, RunTypes
<1>11. ~Active(r)'
  BY <1>9, <1>10 DEF Active, NoRun, DoneRuns
<1>12. Requeues(r)' => Requeues(r) /\ run'[r].stale = run[r].stale /\ run'[r].reach = run[r].reach
  <2>1. CASE run[r].stale = {} \/ run[r].overtakes
    BY <1>1, <1>10, <1>11, <2>1 DEF Requeues, NoRun
  <2>2. CASE run[r].stale # {} /\ ~run[r].overtakes
    BY <1>1, <1>2, <1>10, <2>2 DEF Requeues
  <2>3. QED
    BY <1>3, <2>1, <2>2 DEF ActiveRuns
<1>13. \A q \in Runs \ {r} : Active(q) =>
          /\ S \cap DOMAIN run[q].staged = {}
          /\ Active(r)' => DOMAIN run'[r].staged \cap DOMAIN run[q].staged = {}
  BY <1>2, <1>5, <1>11 DEF BackfillInv, LocksApart
<1>14. S # {} => Active(r) /\ v = run[r].version
  BY <1>2, <1>6
<1>15. Active(r)' => StagesOwn(r)' /\ (\/ Active(r) /\ run'[r].version = run[r].version
                                      \/ run'[r].version = engine)
  BY <1>11
<1>16. Settles(S, v)
  BY <1>6, <1>8
<1>17. BackfillInv'
  BY <1>2, <1>8, <1>10, <1>12, <1>13, <1>14, <1>15, <1>16, OneRunMoves
<1>18. QED
  BY <1>5, <1>8, <1>17

\* A run that dies loses what it had staged, and nothing else.
LEMMA StepRunDies ==
    ASSUME BackfillInv, NEW r \in Runs, RunDies(r)
    PROVE  BackfillInv'
<1>1. run' = [run EXCEPT ![r] = NoRun] /\ UNCHANGED <<row, engine, ingest>>
  BY DEF RunDies
<1>2. /\ Settles({}, 0) /\ row' \in [Rows -> {Null} \union StoredRows] /\ OutcomeIsOwn'
      /\ \A i \in Rows : row[i] = Null => row'[i] = Null
  BY <1>1, RowsStay DEF BackfillInv
<1>3. /\ run' \in [Runs -> {NoRun} \union ActiveRuns \union DoneRuns]
      /\ run'[r] = NoRun /\ \A q \in Runs \ {r} : run'[q] = run[q]
  BY <1>1 DEF BackfillInv, RunTypes
<1>4. ~Active(r)' /\ ~Requeues(r)'
  BY <1>3 DEF Active, Requeues, NoRun
<1>5. \A q \in Runs \ {r} : Active(q) =>
          /\ {} \cap DOMAIN run[q].staged = {}
          /\ Active(r)' => DOMAIN run'[r].staged \cap DOMAIN run[q].staged = {}
  BY <1>4
<1>6. QED
  BY <1>1, <1>2, <1>3, <1>4, <1>5, OneRunMoves

\* _update_pending_row: staged beside what was, and committed with it or not.
LEMMA StepUpdate ==
    ASSUME BackfillInv, NEW r \in Runs, NEW i \in Rows, _update_pending_row(r, i)
    PROVE  /\ BackfillInv'
           /\ \E F \in SUBSET Rows : Settles(F, run[r].version)
<1>1. PICK o : o = _row_extraction(run[r].outcomes, row[i].hash, row[i].type, run[r].version)
  OBVIOUS
<1>2. PICK D : D = DOMAIN run[r].staged
  OBVIOUS
<1>3. PICK S : S = D \union (IF Pending(i) THEN {i} ELSE {})
  OBVIOUS
<1>4. PICK s : s = [j \in S |-> IF j = i THEN o ELSE run[r].staged[j]]
  OBVIOUS
<1>5. PICK b \in BOOLEAN : b <=> Cardinality(DOMAIN s) >= CommitBatch
  OBVIOUS
<1>6. PICK x : x = [run[r] EXCEPT !.queue = run[r].queue \ {i},
                                  !.outcomes = run[r].outcomes \union {o},
                                  !.staged = IF b THEN NothingStaged ELSE s]
  OBVIOUS
<1>7. /\ Active(r) /\ i \in run[r].queue /\ i \notin LockedRows(r)
      /\ row' = (IF b THEN Filled(s) ELSE row)
      /\ run' = [run EXCEPT ![r] = x]
      /\ UNCHANGED <<engine, ingest>>
  BY <1>1, <1>2, <1>3, <1>4, <1>5, <1>6 DEF _update_pending_row, Active
<1>8. /\ run[r] \in ActiveRuns /\ StagesOwn(r)
      /\ run[r].staged \in [D -> Outcomes] /\ D \in SUBSET Rows
  BY <1>2, <1>7, ActiveIsARun DEF BackfillInv
<1>9. /\ o \in Outcomes /\ o.hash = row[i].hash /\ o.type = row[i].type
      /\ o.version = run[r].version
  BY <1>1, <1>7, RowIsExtracted
<1>10. S \in SUBSET Rows /\ (i \in D => i \in S) /\ \A j \in S : j # i => j \in D
  BY <1>3, <1>8
<1>11. /\ s \in [S -> Outcomes] /\ DOMAIN s = S
       /\ \A j \in S : s[j] = IF j = i THEN o ELSE run[r].staged[j]
  BY <1>4, <1>8, <1>9, <1>10
<1>12. ASSUME NEW j \in S
       PROVE  /\ Pending(j) /\ s[j].hash = row[j].hash /\ s[j].type = row[j].type
              /\ s[j].version = run[r].version
  <2>1. CASE j = i
    <3>1. Pending(i)
      BY <1>2, <1>3, <1>8, <2>1 DEF StagesOwn
    <3>2. QED
      BY <1>9, <1>11, <2>1, <3>1
  <2>2. CASE j # i
    <3>1. j \in D /\ s[j] = run[r].staged[j]
      BY <1>10, <1>11, <2>2
    <3>2. QED
      BY <1>2, <1>8, <3>1 DEF StagesOwn
  <2>3. QED
    BY <2>1, <2>2
<1>13. /\ x \in ActiveRuns /\ x.version = run[r].version /\ x.reach = run[r].reach
       /\ x.stale = run[r].stale /\ x.overtakes = run[r].overtakes
       /\ x.outcomes = run[r].outcomes \union {o} /\ x.queue = run[r].queue \ {i}
       /\ x.staged = (IF b THEN NothingStaged ELSE s)
  <2>1. s \in Staging
    BY <1>10, <1>11 DEF Staging
  <2>2. QED
    BY <1>6, <1>8, <1>9, <2>1, NothingIsStaged DEF ActiveRuns
<1>14. /\ \A j \in x.queue : Stored(j)
       /\ \A m \in x.outcomes : m.version = x.version
  BY <1>8, <1>9, <1>13 DEF StagesOwn
<1>15. ASSUME NEW q \in Runs \ {r}, Active(q)
       PROVE  S \cap DOMAIN run[q].staged = {}
  <2>1. D \cap DOMAIN run[q].staged = {}
    BY <1>2, <1>7, <1>15 DEF BackfillInv, LocksApart
  <2>2. i \notin DOMAIN run[q].staged
    BY <1>7, <1>15, FreeOfOthers
  <2>3. QED
    BY <1>10, <2>1, <2>2
<1>16. CASE ~b
  <2>1. UNCHANGED row /\ x.staged = s
    BY <1>7, <1>13, <1>16
  <2>2. ASSUME NEW j \in DOMAIN x.staged
        PROVE  \/ j \in DOMAIN run[r].staged /\ x.staged[j] = run[r].staged[j]
               \/ /\ Pending(j) /\ j \notin LockedRows(r)
                  /\ x.staged[j].hash = row[j].hash /\ x.staged[j].type = row[j].type
                  /\ x.staged[j].version = x.version
    <3>1. j \in S
      BY <1>11, <2>1
    <3>2. CASE j = i
      BY <1>7, <1>12, <1>13, <2>1, <3>1, <3>2
    <3>3. CASE j # i
      BY <1>2, <1>10, <1>11, <2>1, <3>1, <3>3
    <3>4. QED
      BY <3>2, <3>3
  <2>3. BackfillInv'
    BY <1>7, <1>13, <1>14, <2>1, <2>2, RunGoesOn
  <2>4. Settles({}, run[r].version)
    BY <2>1 DEF Settles, Stored, Pending
  <2>5. QED
    BY <2>3, <2>4
<1>17. CASE b
  <2>1. row' = Filled(s) /\ x.staged = NothingStaged
    BY <1>7, <1>13, <1>17
  <2>2. /\ Settles(S, run[r].version)
        /\ row' \in [Rows -> {Null} \union StoredRows] /\ OutcomeIsOwn'
        /\ \A j \in Rows : row[j] = Null => row'[j] = Null
    BY <1>7, <1>10, <1>11, <1>12, <2>1, CommitSettles
  <2>3. PICK v : v = run[r].version
    OBVIOUS
  <2>4. Settles(S, v) /\ (S # {} => Active(r) /\ v = run[r].version)
    BY <1>7, <2>2, <2>3
  <2>5. /\ run' \in [Runs -> {NoRun} \union ActiveRuns \union DoneRuns]
        /\ run'[r] = x /\ \A q \in Runs \ {r} : run'[q] = run[q]
    BY <1>7, <1>13 DEF BackfillInv, RunTypes
  <2>6. StagesOwn(r)'
    <3>1. /\ x.version <= engine
      BY <1>8, <1>13 DEF StagesOwn
    <3>2. \A j \in x.queue : row'[j] # Null
      <4>1. \A j \in x.queue : j \in Rows /\ Stored(j)
        BY <1>13, <1>14 DEF ActiveRuns
      <4>2. QED
        BY <2>2, <4>1 DEF Settles
    <3>3. DOMAIN x.staged = {}
      BY <2>1, NothingIsStaged
    <3>4. QED
      BY <1>7, <1>14, <2>5, <3>1, <3>2, <3>3 DEF StagesOwn, Stored
  <2>7. \A q \in Runs \ {r} : Active(q) =>
          /\ S \cap DOMAIN run[q].staged = {}
          /\ Active(r)' => DOMAIN run'[r].staged \cap DOMAIN run[q].staged = {}
    BY <1>15, <2>1, <2>5, NothingIsStaged
  <2>8. Active(r)' => StagesOwn(r)' /\ (\/ Active(r) /\ run'[r].version = run[r].version
                                        \/ run'[r].version = engine)
    BY <1>7, <1>13, <2>5, <2>6
  <2>9. Requeues(r)' => Requeues(r) /\ run'[r].stale = run[r].stale /\ run'[r].reach = run[r].reach
    <3>1. Active(r) /\ x.pc # "done"
      BY <1>7, <1>13 DEF ActiveRuns
    <3>2. QED
      BY <1>13, <2>5, <3>1 DEF Requeues
  <2>10. BackfillInv'
    BY <1>7, <2>2, <2>4, <2>5, <2>7, <2>8, <2>9, OneRunMoves
  <2>11. QED
    BY <1>10, <2>2, <2>10
<1>18. QED
  BY <1>5, <1>16, <1>17

\* The backfill, the ingests beside it and the releases preserve the invariant.
THEOREM BackfillInvariant == BackfillSpec => []BackfillInv
<1>1. BackfillInit => BackfillInv
  BY BackfillStarts
<1>2. BackfillInv /\ [BackfillNext]_backfill_vars => BackfillInv'
  <2> SUFFICES ASSUME BackfillInv, [BackfillNext]_backfill_vars PROVE BackfillInv'
    OBVIOUS
  <2>1. CASE Deploy
    BY <2>1, StepDeploy
  <2>2. ASSUME NEW w \in Ingests, NEW h \in Hashes, NEW t \in Types, IngestAttachment(w, h, t)
        PROVE  BackfillInv'
    BY <2>2, StepIngestAttachment
  <2>3. ASSUME NEW w \in Ingests, EndIngest(w)
        PROVE  BackfillInv'
    BY <2>3, StepEndIngest
  <2>4. ASSUME NEW r \in Runs, NEW below \in {Null} \union 1..MaxVersion, StartRun(r, below)
        PROVE  BackfillInv'
    BY <2>4, StepStartRun
  <2>5. ASSUME NEW r \in Runs, _load_pending_rows(r) \/ FinishRun(r) \/ RunDies(r)
        PROVE  BackfillInv'
    BY <2>5, StepLoad, StepFinishRun, StepRunDies
  <2>6. ASSUME NEW r \in Runs, NEW i \in Rows,
               SkipRow(r, i) \/ _update_pending_row(r, i) \/ RowFails(r, i)
        PROVE  BackfillInv'
    BY <2>6, StepSkipRow, StepUpdate, StepRowFails
  <2>7. CASE UNCHANGED backfill_vars
    <3>1. UNCHANGED <<row, engine, ingest, run>>
      BY <2>7 DEF backfill_vars
    <3>2. QED
      BY <3>1 DEF BackfillInv, RowTypes, RunTypes, OutcomeIsOwn, InsertsOwn, StagesOwn, LocksApart,
                  Requeues, Reaches, Stored, Pending, Active, Own
  <2>8. QED
    BY <2>1, <2>2, <2>3, <2>4, <2>5, <2>6, <2>7 DEF BackfillNext
<1>3. QED
  BY <1>1, <1>2, PTL DEF BackfillSpec

\* "PER-ROW DISPATCH" (backfill_attachment_extraction.py:20): the outcome on a row is
\* that of its own bytes under its own declared type, in whatever order ingests,
\* releases and runs of the script come.
THEOREM OutcomesAreOwn == BackfillSpec => []OutcomeIsOwn
<1>1. BackfillInv => OutcomeIsOwn
  BY DEF BackfillInv
<1>2. QED
  BY <1>1, BackfillInvariant, PTL

\* "This is how engine-upgrade backfills target stale rows"
\* (backfill_attachment_extraction.py:31): a requeue that no run of older code was
\* going beside leaves none of the rows it found with a stale outcome settled.
THEOREM RequeuesReachStale == BackfillSpec => []RequeueReachesStale
<1>1. BackfillInv => RequeueReachesStale
  BY DEF BackfillInv, Requeues, Reaches, RequeueReachesStale
<1>2. QED
  BY <1>1, BackfillInvariant, PTL

\* "never overwrites" (backfill_attachment_extraction.py:26): no step changes the
\* outcome of a row that is not pending, whichever run still has it in its list.
THEOREM OutcomesAreKept == BackfillSpec => FilledIsKept
<1> DEFINE Keeps == \A i \in Rows : Stored(i) /\ ~Pending(i) => row'[i].outcome = row[i].outcome
<1>1. ASSUME NEW F, NEW v, Settles(F, v)
      PROVE  Keeps
  BY <1>1 DEF Settles
<1>2. UNCHANGED row => Keeps
  OBVIOUS
<1>3. BackfillInv /\ BackfillNext => Keeps
  <2> HIDE DEF Keeps
  <2> SUFFICES ASSUME BackfillInv, BackfillNext PROVE Keeps
    OBVIOUS
  <2>1. CASE Deploy
    BY <1>2, <2>1 DEF Deploy
  <2>2. ASSUME NEW w \in Ingests, NEW h \in Hashes, NEW t \in Types, IngestAttachment(w, h, t)
        PROVE  Keeps
    BY <1>2, <2>2 DEF IngestAttachment
  <2>3. ASSUME NEW w \in Ingests, EndIngest(w)
        PROVE  Keeps
    BY <1>1, <2>3, EndIngestSettles
  <2>4. ASSUME NEW r \in Runs, NEW below \in {Null} \union 1..MaxVersion, StartRun(r, below)
        PROVE  Keeps
    <3>1. PICK S : S = IF below = Null THEN {} ELSE {i \in Rows : Stale(i, below)}
      OBVIOUS
    <3>2. /\ row' = [i \in Rows |-> IF i \in S THEN [row[i] EXCEPT !.status = "pending"] ELSE row[i]]
          /\ \A i \in S : Stored(i)
      BY <2>4, <3>1 DEF StartRun, Stale
    <3>3. Settles({}, 0)
      BY <3>2, RequeueSettles DEF BackfillInv
    <3>4. QED
      BY <1>1, <3>3
  <2>5. ASSUME NEW r \in Runs, _load_pending_rows(r) \/ RunDies(r)
        PROVE  Keeps
    BY <1>2, <2>5 DEF _load_pending_rows, RunDies
  <2>6. ASSUME NEW r \in Runs, FinishRun(r)
        PROVE  Keeps
    <3>1. PICK F : F = DOMAIN run[r].staged
      OBVIOUS
    <3>2. PICK v : v = run[r].version
      OBVIOUS
    <3>3. Settles(F, v)
      BY <2>6, <3>1, <3>2, StepFinishRun
    <3>4. QED
      BY <1>1, <3>3
  <2>7. ASSUME NEW r \in Runs, NEW i \in Rows, SkipRow(r, i) \/ RowFails(r, i)
        PROVE  Keeps
    BY <1>2, <2>7 DEF SkipRow, RowFails
  <2>8. ASSUME NEW r \in Runs, NEW i \in Rows, _update_pending_row(r, i)
        PROVE  Keeps
    <3>1. PICK F \in SUBSET Rows : Settles(F, run[r].version)
      BY <2>8, StepUpdate
    <3>2. PICK v : v = run[r].version
      OBVIOUS
    <3>3. Settles(F, v)
      BY <3>1, <3>2
    <3>4. QED
      BY <1>1, <3>3
  <2>9. QED
    BY <2>1, <2>2, <2>3, <2>4, <2>5, <2>6, <2>7, <2>8 DEF BackfillNext
<1>4. BackfillInv /\ [BackfillNext]_backfill_vars => [Keeps]_backfill_vars
  BY <1>3
<1>5. QED
  BY <1>4, BackfillInvariant, PTL DEF BackfillSpec, FilledIsKept

----------------------------------------------------------------------------
(* Loops.                                                                  *)

\* What holds at the start of an interval and is handed on holds on all of it.
LEMMA IntervalInduction ==
    ASSUME NEW n \in Nat, NEW S, 0 \in S, \A i \in 1..n : i - 1 \in S => i \in S
    PROVE  \A i \in 0..n : i \in S
<1> SUFFICES ASSUME NEW m \in 0..n, m \notin S PROVE FALSE
  OBVIOUS
<1>1. PICK T : T = {i \in 0..n : i \notin S}
  OBVIOUS
<1>2. T \in SUBSET Nat /\ T # {}
  BY <1>1
<1>3. PICK k \in T : \A i \in T : k <= i
  BY <1>2, LeastNatural
<1>4. k \in 1..n /\ k - 1 \in 0..n /\ k - 1 \notin T
  BY <1>1, <1>3
<1>5. QED
  BY <1>1, <1>3, <1>4

\* The states of a loop of n rounds from x0 in X, F[i][x] being what round i makes of x.
Rounds(n, X, x0, F) ==
    {w \in [0..n -> X] : w[0] = x0 /\ \A i \in 1..n : w[i] = F[i][w[i - 1]]}

\* The loop has states.
LEMMA RoundsExist ==
    ASSUME NEW n \in Nat, NEW X, NEW x0 \in X, NEW F \in [1..n -> [X -> X]]
    PROVE  Rounds(n, X, x0, F) # {}
<1>1. PICK S : S = {m \in 0..n : Rounds(m, X, x0, F) # {}}
  OBVIOUS
<1>2. 0 \in S
  <2>1. [i \in 0..0 |-> x0] \in Rounds(0, X, x0, F)
    BY DEF Rounds
  <2>2. QED
    BY <1>1, <2>1
<1>3. ASSUME NEW m \in 1..n, m - 1 \in S PROVE m \in S
  <2>1. PICK w \in Rounds(m - 1, X, x0, F) : TRUE
    BY <1>1, <1>3
  <2>2. /\ w \in [0..(m - 1) -> X] /\ w[0] = x0
        /\ \A i \in 1..(m - 1) : w[i] = F[i][w[i - 1]]
    BY <2>1 DEF Rounds
  <2>3. PICK v : v = [i \in 0..m |-> IF i = m THEN F[m][w[m - 1]] ELSE w[i]]
    OBVIOUS
  <2>4. w[m - 1] \in X /\ F[m][w[m - 1]] \in X
    BY <2>2
  <2>5. v \in [0..m -> X] /\ v[0] = x0
    BY <2>2, <2>3, <2>4
  <2>6. ASSUME NEW i \in 1..m PROVE v[i] = F[i][v[i - 1]]
    <3>1. CASE i = m
      BY <2>3, <3>1
    <3>2. CASE i # m
      BY <2>2, <2>3, <3>2
    <3>3. QED
      BY <3>1, <3>2
  <2>7. v \in Rounds(m, X, x0, F)
    BY <2>5, <2>6 DEF Rounds
  <2>8. QED
    BY <1>1, <2>7
<1>4. n \in S
  <2>1. \A m \in 1..n : m - 1 \in S => m \in S
    BY <1>3
  <2>2. \A m \in 0..n : m \in S
    BY <1>2, <2>1, IntervalInduction
  <2>3. QED
    BY <2>2
<1>5. QED
  BY <1>1, <1>4

----------------------------------------------------------------------------
(* The lists the planner is given.                                         *)

\* A strictly ascending list of the members of S.
Lists(s, S) ==
    /\ s \in Seq(S)
    /\ \A i, j \in DOMAIN s : i < j => s[i] < s[j]
    /\ \A u \in S : \E i \in DOMAIN s : s[i] = u

\* A list grows by a member above all it has.
LEMMA ListGrows ==
    ASSUME NEW L, NEW s, Lists(s, L), NEW i \in Int, \A u \in L : u \in Int /\ u < i
    PROVE  Lists(Append(s, i), L \cup {i})
<1>1. /\ s \in Seq(L)
      /\ \A j, k \in DOMAIN s : j < k => s[j] < s[k]
      /\ \A u \in L : \E j \in DOMAIN s : s[j] = u
  BY DEF Lists
<1>2. PICK t, M : t = Append(s, i) /\ M = L \cup {i}
  OBVIOUS
<1>3. s \in Seq(M) /\ t \in Seq(M)
  BY <1>1, <1>2
<1>4. /\ DOMAIN s = 1..Len(s) /\ Len(s) \in Nat
      /\ DOMAIN t = 1..(Len(s) + 1) /\ t[Len(s) + 1] = i
      /\ \A j \in DOMAIN s : t[j] = s[j] /\ s[j] \in L
  BY <1>1, <1>2, <1>3
<1>5. ASSUME NEW j \in DOMAIN t, NEW k \in DOMAIN t, j < k PROVE t[j] < t[k]
  <2>1. j \in DOMAIN s /\ t[j] = s[j] /\ s[j] \in L
    BY <1>4, <1>5
  <2>2. CASE k \in DOMAIN s
    BY <1>1, <1>4, <1>5, <2>1, <2>2
  <2>3. CASE k = Len(s) + 1
    BY <1>4, <2>1, <2>3
  <2>4. QED
    BY <1>4, <2>2, <2>3
<1>6. ASSUME NEW u \in M PROVE \E j \in DOMAIN t : t[j] = u
  <2>1. CASE u = i
    BY <1>4, <2>1
  <2>2. CASE u \in L
    BY <1>1, <1>4, <2>2
  <2>3. QED
    BY <1>2, <1>6, <2>1, <2>2
<1>7. QED
  BY <1>2, <1>3, <1>5, <1>6 DEF Lists

\* A loop, and the states it goes through.
IsLoop(n, X, x0, F) == n \in Nat /\ x0 \in X /\ F \in [1..n -> [X -> X]]
Unfolds(n, X, x0, F, w) ==
    w \in [0..n -> X] /\ w[0] = x0 /\ \A i \in 1..n : w[i] = F[i][w[i - 1]]

\* A recursive function over an interval has its equations: there is one that satisfies them.
LEMMA LoopUnfolds ==
    ASSUME NEW n, NEW X, NEW x0, NEW F, IsLoop(n, X, x0, F)
    PROVE  \E w : Unfolds(n, X, x0, F, w)
<1>1. n \in Nat /\ x0 \in X /\ F \in [1..n -> [X -> X]]
  BY DEF IsLoop
<1>2. Rounds(n, X, x0, F) # {}
  BY <1>1, RoundsExist
<1>3. QED
  BY <1>2 DEF Rounds, Unfolds

\* The rounds of Ascending are lists of members of S.
LEMMA AscendingRounds ==
    ASSUME NEW n \in Nat, NEW S \in SUBSET (1..n)
    PROVE  \E w : w = [i \in 0..n |-> IF i = 0 THEN <<>>
                                      ELSE IF i \in S THEN Append(w[i - 1], i) ELSE w[i - 1]]
<1>1. PICK F : F = [i \in 1..n |-> [x \in Seq(S) |-> IF i \in S THEN Append(x, i) ELSE x]]
  OBVIOUS
<1>2. ASSUME NEW i \in 1..n, NEW x \in Seq(S)
      PROVE  (IF i \in S THEN Append(x, i) ELSE x) \in Seq(S)
  OBVIOUS
<1>3. F \in [1..n -> [Seq(S) -> Seq(S)]]
  BY <1>1, <1>2
<1>4. <<>> \in Seq(S)
  OBVIOUS
<1>5. PICK w : /\ w \in [0..n -> Seq(S)] /\ w[0] = <<>>
               /\ \A i \in 1..n : w[i] = F[i][w[i - 1]]
  <2>1. IsLoop(n, Seq(S), <<>>, F)
    BY <1>3, <1>4 DEF IsLoop
  <2>2. \E w : Unfolds(n, Seq(S), <<>>, F, w)
    BY ONLY <2>1, LoopUnfolds
  <2>3. QED
    BY <2>2 DEF Unfolds
<1>6. ASSUME NEW i \in 1..n PROVE w[i] = IF i \in S THEN Append(w[i - 1], i) ELSE w[i - 1]
  <2>1. w[i - 1] \in Seq(S)
    BY <1>5
  <2>2. F[i][w[i - 1]] = IF i \in S THEN Append(w[i - 1], i) ELSE w[i - 1]
    BY <1>1, <2>1
  <2>3. QED
    BY <1>5, <2>2
<1>7. PICK v : v = [i \in 0..n |-> IF i = 0 THEN <<>>
                                   ELSE IF i \in S THEN Append(w[i - 1], i) ELSE w[i - 1]]
  OBVIOUS
<1>8. ASSUME NEW i \in 0..n PROVE v[i] = w[i]
  <2>1. CASE i = 0
    BY <1>5, <1>7, <2>1
  <2>2. CASE i # 0
    <3>1. i \in 1..n /\ v[i] = IF i \in S THEN Append(w[i - 1], i) ELSE w[i - 1]
      BY <1>7, <2>2
    <3>2. QED
      BY <1>6, <3>1
  <2>3. QED
    BY <2>1, <2>2
<1>9. v = w
  BY <1>5, <1>7, <1>8
<1>10. QED
  BY <1>7, <1>9

\* Ascending lists its set.
LEMMA AscendingLists ==
    ASSUME NEW n \in Nat, NEW S \in SUBSET (1..n)
    PROVE  Lists(Ascending(S, n), S)
<1> DEFINE Body(g) == [i \in 0..n |-> IF i = 0 THEN <<>>
                                      ELSE IF i \in S THEN Append(g[i - 1], i) ELSE g[i - 1]]
<1>1. \E w : w = Body(w)
  BY AscendingRounds
<1>2. Ascending(S, n) = (CHOOSE g : g = Body(g))[n]
  BY DEF Ascending
<1>3. PICK g : g = Body(g) /\ Ascending(S, n) = g[n]
  <2> HIDE DEF Body
  <2>1. PICK g : g = CHOOSE x : x = Body(x)
    OBVIOUS
  <2>2. QED
    BY <1>1, <1>2, <2>1
<1>4. g[0] = <<>>
  BY <1>3
<1>5. ASSUME NEW i \in 1..n PROVE g[i] = IF i \in S THEN Append(g[i - 1], i) ELSE g[i - 1]
  <2>1. Body(g)[i] = IF i \in S THEN Append(g[i - 1], i) ELSE g[i - 1]
    OBVIOUS
  <2> HIDE DEF Body
  <2>2. QED
    BY <1>3, <2>1
<1> HIDE DEF Body
<1>6. PICK T : T = {i \in 0..n : Lists(g[i], S \cap 1..i)}
  OBVIOUS
<1>7. 0 \in T
  <2>1. S \cap 1..0 = {}
    OBVIOUS
  <2>2. Lists(<<>>, {})
    BY DEF Lists
  <2>3. QED
    BY <1>4, <1>6, <2>1, <2>2
<1>8. ASSUME NEW i \in 1..n, i - 1 \in T PROVE i \in T
  <2>1. PICK s, L, M : s = g[i - 1] /\ L = S \cap 1..(i - 1) /\ M = S \cap 1..i
    OBVIOUS
  <2>2. Lists(s, L)
    BY <1>6, <1>8, <2>1
  <2>3. Lists(g[i], M) => i \in T
    BY <1>6, <2>1
  <2>4. CASE i \notin S
    <3>1. M = L
      BY <2>1, <2>4
    <3>2. QED
      BY <1>5, <2>1, <2>2, <2>3, <2>4, <3>1
  <2>5. CASE i \in S
    <3>1. M = L \cup {i} /\ \A u \in L : u \in Int /\ u < i
      BY <2>1, <2>5
    <3>2. Lists(Append(s, i), M)
      BY <2>2, <3>1, ListGrows
    <3>3. QED
      BY <1>5, <2>1, <2>3, <2>5, <3>2
  <2>6. QED
    BY <2>4, <2>5
<1>9. n \in T
  <2>1. \A i \in 1..n : i - 1 \in T => i \in T
    BY <1>8
  <2>2. \A i \in 0..n : i \in T
    BY ONLY <1>7, <2>1, n \in Nat, IntervalInduction
  <2>3. QED
    BY <2>2
<1>10. S \cap 1..n = S
  OBVIOUS
<1>11. QED
  BY <1>3, <1>6, <1>9, <1>10
----------------------------------------------------------------------------
(* The advance of a cursor.                                                *)

\* The entries of a list of UIDs.
LEMMA ListItems ==
    ASSUME NEW cand \in SUBSET Int, NEW c \in Seq(cand)
    PROVE  /\ Len(c) \in Nat /\ DOMAIN c = 1..Len(c)
           /\ \A k \in 1..Len(c) : c[k] \in cand /\ c[k] \in Int
<1>1. Len(c) \in Nat /\ DOMAIN c = 1..Len(c)
  OBVIOUS
<1>2. ASSUME NEW k \in 1..Len(c) PROVE c[k] \in cand
  BY <1>1
<1>3. ASSUME NEW k \in 1..Len(c) PROVE c[k] \in Int
  BY <1>2
<1>4. QED
  BY <1>1, <1>2, <1>3

\* The states of highest_contiguous_uid's walk.
WalkState == [advanced : Int, stopped : BOOLEAN]

\* g goes through the states of the walk over the list c.
Walks(g, c, accounted, floor) ==
    /\ g \in [0..Len(c) -> WalkState]
    /\ g[0] = [advanced |-> floor, stopped |-> FALSE]
    /\ \A i \in 1..Len(c) : g[i] = WalkOne(g[i - 1], c[i], accounted, floor)

\* highest_contiguous_uid is where a walk over the candidates ends.
LEMMA AdvanceWalks ==
    ASSUME NEW cand \in SUBSET Int, NEW c \in Seq(cand), NEW accounted, NEW floor \in Int
    PROVE  \E g : /\ Walks(g, c, accounted, floor)
                  /\ highest_contiguous_uid(c, accounted, floor) = g[Len(c)].advanced
<1> DEFINE Body(g) == [i \in 0..Len(c) |->
                         IF i = 0 THEN [advanced |-> floor, stopped |-> FALSE]
                         ELSE WalkOne(g[i - 1], c[i], accounted, floor)]
<1>1. PICK n, x0 : n = Len(c) /\ x0 = [advanced |-> floor, stopped |-> FALSE]
  OBVIOUS
<1>2. n \in Nat /\ x0 \in WalkState
  BY <1>1 DEF WalkState
<1>3. PICK F : F = [i \in 1..n |-> [x \in WalkState |-> WalkOne(x, c[i], accounted, floor)]]
  OBVIOUS
<1>4. ASSUME NEW i \in 1..n, NEW x \in WalkState
      PROVE  WalkOne(x, c[i], accounted, floor) \in WalkState
  <2>1. c[i] \in Int
    BY <1>1, ListItems
  <2>2. QED
    BY <2>1 DEF WalkOne, WalkState
<1>5. F \in [1..n -> [WalkState -> WalkState]]
  BY <1>3, <1>4
<1>6. PICK w : /\ w \in [0..n -> WalkState] /\ w[0] = x0
               /\ \A i \in 1..n : w[i] = F[i][w[i - 1]]
  <2>1. IsLoop(n, WalkState, x0, F)
    BY <1>2, <1>5 DEF IsLoop
  <2>2. \E w : Unfolds(n, WalkState, x0, F, w)
    BY ONLY <2>1, LoopUnfolds
  <2>3. QED
    BY <2>2 DEF Unfolds
<1>7. ASSUME NEW i \in 1..n PROVE w[i] = WalkOne(w[i - 1], c[i], accounted, floor)
  <2>1. w[i - 1] \in WalkState
    BY <1>2, <1>6
  <2>2. F[i][w[i - 1]] = WalkOne(w[i - 1], c[i], accounted, floor)
    BY <1>3, <2>1
  <2>3. QED
    BY <1>6, <2>2
<1>8. Walks(w, c, accounted, floor)
  BY <1>1, <1>6, <1>7 DEF Walks
<1>9. ASSUME NEW i \in 0..n PROVE Body(w)[i] = w[i]
  <2>1. CASE i = 0
    BY <1>1, <1>6, <2>1
  <2>2. CASE i # 0
    <3>1. i \in 1..n /\ Body(w)[i] = WalkOne(w[i - 1], c[i], accounted, floor)
      BY <1>1, <2>2
    <3>2. QED
      BY <1>7, <3>1
  <2>3. QED
    BY <2>1, <2>2
<1>10. w = Body(w)
  BY <1>1, <1>6, <1>9
<1>11. highest_contiguous_uid(c, accounted, floor) = (CHOOSE g : g = Body(g))[n].advanced
  BY <1>1 DEF highest_contiguous_uid
<1>12. PICK g : /\ g = Body(g)
                /\ highest_contiguous_uid(c, accounted, floor) = g[n].advanced
  <2> HIDE DEF Body
  <2>1. PICK g : g = CHOOSE x : x = Body(x)
    OBVIOUS
  <2>2. QED
    BY <1>10, <1>11, <2>1
<1>13. g[0] = x0
  BY <1>1, <1>12
<1>14. ASSUME NEW i \in 1..n PROVE g[i] = WalkOne(g[i - 1], c[i], accounted, floor)
  <2>1. Body(g)[i] = WalkOne(g[i - 1], c[i], accounted, floor)
    BY <1>1
  <2> HIDE DEF Body
  <2>2. QED
    BY <1>12, <2>1
<1>15. \A i \in 0..n : i \in {k \in 0..n : g[k] = w[k]}
  <2>1. PICK T : T = {k \in 0..n : g[k] = w[k]}
    OBVIOUS
  <2>2. 0 \in T
    BY <1>2, <1>6, <1>13, <2>1
  <2>3. \A i \in 1..n : i - 1 \in T => i \in T
    BY <1>7, <1>14, <2>1
  <2>4. \A i \in 0..n : i \in T
    BY ONLY <2>2, <2>3, <1>2, IntervalInduction
  <2>5. QED
    BY <2>1, <2>4
<1>16. g[n] = w[n]
  BY <1>2, <1>15
<1>17. QED
  BY <1>1, <1>8, <1>12, <1>16

\* What the first i rounds of a walk have established.
WalkedTo(x, i, c, accounted, floor) ==
    /\ x \in WalkState
    /\ x.advanced # floor => \E j \in 1..i : c[j] = x.advanced /\ c[j] > floor
    /\ \A j \in 1..i : floor < c[j] /\ c[j] <= x.advanced => c[j] \in accounted
    /\ x.stopped => \E j \in 1..i : /\ c[j] > x.advanced /\ c[j] \notin accounted
                                    /\ \A k \in DOMAIN c : c[k] > x.advanced => c[j] <= c[k]
    /\ ~x.stopped => \A j \in 1..i : c[j] <= x.advanced

\* One round establishes it for the next candidate.
LEMMA WalkGoesOn ==
    ASSUME NEW cand \in SUBSET Int, NEW c \in Seq(cand), \A j, k \in DOMAIN c : j < k => c[j] < c[k],
           NEW accounted, NEW floor \in Int, NEW i \in 1..Len(c), NEW x,
           WalkedTo(x, i - 1, c, accounted, floor)
    PROVE  WalkedTo(WalkOne(x, c[i], accounted, floor), i, c, accounted, floor)
<1>1. PICK y : y = WalkOne(x, c[i], accounted, floor)
  OBVIOUS
<1>2. /\ i \in DOMAIN c /\ c[i] \in Int
      /\ \A j \in 1..(i - 1) : j \in DOMAIN c /\ c[j] \in Int /\ c[j] < c[i]
      /\ \A k \in DOMAIN c : c[k] \in Int /\ (k \in 1..(i - 1) \/ k = i \/ c[i] < c[k])
  <2>1. PICK n : n \in Nat /\ DOMAIN c = 1..n /\ i \in 1..n /\ \A k \in 1..n : c[k] \in Int
    BY ListItems
  <2>2. \A j \in 1..(i - 1) : j \in DOMAIN c /\ c[j] < c[i]
    BY <2>1
  <2>3. \A k \in 1..n : k \in 1..(i - 1) \/ k = i \/ (i < k /\ c[i] < c[k])
    BY <2>1
  <2>4. QED
    BY <2>1, <2>2, <2>3
<1>3. x \in WalkState /\ x.advanced \in Int /\ x.stopped \in BOOLEAN
  BY DEF WalkedTo, WalkState
<1>4. /\ x.advanced # floor => \E j \in 1..(i - 1) : c[j] = x.advanced /\ c[j] > floor
      /\ \A j \in 1..(i - 1) : floor < c[j] /\ c[j] <= x.advanced => c[j] \in accounted
      /\ x.stopped => \E j \in 1..(i - 1) :
            /\ c[j] > x.advanced /\ c[j] \notin accounted
            /\ \A k \in DOMAIN c : c[k] > x.advanced => c[j] <= c[k]
      /\ ~x.stopped => \A j \in 1..(i - 1) : c[j] <= x.advanced
  BY DEF WalkedTo
<1>5. x.advanced >= floor /\ 1..i = 1..(i - 1) \cup {i}
  BY <1>2, <1>3, <1>4
<1>6. CASE x.stopped
  <2>1. y = x
    BY <1>1, <1>6 DEF WalkOne
  <2>2. c[i] > x.advanced
    BY <1>2, <1>3, <1>4, <1>6
  <2>3. \A j \in 1..i : floor < c[j] /\ c[j] <= x.advanced => c[j] \in accounted
    BY <1>2, <1>3, <1>4, <1>5, <2>2
  <2>4. WalkedTo(x, i, c, accounted, floor)
    BY <1>3, <1>4, <1>5, <1>6, <2>3 DEF WalkedTo
  <2>5. QED
    BY <1>1, <2>1, <2>4
<1>7. CASE ~x.stopped /\ c[i] <= floor
  <2>1. y = x
    BY <1>1, <1>7 DEF WalkOne
  <2>2. \A j \in 1..i : c[j] <= x.advanced
    BY <1>2, <1>3, <1>4, <1>5, <1>7
  <2>3. \A j \in 1..i : floor < c[j] /\ c[j] <= x.advanced => c[j] \in accounted
    BY <1>2, <1>3, <1>4, <1>5, <1>7
  <2>4. WalkedTo(x, i, c, accounted, floor)
    BY <1>3, <1>4, <1>5, <1>7, <2>2, <2>3 DEF WalkedTo
  <2>5. QED
    BY <1>1, <2>1, <2>4
<1>8. CASE ~x.stopped /\ c[i] > floor /\ c[i] \notin accounted
  <2>1. y = [x EXCEPT !.stopped = TRUE]
    BY <1>1, <1>2, <1>8 DEF WalkOne
  <2>2. y \in WalkState /\ y.advanced = x.advanced /\ y.stopped
    BY <1>3, <2>1 DEF WalkState
  <2>3. c[i] > x.advanced
    BY <1>2, <1>3, <1>4, <1>8
  <2>4. ASSUME NEW k \in DOMAIN c, c[k] > x.advanced PROVE c[i] <= c[k]
    <3>1. k \notin 1..(i - 1)
      BY <1>2, <1>3, <1>4, <1>8, <2>4
    <3>2. k = i \/ c[i] < c[k]
      BY <1>2, <3>1
    <3>3. QED
      BY <1>2, <2>4, <3>2
  <2>5. \A j \in 1..i : floor < c[j] /\ c[j] <= x.advanced => c[j] \in accounted
    BY <1>2, <1>3, <1>4, <1>5, <2>3
  <2>6. x.advanced # floor => \E j \in 1..i : c[j] = x.advanced /\ c[j] > floor
    BY <1>4, <1>5
  <2>7. \E j \in 1..i : /\ c[j] > x.advanced /\ c[j] \notin accounted
                        /\ \A k \in DOMAIN c : c[k] > x.advanced => c[j] <= c[k]
    BY <1>5, <1>8, <2>3, <2>4
  <2>8. WalkedTo(y, i, c, accounted, floor)
    BY <2>2, <2>5, <2>6, <2>7 DEF WalkedTo
  <2>9. QED
    BY <1>1, <2>8
<1>9. CASE ~x.stopped /\ c[i] > floor /\ c[i] \in accounted
  <2>1. y = [x EXCEPT !.advanced = c[i]]
    BY <1>1, <1>2, <1>9 DEF WalkOne
  <2>2. y \in WalkState /\ y.advanced = c[i] /\ ~y.stopped
    BY <1>2, <1>3, <1>9, <2>1 DEF WalkState
  <2>3. \A j \in 1..i : c[j] <= c[i]
    BY <1>2, <1>5
  <2>4. \A j \in 1..i : floor < c[j] /\ c[j] <= c[i] => c[j] \in accounted
    BY <1>2, <1>3, <1>4, <1>5, <1>9
  <2>5. \E j \in 1..i : c[j] = c[i] /\ c[j] > floor
    BY <1>5, <1>9
  <2>6. WalkedTo(y, i, c, accounted, floor)
    BY <2>2, <2>3, <2>4, <2>5 DEF WalkedTo
  <2>7. QED
    BY <1>1, <2>6
<1>10. QED
  BY <1>2, <1>3, <1>6, <1>7, <1>8, <1>9

\* highest_contiguous_uid meets its reference on an ascending list of the candidates.
LEMMA AdvanceIsContiguous ==
    ASSUME NEW cand \in SUBSET Int, NEW c, Lists(c, cand), NEW accounted, NEW floor \in Int
    PROVE  IsHighestContiguous(cand, accounted, floor,
                               highest_contiguous_uid(c, accounted, floor))
<1>1. /\ c \in Seq(cand)
      /\ \A j, k \in DOMAIN c : j < k => c[j] < c[k]
      /\ \A u \in cand : \E j \in DOMAIN c : c[j] = u
  BY DEF Lists
<1>2. PICK g : /\ Walks(g, c, accounted, floor)
               /\ highest_contiguous_uid(c, accounted, floor) = g[Len(c)].advanced
  BY <1>1, AdvanceWalks
<1>3. PICK n : n = Len(c) /\ n \in Nat /\ DOMAIN c = 1..n
  BY <1>1
<1>4. PICK T : T = {i \in 0..n : WalkedTo(g[i], i, c, accounted, floor)}
  OBVIOUS
<1>5. 0 \in T
  <2>1. g[0] = [advanced |-> floor, stopped |-> FALSE]
    BY <1>2 DEF Walks
  <2>2. WalkedTo(g[0], 0, c, accounted, floor)
    BY <2>1 DEF WalkedTo, WalkState
  <2>3. QED
    BY <1>3, <1>4, <2>2
<1>6. ASSUME NEW i \in 1..n, i - 1 \in T PROVE i \in T
  <2>1. PICK x : x = g[i - 1] /\ WalkedTo(x, i - 1, c, accounted, floor)
    BY <1>4, <1>6
  <2>2. g[i] = WalkOne(x, c[i], accounted, floor)
    BY <1>2, <1>3, <2>1 DEF Walks
  <2>3. WalkedTo(WalkOne(x, c[i], accounted, floor), i, c, accounted, floor)
    BY <1>1, <1>3, <2>1, WalkGoesOn
  <2>4. QED
    BY <1>4, <2>2, <2>3
<1>7. n \in T
  <2>1. \A i \in 1..n : i - 1 \in T => i \in T
    BY <1>6
  <2>2. \A i \in 0..n : i \in T
    BY ONLY <1>3, <1>5, <2>1, IntervalInduction
  <2>3. QED
    BY <1>3, <2>2
<1>8. PICK x : x = g[n] /\ WalkedTo(x, n, c, accounted, floor)
  BY <1>4, <1>7
<1>9. PICK adv : /\ adv = highest_contiguous_uid(c, accounted, floor)
                 /\ adv = x.advanced /\ adv \in Int
  BY <1>2, <1>3, <1>8 DEF WalkedTo, WalkState
<1>10. \A j \in 1..n : c[j] \in cand /\ c[j] \in Int
  <2>1. \A j \in 1..n : c[j] \in cand
    BY <1>1, <1>3
  <2>2. QED
    BY <2>1
<1>11. adv = floor \/ (adv \in cand /\ adv > floor)
  BY <1>8, <1>9, <1>10 DEF WalkedTo
<1>12. \A u \in cand : floor < u /\ u <= adv => u \in accounted
  BY <1>1, <1>3, <1>8, <1>9 DEF WalkedTo
<1>13. ASSUME NEW u \in cand, u > adv
       PROVE  \E v \in cand : adv < v /\ v <= u /\ v \notin accounted
  <2>1. PICK k \in 1..n : c[k] = u
    BY <1>1, <1>3
  <2>2. x.stopped
    <3>1. x.stopped \in BOOLEAN
      BY <1>8 DEF WalkedTo, WalkState
    <3>2. ~(c[k] <= x.advanced)
      BY <1>9, <1>10, <1>13, <2>1
    <3>3. QED
      BY <1>8, <3>1, <3>2 DEF WalkedTo
  <2>3. PICK j \in 1..n : /\ c[j] > x.advanced /\ c[j] \notin accounted
                          /\ \A m \in DOMAIN c : c[m] > x.advanced => c[j] <= c[m]
    BY <1>8, <2>2 DEF WalkedTo
  <2>4. QED
    BY <1>3, <1>9, <1>10, <1>13, <2>1, <2>3
<1>14. QED
  BY <1>9, <1>11, <1>12, <1>13 DEF IsHighestContiguous

\* The reference allows one advance.
LEMMA OneAdvance ==
    ASSUME NEW cand \in SUBSET Int, NEW accounted, NEW floor \in Int,
           NEW a \in Int, NEW b \in Int,
           IsHighestContiguous(cand, accounted, floor, a),
           IsHighestContiguous(cand, accounted, floor, b)
    PROVE  ~(a < b)
BY DEF IsHighestContiguous

\* A call of a kind has an input of that kind.
InputOfItsKind ==
    /\ input.kind = "advance" => input \in AdvanceInput
    /\ input.kind = "pack" => input \in PackInput
    /\ input.kind = "chunk" => input \in ChunkInput

\* An extraction is no other call.
LEMMA AttachmentKind ==
    ASSUME NEW a \in AttachmentInput
    PROVE  a.kind = "attachment"
<1>1. ASSUME NEW types, NEW data, a \in Typed(types, data) PROVE a.kind = "attachment"
  BY <1>1 DEF Typed
<1>2. CASE a \in [kind : {"attachment"}, type : {"text", "other"}, size : {"none", "over"}, data : {None}]
  BY <1>2
<1>3. QED
  BY <1>1, <1>2 DEF AttachmentInput

\* PureSpec: a call has an input of its kind, and keeps it.
LEMMA InputsAreGiven == PureSpec => []InputOfItsKind
<1>1. PureInit => InputOfItsKind
  <2>1. input \in AdvanceInput => input.kind = "advance"
    BY DEF AdvanceInput
  <2>2. input \in PackInput => input.kind = "pack"
    BY DEF PackInput
  <2>3. input \in ChunkInput => input.kind = "chunk"
    BY DEF ChunkInput
  <2>4. input \in AttachmentInput => input.kind = "attachment"
    BY AttachmentKind
  <2>5. PureInit => input \in AdvanceInput \/ input \in PackInput \/ input \in ChunkInput
                    \/ input \in AttachmentInput
    BY DEF PureInit
  <2>6. QED
    BY <2>1, <2>2, <2>3, <2>4, <2>5 DEF InputOfItsKind
<1>2. InputOfItsKind /\ [FALSE]_pure_vars => InputOfItsKind'
  <2>1. [FALSE]_pure_vars => input' = input
    BY DEF pure_vars
  <2>2. QED
    BY <2>1 DEF InputOfItsKind, AdvanceInput, PackInput, ChunkInput, Uid
<1>3. QED
  BY <1>1, <1>2, PTL DEF PureSpec

\* AdvanceIsHighestContiguous: for any candidates, accounted UIDs and floor,
\* highest_contiguous_uid returns the one advance its reference allows.
THEOREM AdvancesAreContiguous == PureSpec => []AdvanceIsHighestContiguous
<1>1. InputOfItsKind => AdvanceIsHighestContiguous
  <2> SUFFICES ASSUME InputOfItsKind, input.kind = "advance"
               PROVE  LET adv == highest_contiguous_uid(Ascending(input.cand, MaxUid),
                                                        input.acc, input.floor)
                      IN {a \in 0..MaxUid : IsHighestContiguous(input.cand, input.acc,
                                                                input.floor, a)} = {adv}
    BY DEF AdvanceIsHighestContiguous
  <2>1. PICK cand, accounted, floor :
             cand = input.cand /\ accounted = input.acc /\ floor = input.floor
    OBVIOUS
  <2>2. MaxUid \in Nat /\ cand \in SUBSET (1..MaxUid) /\ floor \in 0..MaxUid
    BY <2>1, PureAssumption DEF InputOfItsKind, AdvanceInput, Uid
  <2>3. cand \in SUBSET Int /\ floor \in Int
    BY <2>2
  <2>4. PICK c : c = Ascending(cand, MaxUid) /\ Lists(c, cand)
    BY <2>2, AscendingLists
  <2>5. PICK adv : /\ adv = highest_contiguous_uid(c, accounted, floor)
                   /\ IsHighestContiguous(cand, accounted, floor, adv)
    BY <2>3, <2>4, AdvanceIsContiguous
  <2>6. adv \in 0..MaxUid
    <3>1. adv = floor \/ adv \in cand
      BY <2>5 DEF IsHighestContiguous
    <3>2. adv \in cand => adv \in 1..MaxUid
      BY <2>2
    <3>3. QED
      BY <2>2, <3>1, <3>2
  <2>7. ASSUME NEW a \in 0..MaxUid, IsHighestContiguous(cand, accounted, floor, a)
        PROVE  a = adv
    <3>1. ~(a < adv) /\ ~(adv < a)
      BY <2>2, <2>3, <2>5, <2>6, <2>7, OneAdvance
    <3>2. QED
      BY <2>2, <2>6, <3>1
  <2>8. {a \in 0..MaxUid : IsHighestContiguous(cand, accounted, floor, a)} = {adv}
    BY <2>5, <2>6, <2>7
  <2>9. QED
    BY <2>1, <2>4, <2>5, <2>8
<1>2. QED
  BY <1>1, InputsAreGiven, PTL

----------------------------------------------------------------------------
(* The batches of a fetch.                                                 *)

\* L is the set of lists over U.
ListsOf(L, U) == L = Seq(U)

\* w[i] is the first i lists of ss, joined.
Joins(w, ss, L) ==
    /\ w \in [0..Len(ss) -> L] /\ w[0] = <<>>
    /\ \A i \in 1..Len(ss) : w[i] = w[i - 1] \o ss[i]

\* FlattenSeq joins all lists.
LEMMA FlattenJoins ==
    ASSUME NEW U, NEW L, ListsOf(L, U), NEW ss \in Seq(L)
    PROVE  \E w : Joins(w, ss, L) /\ FlattenSeq(ss) = w[Len(ss)]
<1> DEFINE Body(g) == [i \in 1..Len(ss) |-> IF i = 1 THEN ss[i] ELSE g[i - 1] \o ss[i]]
<1>1. PICK n : n = Len(ss) /\ n \in Nat
  OBVIOUS
<1>2. \A i \in 1..n : ss[i] \in L
  BY <1>1
<1>3. PICK F : F = [i \in 1..n |-> [x \in L |-> x \o ss[i]]]
  OBVIOUS
<1>4. ASSUME NEW i \in 1..n, NEW x \in L PROVE x \o ss[i] \in L
  <2>1. ss[i] \in L
    BY <1>2
  <2>2. QED
    BY <2>1 DEF ListsOf
<1>5. F \in [1..n -> [L -> L]]
  BY <1>3, <1>4
<1>6. PICK w : w \in [0..n -> L] /\ w[0] = <<>> /\ \A i \in 1..n : w[i] = F[i][w[i - 1]]
  <2>1. <<>> \in L
    BY DEF ListsOf
  <2>2. IsLoop(n, L, <<>>, F)
    BY <1>1, <1>5, <2>1 DEF IsLoop
  <2>3. \E w : Unfolds(n, L, <<>>, F, w)
    BY ONLY <2>2, LoopUnfolds
  <2>4. QED
    BY <2>3 DEF Unfolds
<1>7. ASSUME NEW i \in 1..n PROVE w[i] = w[i - 1] \o ss[i]
  <2>1. w[i - 1] \in L
    BY <1>1, <1>6
  <2>2. F[i][w[i - 1]] = w[i - 1] \o ss[i]
    BY <1>3, <2>1
  <2>3. QED
    BY <1>6, <2>2
<1>8. Joins(w, ss, L)
  BY <1>1, <1>6, <1>7 DEF Joins
<1>9. CASE n = 0
  <2>1. ss = <<>>
    BY <1>1, <1>9, EmptySeq
  <2>2. FlattenSeq(ss) = ss /\ ss = <<>>
    <3>1. FlattenSeq(ss) = IF Len(ss) = 0 THEN ss ELSE FlattenSeq(ss)
      BY DEF FlattenSeq
    <3>2. QED
      BY <1>1, <1>9, <2>1, <3>1
  <2>3. QED
    BY <1>1, <1>6, <1>8, <1>9, <2>2
<1>10. CASE n # 0
  <2>1. PICK v : v = [i \in 1..n |-> w[i]]
    OBVIOUS
  <2>2. ASSUME NEW i \in 1..n PROVE v[i] = IF i = 1 THEN ss[i] ELSE v[i - 1] \o ss[i]
    <3>1. CASE i = 1
      <4>1. w[i] = <<>> \o ss[i] /\ ss[i] \in L
        <5>1. w[i] = w[i - 1] \o ss[i]
          BY <1>7
        <5>2. i - 1 = 0
          BY <3>1
        <5>3. QED
          BY <1>2, <1>6, <5>1, <5>2
      <4>2. <<>> \o ss[i] = ss[i]
        BY <4>1 DEF ListsOf
      <4>3. QED
        BY <2>1, <3>1, <4>1, <4>2
    <3>2. CASE i # 1
      <4>1. i - 1 \in 1..n
        BY <1>1, <3>2
      <4>2. QED
        BY <1>7, <2>1, <3>2, <4>1
    <3>3. QED
      BY <3>1, <3>2
  <2>3. v = Body(v)
    BY <1>1, <2>1, <2>2
  <2>4. FlattenSeq(ss) = (CHOOSE g : g = Body(g))[n]
    BY <1>1, <1>10 DEF FlattenSeq
  <2>5. PICK g : g = Body(g) /\ FlattenSeq(ss) = g[n]
    <3> HIDE DEF Body
    <3>1. PICK g : g = CHOOSE x : x = Body(x)
      OBVIOUS
    <3>2. QED
      BY <2>3, <2>4, <3>1
  <2>6. ASSUME NEW i \in 1..n PROVE g[i] = IF i = 1 THEN ss[i] ELSE g[i - 1] \o ss[i]
    <3>1. Body(g)[i] = IF i = 1 THEN ss[i] ELSE g[i - 1] \o ss[i]
      BY <1>1
    <3> HIDE DEF Body
    <3>2. QED
      BY <2>5, <3>1
  <2>7. PICK T : T = {i \in 0..n : i = 0 \/ g[i] = v[i]}
    OBVIOUS
  <2>8. 0 \in T
    BY <1>1, <2>7
  <2>9. ASSUME NEW i \in 1..n, i - 1 \in T PROVE i \in T
    <3>1. CASE i = 1
      BY <2>2, <2>6, <2>7, <3>1
    <3>2. CASE i # 1
      BY <2>2, <2>6, <2>7, <2>9, <3>2
    <3>3. QED
      BY <3>1, <3>2
  <2>10. n \in T
    <3>1. \A i \in 1..n : i - 1 \in T => i \in T
      BY <2>9
    <3>2. \A i \in 0..n : i \in T
      BY ONLY <1>1, <2>8, <3>1, IntervalInduction
    <3>3. QED
      BY <1>1, <3>2
  <2>11. g[n] = w[n]
    BY <1>1, <1>10, <2>1, <2>7, <2>10
  <2>12. QED
    BY <1>1, <1>8, <2>5, <2>11
<1>11. QED
  BY <1>9, <1>10

\* Another list is joined at the end.
LEMMA FlattenAppend ==
    ASSUME NEW U, NEW L, ListsOf(L, U), NEW ss \in Seq(L), NEW s \in L
    PROVE  FlattenSeq(ss) \in L /\ FlattenSeq(Append(ss, s)) = FlattenSeq(ss) \o s
<1>1. PICK n, tt : n = Len(ss) /\ n \in Nat /\ tt = Append(ss, s)
  <2>1. Len(ss) \in Nat
    OBVIOUS
  <2>2. QED
    BY <2>1
<1>2. tt \in Seq(L) /\ Len(tt) = n + 1 /\ tt[n + 1] = s /\ \A i \in 1..n : tt[i] = ss[i]
  <2>1. tt \in Seq(L) /\ Len(tt) = n + 1
    BY <1>1
  <2>2. tt[n + 1] = s
    BY <1>1
  <2>3. ASSUME NEW i \in 1..n PROVE tt[i] = ss[i]
    BY <1>1
  <2>4. QED
    BY <2>1, <2>2, <2>3
<1>3. PICK w : Joins(w, ss, L) /\ FlattenSeq(ss) = w[n]
  BY <1>1, FlattenJoins
<1>4. PICK v : Joins(v, tt, L) /\ FlattenSeq(tt) = v[n + 1]
  BY <1>2, FlattenJoins
<1>5. /\ w \in [0..n -> L] /\ w[0] = <<>> /\ \A i \in 1..n : w[i] = w[i - 1] \o ss[i]
  BY <1>1, <1>3 DEF Joins
<1>6. /\ v \in [0..(n + 1) -> L] /\ v[0] = <<>>
      /\ \A i \in 1..(n + 1) : v[i] = v[i - 1] \o tt[i]
  BY <1>2, <1>4 DEF Joins
<1>7. PICK T : T = {i \in 0..n : v[i] = w[i]}
  OBVIOUS
<1>8. 0 \in T
  BY <1>1, <1>5, <1>6, <1>7
<1>9. ASSUME NEW i \in 1..n, i - 1 \in T PROVE i \in T
  <2>1. i \in 1..(n + 1) /\ v[i - 1] = w[i - 1] /\ tt[i] = ss[i]
    BY <1>1, <1>2, <1>7, <1>9
  <2>2. w[i] = w[i - 1] \o ss[i]
    BY <1>5
  <2>3. v[i] = v[i - 1] \o tt[i]
    BY <1>6, <2>1
  <2>4. v[i] = w[i]
    BY <2>1, <2>2, <2>3
  <2>5. QED
    BY <1>1, <1>7, <2>4
<1>10. n \in T
  <2>1. \A i \in 1..n : i - 1 \in T => i \in T
    BY <1>9
  <2>2. \A i \in 0..n : i \in T
    BY ONLY <1>1, <1>8, <2>1, IntervalInduction
  <2>3. QED
    BY <1>1, <2>2
<1>11. v[n + 1] = w[n] \o s
  <2>1. n + 1 \in 1..(n + 1) /\ n + 1 - 1 = n
    BY <1>1
  <2>2. v[n + 1] = v[n] \o tt[n + 1]
    BY <1>6, <2>1
  <2>3. QED
    BY <1>2, <1>7, <1>10, <2>2
<1>12. w[n] \in L
  BY <1>1, <1>5
<1>13. QED
  BY <1>1, <1>3, <1>4, <1>11, <1>12

\* w[i] is the sum of the first i numbers of f.
Sums(w, n, f) ==
    w \in [0..n -> Nat] /\ w[0] = 0 /\ \A i \in 1..n : w[i] = w[i - 1] + f[i]

\* v adds up the numbers of h, whatever it is elsewhere; f has the same first n numbers.
AddsUp(v, n, h) == v[0] = 0 /\ \A i \in 1..n : v[i] = v[i - 1] + h[i]
SameUpTo(n, f, h) == \A i \in 1..n : f[i] = h[i]

\* Numbers have a sum.
LEMMA SumsExist ==
    ASSUME NEW n \in Nat, NEW f \in [1..n -> Nat]
    PROVE  \E w : Sums(w, n, f)
<1>1. PICK F : F = [i \in 1..n |-> [x \in Nat |-> x + f[i]]]
  OBVIOUS
<1>2. F \in [1..n -> [Nat -> Nat]]
  BY <1>1
<1>3. IsLoop(n, Nat, 0, F)
  BY <1>2 DEF IsLoop
<1>4. PICK w : Unfolds(n, Nat, 0, F, w)
  BY ONLY <1>3, LoopUnfolds
<1>5. w \in [0..n -> Nat] /\ w[0] = 0 /\ \A i \in 1..n : w[i] = F[i][w[i - 1]]
  BY <1>4 DEF Unfolds
<1>6. ASSUME NEW i \in 1..n PROVE w[i] = w[i - 1] + f[i]
  <2>1. w[i - 1] \in Nat
    BY <1>5
  <2>2. QED
    BY <1>1, <1>5, <2>1
<1>7. QED
  BY <1>5, <1>6 DEF Sums

\* The sums of two lists of numbers agree as long as the lists do.
LEMMA SumsAgree ==
    ASSUME NEW n \in Nat, NEW f, NEW h, SameUpTo(n, f, h),
           NEW w, Sums(w, n, f), NEW v, AddsUp(v, n, h)
    PROVE  v[n] = w[n]
<1>1. /\ w[0] = 0 /\ v[0] = 0
      /\ \A i \in 1..n : w[i] = w[i - 1] + f[i] /\ v[i] = v[i - 1] + h[i] /\ f[i] = h[i]
  BY DEF Sums, AddsUp, SameUpTo
<1>2. PICK T : T = {i \in 0..n : v[i] = w[i]}
  OBVIOUS
<1>3. 0 \in T
  BY <1>1, <1>2
<1>4. \A i \in 1..n : i - 1 \in T => i \in T
  BY <1>1, <1>2
<1>5. \A i \in 0..n : i \in T
  BY ONLY <1>3, <1>4, n \in Nat, IntervalInduction
<1>6. QED
  BY <1>2, <1>5

\* What the UIDs of a batch are charged.
Charges(f, batch) ==
    /\ f \in [1..Len(batch) -> Nat]
    /\ \A i \in 1..Len(batch) : f[i] = SizeOf(batch[i], input.sizes, input.bytes)

\* Charge adds them up.
LEMMA ChargeSums ==
    ASSUME NEW U, NEW batch \in Seq(U), NEW f, Charges(f, batch)
    PROVE  \E w : Sums(w, Len(batch), f) /\ Charge(batch) = w[Len(batch)]
<1> DEFINE Body(g) == [i \in 0..Len(batch) |->
                         IF i = 0 THEN 0
                         ELSE g[i - 1] + SizeOf(batch[i], input.sizes, input.bytes)]
<1>1. PICK n : n = Len(batch) /\ n \in Nat
  <2>1. Len(batch) \in Nat
    OBVIOUS
  <2>2. QED
    BY <2>1
<1>2. f \in [1..n -> Nat] /\ \A i \in 1..n : f[i] = SizeOf(batch[i], input.sizes, input.bytes)
  BY <1>1 DEF Charges
<1>3. PICK w : Sums(w, n, f)
  BY <1>1, <1>2, SumsExist
<1>4. w \in [0..n -> Nat] /\ w[0] = 0 /\ \A i \in 1..n : w[i] = w[i - 1] + f[i]
  BY <1>3 DEF Sums
<1>5. ASSUME NEW i \in 0..n PROVE Body(w)[i] = w[i]
  <2>1. CASE i = 0
    BY <1>1, <1>4, <2>1
  <2>2. CASE i # 0
    <3>1. i \in 1..n
      BY <1>1, <2>2
    <3>2. Body(w)[i] = w[i - 1] + SizeOf(batch[i], input.sizes, input.bytes)
      BY <1>1, <2>2
    <3>3. QED
      BY <1>2, <1>4, <3>1, <3>2
  <2>3. QED
    BY <2>1, <2>2
<1>6. w = Body(w)
  BY <1>1, <1>4, <1>5
<1>7. Charge(batch) = (CHOOSE g : g = Body(g))[n]
  BY <1>1 DEF Charge
<1>8. PICK g : g = Body(g) /\ Charge(batch) = g[n]
  <2> HIDE DEF Body
  <2>1. PICK g : g = CHOOSE x : x = Body(x)
    OBVIOUS
  <2>2. QED
    BY <1>6, <1>7, <2>1
<1>9. g[0] = 0
  BY <1>1, <1>8
<1>10. ASSUME NEW i \in 1..n PROVE g[i] = g[i - 1] + f[i]
  <2>1. Body(g)[i] = g[i - 1] + SizeOf(batch[i], input.sizes, input.bytes)
    BY <1>1
  <2> HIDE DEF Body
  <2>2. QED
    BY <1>2, <1>8, <2>1
<1>11. g[n] = w[n]
  <2> HIDE DEF Body
  <2>1. SameUpTo(n, f, f) /\ AddsUp(g, n, f)
    BY <1>9, <1>10 DEF SameUpTo, AddsUp
  <2>2. QED
    BY <1>1, <1>3, <2>1, SumsAgree
<1>12. QED
  BY <1>1, <1>3, <1>8, <1>11

\* Every UID of PackInput is charged a natural number.
LEMMA SizeIsNatural ==
    ASSUME input \in PackInput, NEW uid
    PROVE  SizeOf(uid, input.sizes, input.bytes) \in Nat
<1>1. MaxBytes \in Nat /\ MaxSize \in Nat
  BY PureAssumption
<1>2. PICK K \in SUBSET Uid :
          input \in [kind : {"pack"}, uids : SUBSET Uid, sizes : [K -> 0..MaxSize],
                     bytes : 1..MaxBytes]
  BY DEF PackInput
<1>3. PICK sizes, bytes : /\ sizes = input.sizes /\ bytes = input.bytes
                          /\ sizes \in [K -> 0..MaxSize] /\ bytes \in 1..MaxBytes
  BY <1>2
<1>4. uid \in K => sizes[uid] \in Nat
  BY <1>1, <1>3
<1>5. bytes \in Nat
  BY <1>1, <1>3
<1>6. SizeOf(uid, sizes, bytes) \in Nat
  BY <1>3, <1>4, <1>5 DEF SizeOf
<1>7. QED
  BY <1>3, <1>6

\* The byte target of PackInput is a natural number.
LEMMA BytesAreNatural ==
    ASSUME input \in PackInput
    PROVE  input.bytes \in Nat
BY PureAssumption DEF PackInput

\* A batch is charged for one more UID.
LEMMA ChargeAppend ==
    ASSUME input \in PackInput, NEW U, NEW batch \in Seq(U), NEW uid \in U
    PROVE  /\ Charge(batch) \in Nat /\ Charge(<<>>) = 0
           /\ Charge(Append(batch, uid))
                = Charge(batch) + SizeOf(uid, input.sizes, input.bytes)
<1>1. PICK n, b : n = Len(batch) /\ n \in Nat /\ b = Append(batch, uid)
  <2>1. Len(batch) \in Nat
    OBVIOUS
  <2>2. QED
    BY <2>1
<1>2. b \in Seq(U) /\ Len(b) = n + 1 /\ b[n + 1] = uid /\ \A i \in 1..n : b[i] = batch[i]
  <2>1. b \in Seq(U) /\ Len(b) = n + 1
    BY <1>1
  <2>2. b[n + 1] = uid
    BY <1>1
  <2>3. ASSUME NEW i \in 1..n PROVE b[i] = batch[i]
    BY <1>1
  <2>4. QED
    BY <2>1, <2>2, <2>3
<1>3. ASSUME NEW s \in Seq(U)
      PROVE  \E f : Charges(f, s)
  <2>1. [i \in 1..Len(s) |-> SizeOf(s[i], input.sizes, input.bytes)] \in [1..Len(s) -> Nat]
    BY SizeIsNatural
  <2>2. Charges([i \in 1..Len(s) |-> SizeOf(s[i], input.sizes, input.bytes)], s)
    BY <2>1 DEF Charges
  <2>3. QED
    BY <2>2
<1>4. Charge(<<>>) = 0
  <2>1. <<>> \in Seq(U) /\ Len(<<>>) = 0
    OBVIOUS
  <2>2. PICK f : Charges(f, <<>>)
    BY <1>3, <2>1
  <2>3. PICK w : Sums(w, 0, f) /\ Charge(<<>>) = w[0]
    BY <2>1, <2>2, ChargeSums
  <2>4. QED
    BY <2>3 DEF Sums
<1>5. PICK f : Charges(f, batch)
  BY <1>3
<1>6. PICK w : Sums(w, n, f) /\ Charge(batch) = w[n]
  BY <1>1, <1>5, ChargeSums
<1>7. PICK h : Charges(h, b)
  BY <1>2, <1>3
<1>8. PICK v : Sums(v, n + 1, h) /\ Charge(b) = v[n + 1]
  BY <1>2, <1>7, ChargeSums
<1>9. v[0] = 0 /\ \A i \in 1..(n + 1) : v[i] = v[i - 1] + h[i]
  BY <1>8 DEF Sums
<1>10. \A i \in 1..n : f[i] = h[i]
  BY <1>1, <1>2, <1>5, <1>7 DEF Charges
<1>11. v[n] = w[n]
  <2>1. SameUpTo(n, f, h) /\ AddsUp(v, n, h)
    BY <1>1, <1>9, <1>10 DEF SameUpTo, AddsUp
  <2>2. QED
    BY <1>1, <1>6, <2>1, SumsAgree
<1>12. v[n + 1] = v[n] + h[n + 1]
  <2>1. PICK m : m = n + 1
    OBVIOUS
  <2>2. m \in 1..(n + 1) /\ m - 1 = n
    BY <1>1, <2>1
  <2>3. v[m] = v[m - 1] + h[m]
    BY <1>9, <2>2
  <2>4. QED
    BY <2>1, <2>2, <2>3
<1>13. h[n + 1] = SizeOf(uid, input.sizes, input.bytes)
  BY <1>1, <1>2, <1>7 DEF Charges
<1>14. w[n] \in Nat
  BY <1>1, <1>6 DEF Sums
<1>15. QED
  BY <1>1, <1>4, <1>6, <1>8, <1>11, <1>12, <1>13, <1>14

\* The batches meet BatchesPackTheUids, but for what they join to.
Fits(batches) ==
    \A k \in DOMAIN batches :
       /\ batches[k] # <<>>
       /\ Len(batches[k]) > 1 => Charge(batches[k]) <= input.bytes
       /\ k < Len(batches) => Charge(Append(batches[k], batches[k + 1][1])) > input.bytes

\* A list of lists with one more at its end.
LEMMA OneMore ==
    ASSUME NEW L, NEW ss \in Seq(L), NEW s \in L
    PROVE  /\ Append(ss, s) \in Seq(L) /\ Len(ss) \in Nat /\ Len(Append(ss, s)) = Len(ss) + 1
           /\ DOMAIN Append(ss, s) = 1..(Len(ss) + 1) /\ DOMAIN ss = 1..Len(ss)
           /\ Append(ss, s)[Len(ss) + 1] = s
           /\ \A k \in 1..Len(ss) : Append(ss, s)[k] = ss[k] /\ ss[k] \in L
<1>1. PICK n, tt : n = Len(ss) /\ tt = Append(ss, s)
  OBVIOUS
<1>2. n \in Nat /\ DOMAIN ss = 1..n
  BY <1>1
<1>3. tt \in Seq(L) /\ Len(tt) = n + 1
  BY <1>1
<1>4. DOMAIN tt = 1..(n + 1)
  BY <1>2, <1>3
<1>5. tt[n + 1] = s
  BY <1>1
<1>6. ASSUME NEW k \in 1..n PROVE tt[k] = ss[k] /\ ss[k] \in L
  <2>1. tt[k] = ss[k]
    BY <1>1
  <2>2. ss[k] \in L
    BY <1>1
  <2>3. QED
    BY <2>1, <2>2
<1>7. QED
  BY <1>1, <1>2, <1>3, <1>4, <1>5, <1>6

\* A full batch is followed by one that begins with the UID that did not fit.
LEMMA FitsGrows ==
    ASSUME input \in PackInput, NEW U, NEW L, ListsOf(L, U), NEW done \in Seq(L), NEW b \in L,
           NEW uid \in U, Fits(Append(done, b)),
           Charge(b) + SizeOf(uid, input.sizes, input.bytes) > input.bytes
    PROVE  Fits(Append(Append(done, b), <<uid>>))
<1>1. PICK n, d, s : n = Len(d) /\ d = Append(done, b) /\ s = <<uid>>
  OBVIOUS
<1>2. s \in L /\ s # <<>> /\ Len(s) = 1 /\ s[1] = uid
  BY <1>1 DEF ListsOf
<1>3. d \in Seq(L) /\ n \in Nat /\ n = Len(done) + 1 /\ d[n] = b /\ n >= 1 /\ DOMAIN d = 1..n
  <2>1. d \in Seq(L) /\ Len(d) = Len(done) + 1 /\ d[Len(done) + 1] = b /\ Len(done) \in Nat
    BY <1>1, OneMore
  <2>2. DOMAIN d = 1..(Len(done) + 1)
    BY <1>1, OneMore
  <2>3. QED
    BY <1>1, <2>1, <2>2
<1>4. PICK e : e = Append(d, s)
  OBVIOUS
<1>5. /\ Len(e) = n + 1 /\ DOMAIN e = 1..(n + 1) /\ e[n + 1] = s
      /\ \A k \in 1..n : e[k] = d[k]
  BY <1>1, <1>2, <1>3, <1>4, OneMore
<1>6. Charge(Append(b, uid)) > input.bytes
  BY ChargeAppend DEF ListsOf
<1>7. ASSUME NEW k \in 1..(n + 1)
      PROVE  /\ e[k] # <<>>
             /\ Len(e[k]) > 1 => Charge(e[k]) <= input.bytes
             /\ k < n + 1 => Charge(Append(e[k], e[k + 1][1])) > input.bytes
  <2>1. CASE k = n + 1
    <3>1. e[k] = s /\ ~(k < n + 1)
      BY <1>3, <1>5, <2>1
    <3>2. ~(Len(s) > 1)
      BY <1>2
    <3>3. QED
      BY <1>2, <3>1, <3>2
  <2>2. CASE k = n
    <3>1. e[k] = b /\ e[k + 1] = s
      BY <1>3, <1>5, <2>2
    <3>2. b # <<>> /\ (Len(b) > 1 => Charge(b) <= input.bytes)
      <4>1. Fits(d) /\ n \in DOMAIN d
        BY <1>1, <1>3
      <4>2. d[n] # <<>> /\ (Len(d[n]) > 1 => Charge(d[n]) <= input.bytes)
        BY <4>1 DEF Fits
      <4>3. QED
        BY <1>3, <4>2
    <3>3. e[k + 1][1] = uid
      BY <1>2, <3>1
    <3>4. QED
      BY <1>6, <3>1, <3>2, <3>3
  <2>3. CASE k < n
    <3>1. k \in 1..n /\ k + 1 \in 1..n /\ e[k] = d[k] /\ e[k + 1] = d[k + 1]
      BY <1>3, <1>5, <2>3
    <3>2. /\ d[k] # <<>> /\ (Len(d[k]) > 1 => Charge(d[k]) <= input.bytes)
          /\ Charge(Append(d[k], d[k + 1][1])) > input.bytes
      BY <1>1, <1>3, <2>3, <3>1 DEF Fits
    <3>3. QED
      BY <3>1, <3>2
  <2>4. QED
    BY <1>3, <2>1, <2>2, <2>3
<1>8. Fits(e)
  BY <1>5, <1>7 DEF Fits
<1>9. QED
  BY <1>1, <1>4, <1>8

\* The last batch takes a UID that fits.
LEMMA FitsExtends ==
    ASSUME input \in PackInput, NEW U, NEW L, ListsOf(L, U), NEW done \in Seq(L), NEW b \in L,
           NEW uid \in U, Fits(Append(done, b)),
           Charge(b) + SizeOf(uid, input.sizes, input.bytes) <= input.bytes
    PROVE  Fits(Append(done, Append(b, uid)))
<1>1. PICK n, d, s : n = Len(done) /\ d = Append(done, b) /\ s = Append(b, uid)
  OBVIOUS
<1>2. PICK e : e = Append(done, s)
  OBVIOUS
<1>3. s \in L
  BY <1>1 DEF ListsOf
<1>4. /\ n \in Nat /\ Len(d) = n + 1 /\ DOMAIN d = 1..(n + 1) /\ d[n + 1] = b
      /\ \A k \in 1..n : d[k] = done[k]
  BY <1>1, OneMore
<1>5. /\ Len(e) = n + 1 /\ DOMAIN e = 1..(n + 1) /\ e[n + 1] = s
      /\ \A k \in 1..n : e[k] = done[k]
  BY <1>1, <1>2, <1>3, OneMore
<1>6. b # <<>>
  <2>1. Fits(d) /\ n + 1 \in DOMAIN d
    BY <1>1, <1>4
  <2>2. d[n + 1] # <<>>
    BY <2>1 DEF Fits
  <2>3. QED
    BY <1>4, <2>2
<1>7. s # <<>> /\ s[1] = b[1]
  <2>1. b \in Seq(U) /\ Len(b) \in Nat \ {0}
    BY <1>6, EmptySeq DEF ListsOf
  <2>2. Len(s) = Len(b) + 1 /\ \A k \in 1..Len(b) : s[k] = b[k]
    BY <1>1, <2>1, OneMore
  <2>3. s # <<>>
    BY <2>1, <2>2
  <2>4. s[1] = b[1]
    BY <2>1, <2>2
  <2>5. QED
    BY <2>3, <2>4
<1>8. Charge(s) <= input.bytes
  BY <1>1, ChargeAppend DEF ListsOf
<1>9. ASSUME NEW k \in 1..(n + 1)
      PROVE  /\ e[k] # <<>>
             /\ Len(e[k]) > 1 => Charge(e[k]) <= input.bytes
             /\ k < n + 1 => Charge(Append(e[k], e[k + 1][1])) > input.bytes
  <2>1. CASE k = n + 1
    BY <1>4, <1>5, <1>7, <1>8, <2>1
  <2>2. CASE k < n + 1
    <3>1. k \in 1..n /\ e[k] = d[k] /\ k + 1 \in 1..(n + 1)
      BY <1>4, <1>5, <2>2
    <3>2. e[k + 1][1] = d[k + 1][1]
      <4>1. CASE k = n
        BY <1>4, <1>5, <1>7, <4>1
      <4>2. CASE k < n
        <5>1. k + 1 \in 1..n
          BY <1>4, <4>2
        <5>2. QED
          BY <1>4, <1>5, <5>1
      <4>3. QED
        BY <1>4, <3>1, <4>1, <4>2
    <3>3. /\ d[k] # <<>> /\ (Len(d[k]) > 1 => Charge(d[k]) <= input.bytes)
          /\ Charge(Append(d[k], d[k + 1][1])) > input.bytes
      BY <1>1, <1>4, <2>2, <3>1 DEF Fits
    <3>4. QED
      BY <3>1, <3>2, <3>3
  <2>3. QED
    BY <1>4, <2>1, <2>2
<1>10. Fits(e)
  BY <1>5, <1>9 DEF Fits
<1>11. QED
  BY <1>1, <1>2, <1>10

\* The states of batch_by_bytes, whose loop packs lists in L.
PackState(L) == [done : Seq(L), current : L, running : Nat]
PackStart == [done |-> <<>>, current |-> <<>>, running |-> 0]

\* One round of it.
PackRound(x, uid) == PackOne(x, uid, SizeOf(uid, input.sizes, input.bytes), input.bytes)

\* g goes through the states of the loop over the list c.
Packs(g, c, L) ==
    /\ g \in [0..Len(c) -> PackState(L)]
    /\ g[0] = PackStart
    /\ \A i \in 1..Len(c) : g[i] = PackRound(g[i - 1], c[i])

\* A round makes a state of a state.
LEMMA PackRoundTyped ==
    ASSUME input \in PackInput, NEW U, NEW L, ListsOf(L, U), NEW x \in PackState(L), NEW uid \in U
    PROVE  PackRound(x, uid) \in PackState(L)
<1>1. PICK size : size = SizeOf(uid, input.sizes, input.bytes) /\ size \in Nat
  BY SizeIsNatural
<1>2. x.done \in Seq(L) /\ x.current \in L /\ x.running \in Nat
  BY DEF PackState
<1>3. Append(x.done, x.current) \in Seq(L)
  BY <1>2
<1>4. Append(x.current, uid) \in L /\ <<uid>> \in L
  BY <1>2 DEF ListsOf
<1>5. CASE x.current # <<>> /\ x.running + size > input.bytes
  <2>1. PackRound(x, uid)
          = [done |-> Append(x.done, x.current), current |-> <<uid>>, running |-> size]
    BY <1>1, <1>5 DEF PackRound, PackOne
  <2>2. QED
    BY <1>1, <1>3, <1>4, <2>1 DEF PackState
<1>6. CASE ~(x.current # <<>> /\ x.running + size > input.bytes)
  <2>1. PackRound(x, uid)
          = [x EXCEPT !.current = Append(@, uid), !.running = @ + size]
    BY <1>1, <1>6 DEF PackRound, PackOne
  <2>2. x = [done |-> x.done, current |-> x.current, running |-> x.running]
    BY DEF PackState
  <2>3. PackRound(x, uid) = [done |-> x.done, current |-> Append(x.current, uid),
                             running |-> x.running + size]
    BY <2>1, <2>2
  <2>4. QED
    BY <1>1, <1>2, <1>4, <2>3 DEF PackState
<1>7. QED
  BY <1>5, <1>6

\* The batches a state stands for.
BatchesOf(x) == IF x.current = <<>> THEN x.done ELSE Append(x.done, x.current)

\* batch_by_bytes returns the batches of the last state of its loop.
LEMMA BatchesArePacked ==
    ASSUME input \in PackInput, NEW U, NEW L, ListsOf(L, U), NEW c \in Seq(U)
    PROVE  \E g : /\ Packs(g, c, L)
                  /\ batch_by_bytes(c, input.sizes, input.bytes) = BatchesOf(g[Len(c)])
<1> DEFINE Body(g) == [i \in 0..Len(c) |->
                         IF i = 0 THEN [done |-> <<>>, current |-> <<>>, running |-> 0]
                         ELSE PackOne(g[i - 1], c[i], SizeOf(c[i], input.sizes, input.bytes),
                                      input.bytes)]
<1>1. PICK n, X : n = Len(c) /\ n \in Nat /\ X = PackState(L)
  <2>1. Len(c) \in Nat
    OBVIOUS
  <2>2. QED
    BY <2>1
<1>2. \A i \in 1..n : c[i] \in U
  BY <1>1
<1>3. PackStart \in X
  <2>1. <<>> \in Seq(L) /\ <<>> \in L
    BY EmptySeq DEF ListsOf
  <2>2. QED
    BY <1>1, <2>1 DEF PackStart, PackState
<1>4. PICK F : F = [i \in 1..n |-> [x \in X |-> PackRound(x, c[i])]]
  OBVIOUS
<1>5. ASSUME NEW i \in 1..n, NEW x \in X PROVE PackRound(x, c[i]) \in X
  BY <1>1, <1>2, PackRoundTyped
<1>6. F \in [1..n -> [X -> X]]
  BY <1>4, <1>5
<1>7. PICK w : w \in [0..n -> X] /\ w[0] = PackStart /\ \A i \in 1..n : w[i] = F[i][w[i - 1]]
  <2>1. IsLoop(n, X, PackStart, F)
    BY <1>1, <1>3, <1>6 DEF IsLoop
  <2>2. \E w : Unfolds(n, X, PackStart, F, w)
    BY ONLY <2>1, LoopUnfolds
  <2>3. QED
    BY <2>2 DEF Unfolds
<1>8. ASSUME NEW i \in 1..n PROVE w[i] = PackRound(w[i - 1], c[i])
  <2>1. w[i - 1] \in X
    BY <1>1, <1>7
  <2>2. F[i][w[i - 1]] = PackRound(w[i - 1], c[i])
    BY <1>4, <2>1
  <2>3. QED
    BY <1>7, <2>2
<1>9. Packs(w, c, L)
  BY <1>1, <1>7, <1>8 DEF Packs
<1>10. ASSUME NEW i \in 0..n PROVE Body(w)[i] = w[i]
  <2>1. CASE i = 0
    BY <1>1, <1>7, <2>1 DEF PackStart
  <2>2. CASE i # 0
    <3>1. i \in 1..n
      BY <1>1, <2>2
    <3>2. Body(w)[i] = PackRound(w[i - 1], c[i])
      BY <1>1, <2>2 DEF PackRound
    <3>3. QED
      BY <1>8, <3>1, <3>2
  <2>3. QED
    BY <2>1, <2>2
<1>11. w = Body(w)
  BY <1>1, <1>7, <1>10
<1>12. batch_by_bytes(c, input.sizes, input.bytes) = BatchesOf((CHOOSE g : g = Body(g))[n])
  BY <1>1 DEF batch_by_bytes, BatchesOf
<1>13. PICK g : /\ g = Body(g)
                /\ batch_by_bytes(c, input.sizes, input.bytes) = BatchesOf(g[n])
  <2> HIDE DEF Body
  <2>1. PICK g : g = CHOOSE x : x = Body(x)
    OBVIOUS
  <2>2. QED
    BY <1>11, <1>12, <2>1
<1>14. g[0] = PackStart
  BY <1>1, <1>13 DEF PackStart
<1>15. ASSUME NEW i \in 1..n PROVE g[i] = PackRound(g[i - 1], c[i])
  <2>1. Body(g)[i] = PackRound(g[i - 1], c[i])
    BY <1>1 DEF PackRound
  <2> HIDE DEF Body
  <2>2. QED
    BY <1>13, <2>1
<1>16. g[n] = w[n]
  <2>1. PICK T : T = {k \in 0..n : g[k] = w[k]}
    OBVIOUS
  <2>2. 0 \in T
    BY <1>1, <1>7, <1>14, <2>1
  <2>3. \A i \in 1..n : i - 1 \in T => i \in T
    BY <1>8, <1>15, <2>1
  <2>4. \A i \in 0..n : i \in T
    BY ONLY <2>2, <2>3, <1>1, IntervalInduction
  <2>5. QED
    BY <1>1, <2>1, <2>4
<1>17. QED
  BY <1>1, <1>9, <1>13, <1>16

\* s is the first i entries of c.
Begins(s, c, i) == Len(s) = i /\ \A k \in 1..i : s[k] = c[k]

\* The batches so far fit, and hold the first i UIDs of c in their order.
PackedTo(x, i, c, L) ==
    /\ x \in PackState(L)
    /\ i > 0 => x.current # <<>> /\ x.running = Charge(x.current)
    /\ i = 0 => x = PackStart
    /\ Fits(BatchesOf(x))
    /\ FlattenSeq(BatchesOf(x)) \in L
    /\ Begins(FlattenSeq(BatchesOf(x)), c, i)

\* One more UID at the end of a list.
LEMMA BeginsGrows ==
    ASSUME NEW U, NEW s \in Seq(U), NEW uid \in U, NEW c, NEW i \in Nat \ {0},
           Begins(s, c, i - 1), c[i] = uid
    PROVE  Append(s, uid) \in Seq(U) /\ Begins(Append(s, uid), c, i)
<1>1. PICK t : t = Append(s, uid)
  OBVIOUS
<1>2. Len(s) = i - 1 /\ \A k \in 1..(i - 1) : s[k] = c[k]
  BY DEF Begins
<1>3. t \in Seq(U) /\ Len(t) = i /\ t[i] = uid /\ \A k \in 1..(i - 1) : t[k] = s[k]
  BY <1>1, <1>2, OneMore
<1>4. ASSUME NEW k \in 1..i PROVE t[k] = c[k]
  <2>1. CASE k = i
    BY <1>3, <2>1
  <2>2. CASE k # i
    BY <1>2, <1>3, <2>2
  <2>3. QED
    BY <2>1, <2>2
<1>5. QED
  BY <1>1, <1>3, <1>4 DEF Begins

\* The joined lists grow with the last of them.
LEMMA FlattenGrows ==
    ASSUME NEW U, NEW L, ListsOf(L, U), NEW ss \in Seq(L), NEW s \in L, NEW uid \in U
    PROVE  /\ FlattenSeq(Append(ss, Append(s, uid))) = Append(FlattenSeq(Append(ss, s)), uid)
           /\ FlattenSeq(Append(ss, <<uid>>)) = Append(FlattenSeq(ss), uid)
           /\ FlattenSeq(ss) \in L
<1>1. PICK f : f = FlattenSeq(ss) /\ f \in L
  BY FlattenAppend
<1>2. f \in Seq(U) /\ s \in Seq(U) /\ Append(s, uid) \in L /\ <<uid>> \in L
  BY <1>1 DEF ListsOf
<1>3. ASSUME NEW t \in L PROVE FlattenSeq(Append(ss, t)) = f \o t
  <2>1. FlattenSeq(Append(ss, t)) = FlattenSeq(ss) \o t
    BY FlattenAppend
  <2>2. QED
    BY <1>1, <2>1
<1>4. /\ FlattenSeq(Append(ss, s)) = f \o s
      /\ FlattenSeq(Append(ss, Append(s, uid))) = f \o Append(s, uid)
  BY ONLY s \in L, <1>2, <1>3, Zenon
<1>5. FlattenSeq(Append(ss, <<uid>>)) = f \o <<uid>>
  BY ONLY <1>2, <1>3, Zenon
<1>6. f \o <<uid>> = Append(f, uid)
  BY <1>2
<1>7. f \o Append(s, uid) = Append(f \o s, uid)
  <2>1. s \o <<uid>> = Append(s, uid) /\ <<uid>> \in Seq(U)
    BY <1>2
  <2>2. (f \o s) \o <<uid>> = f \o (s \o <<uid>>)
    BY <1>2, <2>1, ConcatAssociative
  <2>3. f \o s \in Seq(U)
    BY <1>2
  <2>4. (f \o s) \o <<uid>> = Append(f \o s, uid)
    BY <2>3
  <2>5. QED
    BY <2>1, <2>2, <2>4
<1>8. QED
  BY <1>1, <1>4, <1>5, <1>6, <1>7

\* One round packs the next UID.
LEMMA PackGoesOn ==
    ASSUME input \in PackInput, NEW U, NEW L, ListsOf(L, U), NEW c \in Seq(U),
           NEW i \in 1..Len(c), NEW x, PackedTo(x, i - 1, c, L)
    PROVE  PackedTo(PackRound(x, c[i]), i, c, L)
<1>1. PICK uid, y, size : /\ uid = c[i] /\ y = PackRound(x, uid)
                          /\ size = SizeOf(uid, input.sizes, input.bytes)
  OBVIOUS
<1>2. uid \in U /\ i \in Nat /\ i - 1 \in Nat /\ size \in Nat
  <2>1. uid \in U
    BY <1>1, ElementOfSeq
  <2>2. size \in Nat
    BY <1>1, SizeIsNatural
  <2>3. QED
    BY <2>1, <2>2
<1>3. x \in PackState(L) /\ y \in PackState(L)
  BY <1>1, <1>2, PackRoundTyped DEF PackedTo
<1>4. x.done \in Seq(L) /\ x.current \in L /\ x.running \in Nat
  BY <1>3 DEF PackState
<1>5. PICK f : /\ f = FlattenSeq(BatchesOf(x)) /\ f \in L /\ Begins(f, c, i - 1)
               /\ Append(f, uid) \in L /\ Begins(Append(f, uid), c, i)
  <2>1. PICK f : f = FlattenSeq(BatchesOf(x)) /\ f \in L /\ Begins(f, c, i - 1)
    BY DEF PackedTo
  <2>2. Append(f, uid) \in L /\ Begins(Append(f, uid), c, i)
    BY <1>1, <1>2, <2>1, BeginsGrows DEF ListsOf
  <2>3. QED
    BY <2>1, <2>2
<1>6. SUFFICES /\ y.current # <<>> /\ y.running = Charge(y.current)
               /\ Fits(BatchesOf(y)) /\ FlattenSeq(BatchesOf(y)) = Append(f, uid)
  <2>1. ASSUME y.current # <<>>, y.running = Charge(y.current), Fits(BatchesOf(y)),
               FlattenSeq(BatchesOf(y)) = Append(f, uid)
        PROVE  PackedTo(y, i, c, L)
    <3>1. i # 0
      BY <1>2
    <3>2. QED
      BY <1>3, <1>5, <2>1, <3>1 DEF PackedTo
  <2>2. QED
    BY <1>1, <2>1
<1>7. Charge(x.current) \in Nat /\ Charge(<<>>) = 0
      /\ Charge(Append(x.current, uid)) = Charge(x.current) + size
  BY <1>1, <1>2, <1>4, ChargeAppend DEF ListsOf
<1>8. <<uid>> # <<>> /\ Append(x.current, uid) # <<>> /\ Charge(<<uid>>) = size
  <2>1. <<>> \in Seq(U) /\ Append(<<>>, uid) = <<uid>>
    BY <1>2, EmptySeq
  <2>2. Charge(Append(<<>>, uid)) = Charge(<<>>) + size
    BY <1>1, <1>2, <2>1, ChargeAppend
  <2>3. Append(x.current, uid) # <<>>
    <3>1. PICK s : s = x.current /\ s \in Seq(U)
      BY <1>4 DEF ListsOf
    <3>2. Append(s, uid) # <<>>
      BY <1>2, <3>1, AppendProperties
    <3>3. QED
      BY <3>1, <3>2
  <2>4. QED
    BY <1>2, <1>7, <2>1, <2>2, <2>3
<1>9. ASSUME NEW ss \in Seq(L), NEW s \in L
      PROVE  /\ FlattenSeq(Append(ss, Append(s, uid))) = Append(FlattenSeq(Append(ss, s)), uid)
             /\ FlattenSeq(Append(ss, <<uid>>)) = Append(FlattenSeq(ss), uid)
  BY <1>2, FlattenGrows
<1>10. CASE i = 1
  <2>1. x = PackStart
    BY <1>10 DEF PackedTo
  <2>2. x.done = <<>> /\ x.current = <<>> /\ x.running = 0 /\ BatchesOf(x) = <<>>
    BY <2>1 DEF PackStart, BatchesOf
  <2>3. y = [x EXCEPT !.current = Append(@, uid), !.running = @ + size]
    BY <1>1, <2>2 DEF PackRound, PackOne
  <2>4. y.done = <<>> /\ y.current = <<uid>> /\ y.running = size
    BY <1>2, <2>1, <2>3 DEF PackStart
  <2>5. BatchesOf(y) = <<(<<uid>>)>>
    BY <1>8, <2>4 DEF BatchesOf
  <2>6. Fits(<<(<<uid>>)>>)
    <3>1. PICK b : b = <<(<<uid>>)>>
      OBVIOUS
    <3>2. DOMAIN b = {1} /\ b[1] = <<uid>> /\ Len(b) = 1
      BY <3>1
    <3>3. Len(<<uid>>) = 1
      OBVIOUS
    <3>4. ASSUME NEW k \in DOMAIN b
          PROVE  /\ b[k] # <<>>
                 /\ Len(b[k]) > 1 => Charge(b[k]) <= input.bytes
                 /\ k < Len(b) => Charge(Append(b[k], b[k + 1][1])) > input.bytes
      <4>1. k = 1 /\ b[k] = <<uid>>
        BY <3>2, <3>4
      <4>2. ~(Len(b[k]) > 1)
        BY <3>3, <4>1
      <4>3. ~(k < Len(b))
        BY <3>2, <4>1
      <4>4. QED
        BY <1>8, <4>1, <4>2, <4>3
    <3>5. Fits(b)
      BY <3>4 DEF Fits
    <3>6. QED
      BY <3>1, <3>5
  <2>7. FlattenSeq(BatchesOf(y)) = Append(f, uid)
    <3>1. BatchesOf(y) = Append(<<>>, <<uid>>) /\ <<>> \in Seq(L)
      BY <2>5, EmptySeq
    <3>2. PICK e : e = <<>> /\ e \in Seq(L)
      BY <3>1
    <3>3. FlattenSeq(Append(e, <<uid>>)) = Append(FlattenSeq(e), uid)
      BY ONLY <1>4, <1>9, <3>2, Zenon
    <3>4. QED
      BY <1>5, <2>2, <3>1, <3>2, <3>3
  <2>8. QED
    BY <1>8, <2>4, <2>5, <2>6, <2>7
<1>11. CASE i # 1
  <2>1. x.current # <<>> /\ x.running = Charge(x.current) /\ Fits(BatchesOf(x))
    BY <1>2, <1>11 DEF PackedTo
  <2>2. BatchesOf(x) = Append(x.done, x.current)
    BY <2>1 DEF BatchesOf
  <2>3. CASE x.running + size > input.bytes
    <3>1. y = [done |-> Append(x.done, x.current), current |-> <<uid>>, running |-> size]
      BY <1>1, <2>1, <2>3 DEF PackRound, PackOne
    <3>2. BatchesOf(y) = Append(Append(x.done, x.current), <<uid>>)
      BY <1>8, <3>1 DEF BatchesOf
    <3>3. Fits(BatchesOf(y))
      BY <1>1, <1>2, <1>4, <2>1, <2>2, <2>3, <3>2, FitsGrows
    <3>4. FlattenSeq(BatchesOf(y)) = Append(f, uid)
      <4>1. PICK d : d = Append(x.done, x.current) /\ d \in Seq(L)
        <5>1. Append(x.done, x.current) \in Seq(L)
          BY <1>4, OneMore
        <5>2. QED
          BY <5>1
      <4>2. FlattenSeq(Append(d, <<uid>>)) = Append(FlattenSeq(d), uid)
        BY ONLY <1>4, <1>9, <4>1, Zenon
      <4>3. QED
        BY <1>5, <2>2, <3>2, <4>1, <4>2
    <3>5. QED
      BY <1>8, <3>1, <3>3, <3>4
  <2>4. CASE ~(x.running + size > input.bytes)
    <3>1. y = [x EXCEPT !.current = Append(@, uid), !.running = @ + size]
      BY <1>1, <2>4 DEF PackRound, PackOne
    <3>2. y.done = x.done /\ y.current = Append(x.current, uid) /\ y.running = x.running + size
      BY <1>3, <3>1 DEF PackState
    <3>3. BatchesOf(y) = Append(x.done, Append(x.current, uid))
      BY <1>8, <3>2 DEF BatchesOf
    <3>4. Charge(x.current) + size <= input.bytes
      <4>1. input.bytes \in Nat
        BY BytesAreNatural
      <4>2. QED
        BY <1>2, <1>4, <2>1, <2>4, <4>1
    <3>5. Fits(BatchesOf(y))
      BY <1>1, <1>2, <1>4, <2>1, <2>2, <3>3, <3>4, FitsExtends
    <3>6. FlattenSeq(BatchesOf(y)) = Append(f, uid)
      <4>1. PICK ss, s : ss = x.done /\ s = x.current /\ ss \in Seq(L) /\ s \in L
        BY <1>4
      <4>2. FlattenSeq(Append(ss, Append(s, uid))) = Append(FlattenSeq(Append(ss, s)), uid)
        BY ONLY <1>9, <4>1, Zenon
      <4>3. QED
        BY <1>5, <2>2, <3>3, <4>1, <4>2
    <3>7. QED
      BY <1>7, <1>8, <2>1, <3>2, <3>5, <3>6
  <2>5. QED
    BY <2>3, <2>4
<1>12. QED
  BY <1>10, <1>11

\* The whole list is packed.
LEMMA BatchesPack ==
    ASSUME input \in PackInput, NEW U, NEW L, ListsOf(L, U), NEW c \in Seq(U)
    PROVE  /\ FlattenSeq(batch_by_bytes(c, input.sizes, input.bytes)) = c
           /\ Fits(batch_by_bytes(c, input.sizes, input.bytes))
<1>1. PICK n : n = Len(c) /\ n \in Nat
  <2>1. Len(c) \in Nat
    OBVIOUS
  <2>2. QED
    BY <2>1
<1>2. PICK g : /\ Packs(g, c, L)
               /\ batch_by_bytes(c, input.sizes, input.bytes) = BatchesOf(g[n])
  BY <1>1, BatchesArePacked
<1>3. g[0] = PackStart /\ \A i \in 1..n : g[i] = PackRound(g[i - 1], c[i])
  BY <1>1, <1>2 DEF Packs
<1>4. PICK T : T = {i \in 0..n : PackedTo(g[i], i, c, L)}
  OBVIOUS
<1>5. 0 \in T
  <2>1. PICK e : e = <<>> /\ e \in Seq(L) /\ e \in L /\ Len(e) = 0 /\ DOMAIN e = {}
    <3>1. <<>> \in Seq(L) /\ <<>> \in L
      BY EmptySeq DEF ListsOf
    <3>2. Len(<<>>) = 0 /\ DOMAIN <<>> = {}
      OBVIOUS
    <3>3. QED
      BY <3>1, <3>2
  <2>2. PackStart \in PackState(L) /\ BatchesOf(PackStart) = e
    BY <2>1 DEF PackStart, PackState, BatchesOf
  <2>3. Fits(e)
    BY <2>1 DEF Fits
  <2>4. FlattenSeq(e) = e
    <3>1. FlattenSeq(e) = IF Len(e) = 0 THEN e ELSE FlattenSeq(e)
      BY DEF FlattenSeq
    <3>2. QED
      BY <2>1, <3>1
  <2>5. Begins(e, c, 0)
    BY <2>1 DEF Begins
  <2>6. PackedTo(PackStart, 0, c, L)
    BY <2>1, <2>2, <2>3, <2>4, <2>5 DEF PackedTo
  <2>7. QED
    BY <1>1, <1>3, <1>4, <2>6
<1>6. ASSUME NEW i \in 1..n, i - 1 \in T PROVE i \in T
  <2>1. PICK x : x = g[i - 1] /\ PackedTo(x, i - 1, c, L)
    BY <1>4, <1>6
  <2>2. PackedTo(PackRound(x, c[i]), i, c, L)
    BY <1>1, <2>1, PackGoesOn
  <2>3. QED
    BY <1>3, <1>4, <2>1, <2>2
<1>7. n \in T
  <2>1. \A i \in 1..n : i - 1 \in T => i \in T
    BY <1>6
  <2>2. \A i \in 0..n : i \in T
    BY ONLY <1>1, <1>5, <2>1, IntervalInduction
  <2>3. QED
    BY <1>1, <2>2
<1>8. PICK b : /\ b = BatchesOf(g[n]) /\ Fits(b)
               /\ FlattenSeq(b) \in L /\ Begins(FlattenSeq(b), c, n)
  BY <1>4, <1>7 DEF PackedTo
<1>9. FlattenSeq(b) = c
  <2>1. PICK f : f = FlattenSeq(b) /\ f \in Seq(U) /\ Len(f) = n /\ \A k \in 1..n : f[k] = c[k]
    BY <1>8 DEF ListsOf, Begins
  <2>2. f = c
    BY <1>1, <2>1, SeqEqual
  <2>3. QED
    BY <2>1, <2>2
<1>10. QED
  BY <1>2, <1>8, <1>9

\* BatchesPackTheUids: for any UIDs, sizes and byte target, the batches of
\* batch_by_bytes are the list cut up: none is empty, none of several UIDs
\* passes the target, and none ends while the next UID would have fitted.
THEOREM BatchesHoldTheUids == PureSpec => []BatchesPackTheUids
<1>1. InputOfItsKind => BatchesPackTheUids
  <2> SUFFICES ASSUME InputOfItsKind, input.kind = "pack"
               PROVE  LET uids    == Ascending(input.uids, MaxUid)
                          batches == batch_by_bytes(uids, input.sizes, input.bytes)
                      IN /\ FlattenSeq(batches) = uids
                         /\ \A i \in DOMAIN batches :
                              /\ batches[i] # <<>>
                              /\ Len(batches[i]) > 1 => Charge(batches[i]) <= input.bytes
                              /\ i < Len(batches) =>
                                   Charge(Append(batches[i], batches[i + 1][1])) > input.bytes
    BY DEF BatchesPackTheUids
  <2>1. input \in PackInput
    BY DEF InputOfItsKind
  <2>2. MaxUid \in Nat /\ input.uids \in SUBSET (1..MaxUid)
    BY <2>1, PureAssumption DEF PackInput, Uid
  <2>3. PICK c, L : /\ c = Ascending(input.uids, MaxUid) /\ c \in Seq(input.uids)
                    /\ ListsOf(L, input.uids)
    <3>1. Lists(Ascending(input.uids, MaxUid), input.uids)
      BY <2>2, AscendingLists
    <3>2. QED
      BY <3>1 DEF Lists, ListsOf
  <2>4. PICK b : /\ b = batch_by_bytes(c, input.sizes, input.bytes)
                 /\ FlattenSeq(b) = c /\ Fits(b)
    BY <2>1, <2>3, BatchesPack
  <2>5. QED
    BY <2>3, <2>4 DEF Fits
<1>2. QED
  BY <1>1, InputsAreGiven, PTL

----------------------------------------------------------------------------
(* The sequence sets of a fetch.                                           *)

\* The pairs of UIDs, the first and the last of a run.
Atoms == Int \X Int

\* One round of _compress_uid_ranges keeps its runs a list of atoms.
LEMMA ExtendRunsTyped ==
    ASSUME NEW r \in Seq(Atoms), NEW uid \in Int
    PROVE  ExtendRuns(r, uid) \in Seq(Atoms)
<1>1. PICK n : n = Len(r) /\ n \in Nat
  <2>1. Len(r) \in Nat
    OBVIOUS
  <2>2. QED
    BY <2>1
<1>2. <<uid, uid>> \in Atoms
  BY DEF Atoms
<1>3. CASE n > 0 /\ uid = r[n][2] + 1
  <2>1. ExtendRuns(r, uid) = [r EXCEPT ![n] = <<r[n][1], uid>>]
    BY <1>1, <1>3 DEF ExtendRuns
  <2>2. n \in 1..Len(r) /\ r[n] \in Atoms
    BY <1>1, <1>3, ElementOfSeq
  <2>3. <<r[n][1], uid>> \in Atoms
    BY <2>2 DEF Atoms
  <2>4. [r EXCEPT ![n] = <<r[n][1], uid>>] \in Seq(Atoms)
    BY ONLY r \in Seq(Atoms), <2>2, <2>3, ExceptSeq
  <2>5. QED
    BY <2>1, <2>4
<1>4. CASE ~(n > 0 /\ uid = r[n][2] + 1)
  <2>1. ExtendRuns(r, uid) = Append(r, <<uid, uid>>)
    BY <1>1, <1>4 DEF ExtendRuns
  <2>2. Append(r, <<uid, uid>>) \in Seq(Atoms)
    BY <1>2, AppendProperties
  <2>3. QED
    BY <2>1, <2>2
<1>5. QED
  BY <1>3, <1>4

\* g goes through the runs of the first UIDs of c.
Compresses(g, c) ==
    /\ g \in [0..Len(c) -> Seq(Atoms)]
    /\ g[0] = <<>>
    /\ \A i \in 1..Len(c) : g[i] = ExtendRuns(g[i - 1], c[i])

\* CompressUidRanges is where that ends.
LEMMA RunsAreCompressed ==
    ASSUME NEW cand \in SUBSET Int, NEW c \in Seq(cand)
    PROVE  \E g : Compresses(g, c) /\ CompressUidRanges(c) = g[Len(c)]
<1> DEFINE Body(g) == [i \in 0..Len(c) |->
                         IF i = 0 THEN <<>> ELSE ExtendRuns(g[i - 1], c[i])]
<1>1. PICK n, X : n = Len(c) /\ n \in Nat /\ X = Seq(Atoms)
  <2>1. Len(c) \in Nat
    OBVIOUS
  <2>2. QED
    BY <2>1
<1>2. \A i \in 1..n : c[i] \in Int
  BY <1>1, ListItems
<1>3. <<>> \in X
  BY <1>1, EmptySeq
<1>4. PICK F : F = [i \in 1..n |-> [x \in X |-> ExtendRuns(x, c[i])]]
  OBVIOUS
<1>5. ASSUME NEW i \in 1..n, NEW x \in X PROVE ExtendRuns(x, c[i]) \in X
  BY <1>1, <1>2, ExtendRunsTyped
<1>6. F \in [1..n -> [X -> X]]
  BY <1>4, <1>5
<1>7. PICK w : w \in [0..n -> X] /\ w[0] = <<>> /\ \A i \in 1..n : w[i] = F[i][w[i - 1]]
  <2>1. IsLoop(n, X, <<>>, F)
    BY <1>1, <1>3, <1>6 DEF IsLoop
  <2>2. \E w : Unfolds(n, X, <<>>, F, w)
    BY ONLY <2>1, LoopUnfolds
  <2>3. QED
    BY <2>2 DEF Unfolds
<1>8. ASSUME NEW i \in 1..n PROVE w[i] = ExtendRuns(w[i - 1], c[i])
  <2>1. w[i - 1] \in X
    BY <1>1, <1>7
  <2>2. F[i][w[i - 1]] = ExtendRuns(w[i - 1], c[i])
    BY <1>4, <2>1
  <2>3. QED
    BY <1>7, <2>2
<1>9. Compresses(w, c)
  BY <1>1, <1>7, <1>8 DEF Compresses
<1>10. ASSUME NEW i \in 0..n PROVE Body(w)[i] = w[i]
  <2>1. CASE i = 0
    BY <1>1, <1>7, <2>1
  <2>2. CASE i # 0
    <3>1. i \in 1..n
      BY <1>1, <2>2
    <3>2. Body(w)[i] = ExtendRuns(w[i - 1], c[i])
      BY <1>1, <2>2
    <3>3. QED
      BY <1>8, <3>1, <3>2
  <2>3. QED
    BY <2>1, <2>2
<1>11. w = Body(w)
  BY <1>1, <1>7, <1>10
<1>12. CompressUidRanges(c) = (CHOOSE g : g = Body(g))[n]
  BY <1>1 DEF CompressUidRanges
<1>13. PICK g : g = Body(g) /\ CompressUidRanges(c) = g[n]
  <2> HIDE DEF Body
  <2>1. PICK g : g = CHOOSE x : x = Body(x)
    OBVIOUS
  <2>2. QED
    BY <1>11, <1>12, <2>1
<1>14. g[0] = <<>>
  BY <1>1, <1>13
<1>15. ASSUME NEW i \in 1..n PROVE g[i] = ExtendRuns(g[i - 1], c[i])
  <2>1. Body(g)[i] = ExtendRuns(g[i - 1], c[i])
    BY <1>1
  <2> HIDE DEF Body
  <2>2. QED
    BY <1>13, <2>1
<1>16. g[n] = w[n]
  <2>1. PICK T : T = {k \in 0..n : g[k] = w[k]}
    OBVIOUS
  <2>2. 0 \in T
    BY <1>1, <1>7, <1>14, <2>1
  <2>3. \A i \in 1..n : i - 1 \in T => i \in T
    BY <1>8, <1>15, <2>1
  <2>4. \A i \in 0..n : i \in T
    BY ONLY <2>2, <2>3, <1>1, IntervalInduction
  <2>5. QED
    BY <1>1, <2>1, <2>4
<1>17. QED
  BY <1>1, <1>9, <1>13, <1>16

\* a and b are the ends of the runs of r.
Ends(r, n, a, b) ==
    /\ n = Len(r) /\ a \in [1..n -> Int] /\ b \in [1..n -> Int]
    /\ \A k \in 1..n : r[k][1] = a[k] /\ r[k][2] = b[k]

\* A list of atoms has ends.
LEMMA AtomsHaveEnds ==
    ASSUME NEW r \in Seq(Atoms)
    PROVE  /\ Len(r) \in Nat
           /\ Ends(r, Len(r), [k \in 1..Len(r) |-> r[k][1]], [k \in 1..Len(r) |-> r[k][2]])
<1>1. PICK n : n = Len(r) /\ n \in Nat
  <2>1. Len(r) \in Nat
    OBVIOUS
  <2>2. QED
    BY <2>1
<1>2. ASSUME NEW k \in 1..n PROVE r[k][1] \in Int /\ r[k][2] \in Int
  <2>1. r[k] \in Atoms
    BY <1>1, ElementOfSeq
  <2>2. QED
    BY <2>1 DEF Atoms
<1>3. [k \in 1..n |-> r[k][1]] \in [1..n -> Int] /\ [k \in 1..n |-> r[k][2]] \in [1..n -> Int]
  BY <1>2
<1>4. QED
  BY <1>1, <1>3 DEF Ends

\* Disjoint runs that do not touch, and the UIDs in them.
Apart(n, a, b) ==
    /\ \A k \in 1..n : a[k] <= b[k]
    /\ \A k, l \in 1..n : k < l => b[k] + 1 < a[l]
Within(n, a, b, u) == \E k \in 1..n : a[k] <= u /\ u <= b[k]

\* All runs end by the last one.
LEMMA LastEndsLast ==
    ASSUME NEW n \in Nat \ {0}, NEW a \in [1..n -> Int], NEW b \in [1..n -> Int], Apart(n, a, b)
    PROVE  \A k \in 1..n : b[k] <= b[n]
<1>1. ASSUME NEW k \in 1..n PROVE b[k] <= b[n]
  <2>1. CASE k = n
    BY <2>1
  <2>2. CASE k # n
    <3>1. b[k] + 1 < a[n] /\ a[n] <= b[n]
      BY <2>2 DEF Apart
    <3>2. b[k] \in Int /\ a[n] \in Int /\ b[n] \in Int
      OBVIOUS
    <3>3. QED
      BY <3>1, <3>2
  <2>3. QED
    BY <2>1, <2>2
<1>2. QED
  BY <1>1

\* The last run is extended by the UID after it.
LEMMA LastRunExtends ==
    ASSUME NEW n \in Nat \ {0}, NEW a \in [1..n -> Int], NEW b \in [1..n -> Int], Apart(n, a, b),
           NEW q \in [1..n -> Int], q[n] = b[n] + 1, \A k \in 1..(n - 1) : q[k] = b[k]
    PROVE  /\ Apart(n, a, q)
           /\ \A u \in Int : Within(n, a, q, u) <=> Within(n, a, b, u) \/ u = b[n] + 1
<1>1. ASSUME NEW k \in 1..n PROVE a[k] <= q[k] /\ (k # n => q[k] = b[k])
  <2>1. a[k] <= b[k] /\ a[k] \in Int /\ b[k] \in Int
    BY DEF Apart
  <2>2. CASE k = n
    BY <2>1, <2>2
  <2>3. CASE k # n
    <3>1. k \in 1..(n - 1)
      BY <2>3
    <3>2. QED
      BY <2>1, <3>1
  <2>4. QED
    BY <2>2, <2>3
<1>2. ASSUME NEW k \in 1..n, NEW l \in 1..n, k < l PROVE q[k] + 1 < a[l]
  <2>1. k # n
    BY <1>2
  <2>2. QED
    BY <1>1, <1>2, <2>1 DEF Apart
<1>3. ASSUME NEW u \in Int PROVE Within(n, a, q, u) <=> Within(n, a, b, u) \/ u = b[n] + 1
  <2>1. ASSUME NEW k \in 1..n, a[k] <= u, u <= q[k] PROVE Within(n, a, b, u) \/ u = b[n] + 1
    <3>1. CASE k # n
      BY <1>1, <2>1, <3>1 DEF Within
    <3>2. CASE k = n
      <4>1. b[n] \in Int /\ (u <= b[n] \/ u = b[n] + 1)
        BY <2>1, <3>2
      <4>2. QED
        BY <2>1, <3>2, <4>1 DEF Within
    <3>3. QED
      BY <3>1, <3>2
  <2>2. ASSUME NEW k \in 1..n, a[k] <= u, u <= b[k] PROVE Within(n, a, q, u)
    <3>1. u <= q[k]
      <4>1. CASE k = n
        <5>1. b[n] \in Int
          OBVIOUS
        <5>2. QED
          BY <2>2, <4>1, <5>1
      <4>2. CASE k # n
        BY <1>1, <2>2, <4>2
      <4>3. QED
        BY <4>1, <4>2
    <3>2. QED
      BY <2>2, <3>1 DEF Within
  <2>3. ASSUME u = b[n] + 1 PROVE Within(n, a, q, u)
    <3>1. n \in 1..n /\ a[n] <= u /\ u <= q[n]
      BY <1>1, <2>3
    <3>2. QED
      BY <3>1 DEF Within
  <2>4. QED
    BY <2>1, <2>2, <2>3 DEF Within
<1>4. QED
  BY <1>1, <1>2, <1>3 DEF Apart

\* p and q are the ends a and b and those of a run of one UID past them all.
NewRun(n, a, b, uid, p, q) ==
    /\ n \in Nat /\ a \in [1..n -> Int] /\ b \in [1..n -> Int] /\ uid \in Int
    /\ p \in [1..(n + 1) -> Int] /\ q \in [1..(n + 1) -> Int]
    /\ p[n + 1] = uid /\ q[n + 1] = uid
    /\ \A k \in 1..n : p[k] = a[k] /\ q[k] = b[k] /\ b[k] + 1 < uid

\* A run of one UID is added past them all.
LEMMA NewRunIsApart ==
    ASSUME NEW n, NEW a, NEW b, NEW uid, NEW p, NEW q, NewRun(n, a, b, uid, p, q),
           Apart(n, a, b)
    PROVE  /\ Apart(n + 1, p, q)
           /\ \A u \in Int : Within(n + 1, p, q, u) <=> Within(n, a, b, u) \/ u = uid
<1> /\ n \in Nat /\ a \in [1..n -> Int] /\ b \in [1..n -> Int] /\ uid \in Int
    /\ p \in [1..(n + 1) -> Int] /\ q \in [1..(n + 1) -> Int]
    /\ p[n + 1] = uid /\ q[n + 1] = uid
    /\ \A k \in 1..n : p[k] = a[k] /\ q[k] = b[k] /\ b[k] + 1 < uid
  BY DEF NewRun
<1>1. ASSUME NEW k \in 1..(n + 1) PROVE k = n + 1 \/ k \in 1..n
  OBVIOUS
<1>2. ASSUME NEW k \in 1..(n + 1) PROVE p[k] <= q[k]
  <2>1. CASE k = n + 1
    BY <2>1
  <2>2. CASE k \in 1..n
    BY <2>2 DEF Apart
  <2>3. QED
    BY <1>1, <2>1, <2>2
<1>3. ASSUME NEW k \in 1..(n + 1), NEW l \in 1..(n + 1), k < l PROVE q[k] + 1 < p[l]
  <2>1. k \in 1..n /\ q[k] = b[k]
    BY <1>3
  <2>2. CASE l = n + 1
    BY <2>1, <2>2
  <2>3. CASE l \in 1..n
    <3>1. p[l] = a[l] /\ b[k] + 1 < a[l]
      BY <1>3, <2>1, <2>3 DEF Apart
    <3>2. QED
      BY <2>1, <3>1
  <2>4. QED
    BY <1>1, <2>2, <2>3
<1>4. ASSUME NEW u \in Int PROVE Within(n + 1, p, q, u) <=> Within(n, a, b, u) \/ u = uid
  <2>1. ASSUME NEW k \in 1..(n + 1), p[k] <= u, u <= q[k] PROVE Within(n, a, b, u) \/ u = uid
    <3>1. CASE k = n + 1
      BY <2>1, <3>1
    <3>2. CASE k \in 1..n
      <4>1. a[k] <= u /\ u <= b[k]
        BY <2>1, <3>2
      <4>2. QED
        BY <3>2, <4>1 DEF Within
    <3>3. QED
      BY <1>1, <3>1, <3>2
  <2>2. ASSUME NEW k \in 1..n, a[k] <= u, u <= b[k] PROVE Within(n + 1, p, q, u)
    <3>1. k \in 1..(n + 1) /\ p[k] <= u /\ u <= q[k]
      BY <2>2
    <3>2. QED
      BY <3>1 DEF Within
  <2>3. ASSUME u = uid PROVE Within(n + 1, p, q, u)
    <3>1. PICK m : m = n + 1 /\ m \in 1..(n + 1)
      OBVIOUS
    <3>2. p[m] <= u /\ u <= q[m]
      BY <2>3, <3>1
    <3>3. QED
      BY <3>1, <3>2 DEF Within
  <2>4. QED
    BY <2>1, <2>2, <2>3 DEF Within
<1>5. QED
  BY <1>2, <1>3, <1>4 DEF Apart

\* The runs, with ends a and b, are those of the first i UIDs of c.
RunsOf(r, n, a, b, i, c) ==
    /\ Ends(r, n, a, b) /\ Apart(n, a, b)
    /\ \A u \in Int : Within(n, a, b, u) <=> \E j \in 1..i : c[j] = u
    /\ i > 0 => n > 0 /\ b[n] = c[i]
    /\ i = 0 => n = 0

RunsTo(r, i, c) == r \in Seq(Atoms) /\ \E a, b : RunsOf(r, Len(r), a, b, i, c)

\* s has the runs of r, extended or added to, for one more UID.
OneUidMore(s, m, p, q, n, a, b, uid) ==
    /\ Ends(s, m, p, q) /\ Apart(m, p, q)
    /\ \A u \in Int : Within(m, p, q, u) <=> Within(n, a, b, u) \/ u = uid
    /\ m > 0 /\ q[m] = uid

\* One round brings the runs to the next UID.
LEMMA RunsGoOn ==
    ASSUME NEW cand \in SUBSET Int, NEW c \in Seq(cand),
           \A j, k \in DOMAIN c : j < k => c[j] < c[k],
           NEW i \in 1..Len(c), NEW r, RunsTo(r, i - 1, c)
    PROVE  RunsTo(ExtendRuns(r, c[i]), i, c)
<1>1. PICK n, uid, s : /\ n = Len(r) /\ uid = c[i] /\ s = ExtendRuns(r, uid)
                       /\ n \in Nat /\ uid \in Int
  <2>1. Len(r) \in Nat
    BY DEF RunsTo
  <2>2. c[i] \in Int
    BY ListItems
  <2>3. QED
    BY <2>1, <2>2
<1>2. i \in Nat \ {0} /\ i - 1 \in Nat
  <2>1. Len(c) \in Nat
    OBVIOUS
  <2>2. QED
    BY <2>1
<1>3. r \in Seq(Atoms)
  BY DEF RunsTo
<1>4. PICK a, b : RunsOf(r, n, a, b, i - 1, c)
  BY <1>1 DEF RunsTo
<1>5. /\ a \in [1..n -> Int] /\ b \in [1..n -> Int]
      /\ \A k \in 1..n : r[k][1] = a[k] /\ r[k][2] = b[k]
      /\ Apart(n, a, b)
  BY <1>4 DEF RunsOf, Ends
<1>6. \A u \in Int : Within(n, a, b, u) <=> \E j \in 1..(i - 1) : c[j] = u
  BY <1>4 DEF RunsOf
<1>7. s \in Seq(Atoms)
  BY <1>1, <1>3, ExtendRunsTyped
<1>8. ASSUME NEW m, NEW p, NEW q, OneUidMore(s, m, p, q, n, a, b, uid)
      PROVE  RunsTo(s, i, c)
  <2>1. /\ Ends(s, m, p, q) /\ Apart(m, p, q)
        /\ \A u \in Int : Within(m, p, q, u) <=> Within(n, a, b, u) \/ u = uid
        /\ m > 0 /\ q[m] = uid
    BY <1>8 DEF OneUidMore
  <2>2. \A u \in Int : (\E j \in 1..i : c[j] = u) <=> (\E j \in 1..(i - 1) : c[j] = u) \/ u = uid
    BY <1>1, <1>2
  <2>3. \A u \in Int : Within(m, p, q, u) <=> \E j \in 1..i : c[j] = u
    BY <1>6, <2>1, <2>2
  <2>4. i # 0
    BY <1>2
  <2>5. RunsOf(s, m, p, q, i, c)
    BY <1>1, <2>1, <2>3, <2>4 DEF RunsOf
  <2>6. m = Len(s)
    BY <2>1 DEF Ends
  <2>7. QED
    BY <1>7, <2>5, <2>6 DEF RunsTo
<1>9. CASE n > 0 /\ uid = r[n][2] + 1
  <2>1. uid = b[n] + 1 /\ n \in 1..n /\ n \in 1..Len(r) /\ r[n] \in Atoms
    <3>1. n \in 1..n
      BY <1>1, <1>9
    <3>2. r[n] \in Atoms
      BY <1>1, <1>3, <3>1, ElementOfSeq
    <3>3. r[n][2] = b[n]
      BY <1>5, <3>1
    <3>4. QED
      BY <1>1, <1>9, <3>1, <3>2, <3>3
  <2>2. PICK e : e = <<r[n][1], uid>> /\ e \in Atoms /\ e[1] = a[n] /\ e[2] = uid
    <3>1. r[n][1] = a[n] /\ a[n] \in Int
      BY <1>5, <2>1
    <3>2. <<r[n][1], uid>> \in Atoms
      BY <1>1, <3>1 DEF Atoms
    <3>3. QED
      BY <3>1, <3>2
  <2>3. s = [r EXCEPT ![n] = e]
    BY <1>1, <1>9, <2>2 DEF ExtendRuns
  <2>4. Len(s) = n /\ \A k \in 1..n : s[k] = IF k = n THEN e ELSE r[k]
    <3>1. /\ Len([r EXCEPT ![n] = e]) = Len(r)
          /\ \A k \in 1..Len(r) : [r EXCEPT ![n] = e][k] = IF k = n THEN e ELSE r[k]
      BY ONLY <1>3, <2>1, <2>2, ExceptSeq
    <3>2. QED
      BY <1>1, <2>3, <3>1
  <2>5. PICK q : q = [k \in 1..n |-> IF k = n THEN uid ELSE b[k]]
    OBVIOUS
  <2>6. q \in [1..n -> Int] /\ q[n] = uid /\ \A k \in 1..(n - 1) : q[k] = b[k]
    BY <1>1, <1>5, <2>1, <2>5
  <2>7. Ends(s, n, a, q)
    <3>1. ASSUME NEW k \in 1..n PROVE s[k][1] = a[k] /\ s[k][2] = q[k]
      <4>1. CASE k = n
        BY <2>2, <2>4, <2>6, <4>1
      <4>2. CASE k # n
        <5>1. s[k] = r[k] /\ q[k] = b[k]
          BY <2>4, <2>5, <4>2
        <5>2. QED
          BY <1>5, <5>1
      <4>3. QED
        BY <4>1, <4>2
    <3>2. QED
      BY <1>5, <2>4, <2>6, <3>1 DEF Ends
  <2>8. /\ Apart(n, a, q)
        /\ \A u \in Int : Within(n, a, q, u) <=> Within(n, a, b, u) \/ u = uid
    <3>1. n \in Nat \ {0} /\ q[n] = b[n] + 1
      BY <1>1, <1>9, <2>1, <2>6
    <3>2. /\ Apart(n, a, q)
          /\ \A u \in Int : Within(n, a, q, u) <=> Within(n, a, b, u) \/ u = b[n] + 1
      BY <1>5, <2>6, <3>1, LastRunExtends
    <3>3. QED
      BY <2>1, <3>2
  <2>9. OneUidMore(s, n, a, q, n, a, b, uid)
    BY <1>9, <2>6, <2>7, <2>8 DEF OneUidMore
  <2>10. QED
    BY <1>1, <1>8, <2>9
<1>10. CASE ~(n > 0 /\ uid = r[n][2] + 1)
  <2>1. PICK e : e = <<uid, uid>> /\ e \in Atoms /\ e[1] = uid /\ e[2] = uid
    <3>1. <<uid, uid>> \in Atoms
      BY <1>1 DEF Atoms
    <3>2. QED
      BY <3>1
  <2>2. s = Append(r, e)
    BY <1>1, <1>10, <2>1 DEF ExtendRuns
  <2>3. Len(s) = n + 1 /\ s[n + 1] = e /\ \A k \in 1..n : s[k] = r[k]
    BY <1>1, <1>3, <2>1, <2>2, AppendProperties
  <2>4. ASSUME NEW k \in 1..n PROVE b[k] + 1 < uid
    <3>1. n \in Nat \ {0} /\ n \in 1..n
      BY <1>1
    <3>2. i # 1
      <4>1. i = 1 => n = 0
        BY <1>4 DEF RunsOf
      <4>2. QED
        BY <3>1, <4>1
    <3>3. b[n] = c[i - 1]
      BY <1>2, <1>4, <3>2 DEF RunsOf
    <3>4. c[i - 1] < c[i]
      BY <1>2, <3>2, ListItems
    <3>5. r[n][2] = b[n]
      BY <1>5, <3>1
    <3>6. b[n] < uid /\ uid # b[n] + 1
      BY <1>1, <1>10, <3>1, <3>3, <3>4, <3>5
    <3>7. b[k] <= b[n]
      BY <1>5, <3>1, LastEndsLast
    <3>8. PICK x, y : x = b[k] /\ y = b[n] /\ x \in Int /\ y \in Int
      <4>1. b[k] \in Int /\ b[n] \in Int
        BY <1>5, <3>1
      <4>2. QED
        BY <4>1
    <3>9. uid \in Int /\ y < uid /\ uid # y + 1 /\ x <= y
      BY <1>1, <3>6, <3>7, <3>8
    <3>10. x + 1 < uid
      BY ONLY <3>8, <3>9
    <3>11. QED
      BY <3>8, <3>10
  <2>5. PICK p, q : /\ p = [k \in 1..(n + 1) |-> IF k = n + 1 THEN uid ELSE a[k]]
                    /\ q = [k \in 1..(n + 1) |-> IF k = n + 1 THEN uid ELSE b[k]]
    OBVIOUS
  <2>6. /\ p \in [1..(n + 1) -> Int] /\ q \in [1..(n + 1) -> Int]
        /\ p[n + 1] = uid /\ q[n + 1] = uid
        /\ \A k \in 1..n : p[k] = a[k] /\ q[k] = b[k]
    <3>1. ASSUME NEW k \in 1..(n + 1)
          PROVE  /\ (IF k = n + 1 THEN uid ELSE a[k]) \in Int
                 /\ (IF k = n + 1 THEN uid ELSE b[k]) \in Int
      <4>1. k # n + 1 => k \in 1..n
        BY <1>1
      <4>2. QED
        BY <1>1, <1>5, <4>1
    <3>2. n + 1 \in 1..(n + 1) /\ \A k \in 1..n : k \in 1..(n + 1) /\ k # n + 1
      BY <1>1
    <3>3. QED
      BY <2>5, <3>1, <3>2
  <2>7. Ends(s, n + 1, p, q)
    <3>1. ASSUME NEW k \in 1..(n + 1) PROVE s[k][1] = p[k] /\ s[k][2] = q[k]
      <4>1. CASE k = n + 1
        BY <2>1, <2>3, <2>6, <4>1
      <4>2. CASE k # n + 1
        <5>1. k \in 1..n
          BY <1>1, <4>2
        <5>2. QED
          BY <1>5, <2>3, <2>6, <5>1
      <4>3. QED
        BY <4>1, <4>2
    <3>2. QED
      BY <2>3, <2>6, <3>1 DEF Ends
  <2>8. /\ Apart(n + 1, p, q)
        /\ \A u \in Int : Within(n + 1, p, q, u) <=> Within(n, a, b, u) \/ u = uid
    <3>1. NewRun(n, a, b, uid, p, q)
      BY <1>1, <1>5, <2>4, <2>6 DEF NewRun
    <3>2. QED
      BY <1>5, <3>1, NewRunIsApart
  <2>9. n + 1 > 0
    BY <1>1
  <2>10. OneUidMore(s, n + 1, p, q, n, a, b, uid)
    BY <2>6, <2>7, <2>8, <2>9 DEF OneUidMore
  <2>11. QED
    BY <1>1, <1>8, <2>10
<1>11. QED
  BY <1>9, <1>10

\* _compress_uid_ranges names the UIDs of its list, in runs that do not touch.
LEMMA RunsNameTheUids ==
    ASSUME NEW cand \in SUBSET Int, NEW c, Lists(c, cand)
    PROVE  RunsTo(CompressUidRanges(c), Len(c), c)
<1>1. c \in Seq(cand) /\ \A j, k \in DOMAIN c : j < k => c[j] < c[k]
  BY DEF Lists
<1>2. PICK n : n = Len(c) /\ n \in Nat
  <2>1. Len(c) \in Nat
    BY <1>1
  <2>2. QED
    BY <2>1
<1>3. PICK g : Compresses(g, c) /\ CompressUidRanges(c) = g[n]
  BY <1>1, <1>2, RunsAreCompressed
<1>4. g[0] = <<>> /\ \A i \in 1..n : g[i] = ExtendRuns(g[i - 1], c[i])
  BY <1>2, <1>3 DEF Compresses
<1>5. PICK T : T = {i \in 0..n : RunsTo(g[i], i, c)}
  OBVIOUS
<1>6. 0 \in T
  <2>1. PICK e : e = <<>> /\ e \in Seq(Atoms) /\ Len(e) = 0
    <3>1. <<>> \in Seq(Atoms) /\ Len(<<>>) = 0
      BY EmptySeq
    <3>2. QED
      BY <3>1
  <2>2. PICK a, b : Ends(e, 0, a, b)
    BY <2>1, AtomsHaveEnds
  <2>3. RunsOf(e, 0, a, b, 0, c)
    BY <2>2 DEF RunsOf, Apart, Within
  <2>4. RunsTo(e, 0, c)
    BY <2>1, <2>3 DEF RunsTo
  <2>5. QED
    BY <1>2, <1>4, <1>5, <2>1, <2>4
<1>7. ASSUME NEW i \in 1..n, i - 1 \in T PROVE i \in T
  <2>1. PICK r : r = g[i - 1] /\ RunsTo(r, i - 1, c)
    BY <1>5, <1>7
  <2>2. RunsTo(ExtendRuns(r, c[i]), i, c)
    BY <1>1, <1>2, <2>1, RunsGoOn
  <2>3. QED
    BY <1>4, <1>5, <2>1, <2>2
<1>8. n \in T
  <2>1. \A i \in 1..n : i - 1 \in T => i \in T
    BY <1>7
  <2>2. \A i \in 0..n : i \in T
    BY ONLY <1>2, <1>6, <2>1, IntervalInduction
  <2>3. QED
    BY <1>2, <2>2
<1>9. QED
  BY <1>2, <1>3, <1>5, <1>8

\* The text of an atom has a length.
LEMMA AtomLengthIsNatural ==
    ASSUME NEW atom
    PROVE  AtomLength(atom) \in Nat
<1>1. ASSUME NEW k PROVE Digits(k) \in Nat
  <2>1. IsFiniteSet(1..9)
    <3>1. 1 \in Int /\ 9 \in Int
      OBVIOUS
    <3>2. QED
      BY ONLY <3>1, FS_Interval
  <2>2. PICK f : f = [i \in 1..9 |-> 10 ^ i]
    OBVIOUS
  <2>3. f \in Surjection(1..9, Powers)
    BY <2>2 DEF Powers, Surjection
  <2>4. IsFiniteSet(Powers)
    BY <2>1, <2>3, FS_Surjection
  <2>5. IsFiniteSet({p \in Powers : p <= k})
    BY <2>4, FS_Subset
  <2>6. Cardinality({p \in Powers : p <= k}) \in Nat
    BY <2>5, FS_CardinalityType
  <2>7. QED
    BY <2>6 DEF Digits
<1>2. Digits(atom[1]) \in Nat /\ Digits(atom[2]) \in Nat
  BY <1>1
<1>3. QED
  BY <1>2 DEF AtomLength

\* What an atom adds to a chunk: its text, and a comma before all but the first.
Weights(f, n, chunk) ==
    /\ f \in [1..n -> Nat]
    /\ \A i \in 1..n : f[i] = AtomLength(chunk[i]) + (IF i = 1 THEN 0 ELSE 1)

\* Chunks have weights.
LEMMA WeightsExist ==
    ASSUME NEW n \in Nat, NEW chunk
    PROVE  \E f : Weights(f, n, chunk)
<1>1. PICK f : f = [i \in 1..n |-> AtomLength(chunk[i]) + (IF i = 1 THEN 0 ELSE 1)]
  OBVIOUS
<1>2. ASSUME NEW i \in 1..n PROVE f[i] \in Nat
  <2>1. AtomLength(chunk[i]) \in Nat
    BY AtomLengthIsNatural
  <2>2. QED
    BY <1>1, <2>1
<1>3. f \in [1..n -> Nat]
  BY <1>1, <1>2
<1>4. QED
  BY <1>1, <1>3 DEF Weights

\* WireLength adds them up.
LEMMA WireLengthSums ==
    ASSUME NEW U, NEW chunk \in Seq(U), NEW f, Weights(f, Len(chunk), chunk)
    PROVE  \E w : Sums(w, Len(chunk), f) /\ WireLength(chunk) = w[Len(chunk)]
<1> DEFINE Body(g) == [i \in 0..Len(chunk) |->
                         IF i = 0 THEN 0
                         ELSE g[i - 1] + AtomLength(chunk[i]) + (IF i = 1 THEN 0 ELSE 1)]
<1>1. PICK n : n = Len(chunk) /\ n \in Nat
  <2>1. Len(chunk) \in Nat
    OBVIOUS
  <2>2. QED
    BY <2>1
<1>2. /\ f \in [1..n -> Nat]
      /\ \A i \in 1..n : f[i] = AtomLength(chunk[i]) + (IF i = 1 THEN 0 ELSE 1)
  BY <1>1 DEF Weights
<1>3. PICK w : Sums(w, n, f)
  BY <1>1, <1>2, SumsExist
<1>4. w \in [0..n -> Nat] /\ w[0] = 0 /\ \A i \in 1..n : w[i] = w[i - 1] + f[i]
  BY <1>3 DEF Sums
<1>5. ASSUME NEW i \in 1..n, NEW x \in Nat
      PROVE  x + AtomLength(chunk[i]) + (IF i = 1 THEN 0 ELSE 1) = x + f[i]
  <2>1. AtomLength(chunk[i]) \in Nat
    BY AtomLengthIsNatural
  <2>2. f[i] = AtomLength(chunk[i]) + (IF i = 1 THEN 0 ELSE 1)
    BY <1>2
  <2>3. QED
    BY <2>1, <2>2
<1>6. ASSUME NEW i \in 1..n PROVE w[i - 1] \in Nat
  BY <1>1, <1>4
<1>7. ASSUME NEW i \in 0..n PROVE Body(w)[i] = w[i]
  <2>1. CASE i = 0
    BY <1>1, <1>4, <2>1
  <2>2. CASE i # 0
    <3>1. i \in 1..n
      BY <1>1, <2>2
    <3>2. Body(w)[i] = w[i - 1] + AtomLength(chunk[i]) + (IF i = 1 THEN 0 ELSE 1)
      BY <1>1, <2>2
    <3>3. w[i - 1] + AtomLength(chunk[i]) + (IF i = 1 THEN 0 ELSE 1) = w[i - 1] + f[i]
      BY <1>5, <1>6, <3>1
    <3>4. w[i] = w[i - 1] + f[i]
      BY <1>4, <3>1
    <3>5. QED
      BY <3>2, <3>3, <3>4
  <2>3. QED
    BY <2>1, <2>2
<1>8. w = Body(w)
  BY <1>1, <1>4, <1>7
<1>9. WireLength(chunk) = (CHOOSE g : g = Body(g))[n]
  BY <1>1 DEF WireLength
<1>10. PICK g : g = Body(g) /\ WireLength(chunk) = g[n]
  <2> HIDE DEF Body
  <2>1. PICK g : g = CHOOSE x : x = Body(x)
    OBVIOUS
  <2>2. QED
    BY <1>8, <1>9, <2>1
<1>11. g[0] = 0
  BY <1>1, <1>10
<1>12. ASSUME NEW i \in 1..n
       PROVE  g[i] = g[i - 1] + AtomLength(chunk[i]) + (IF i = 1 THEN 0 ELSE 1)
  <2>1. Body(g)[i] = g[i - 1] + AtomLength(chunk[i]) + (IF i = 1 THEN 0 ELSE 1)
    BY <1>1
  <2> HIDE DEF Body
  <2>2. QED
    BY <1>10, <2>1
<1>13. g[n] = w[n]
  <2> HIDE DEF Body
  <2>1. PICK T : T = {k \in 0..n : g[k] = w[k]}
    OBVIOUS
  <2>2. 0 \in T
    BY <1>1, <1>4, <1>11, <2>1
  <2>3. ASSUME NEW i \in 1..n, i - 1 \in T PROVE i \in T
    <3>1. g[i - 1] = w[i - 1] /\ w[i - 1] \in Nat
      BY <1>6, <2>1, <2>3
    <3>2. g[i] = w[i - 1] + AtomLength(chunk[i]) + (IF i = 1 THEN 0 ELSE 1)
      BY <1>12, <3>1
    <3>3. g[i] = w[i]
      BY <1>4, <1>5, <3>1, <3>2
    <3>4. QED
      BY <1>1, <2>1, <3>3
  <2>4. \A i \in 1..n : i - 1 \in T => i \in T
    BY <2>3
  <2>5. \A i \in 0..n : i \in T
    BY ONLY <2>2, <2>4, <1>1, IntervalInduction
  <2>6. QED
    BY <1>1, <2>1, <2>5
<1>14. QED
  BY <1>1, <1>3, <1>10, <1>13

\* A chunk is longer by an atom, and by a comma unless it was empty.
LEMMA WireLengthAppend ==
    ASSUME NEW U, NEW chunk \in Seq(U), NEW atom \in U
    PROVE  /\ WireLength(chunk) \in Nat /\ WireLength(<<>>) = 0
           /\ WireLength(Append(chunk, atom))
                = WireLength(chunk) + AtomLength(atom) + (IF chunk = <<>> THEN 0 ELSE 1)
<1>1. PICK n, b : n = Len(chunk) /\ n \in Nat /\ b = Append(chunk, atom)
  <2>1. Len(chunk) \in Nat
    OBVIOUS
  <2>2. QED
    BY <2>1
<1>2. b \in Seq(U) /\ Len(b) = n + 1 /\ b[n + 1] = atom /\ \A i \in 1..n : b[i] = chunk[i]
  BY <1>1, OneMore
<1>3. WireLength(<<>>) = 0
  <2>1. <<>> \in Seq(U) /\ Len(<<>>) = 0
    OBVIOUS
  <2>2. PICK f : Weights(f, 0, <<>>)
    BY WeightsExist
  <2>3. PICK w : Sums(w, 0, f) /\ WireLength(<<>>) = w[0]
    BY <2>1, <2>2, WireLengthSums
  <2>4. QED
    BY <2>3 DEF Sums
<1>4. PICK f : Weights(f, n, chunk)
  BY <1>1, WeightsExist
<1>5. PICK w : Sums(w, n, f) /\ WireLength(chunk) = w[n]
  BY <1>1, <1>4, WireLengthSums
<1>6. PICK h : Weights(h, n + 1, b)
  BY <1>1, WeightsExist
<1>7. PICK v : Sums(v, n + 1, h) /\ WireLength(b) = v[n + 1]
  BY <1>2, <1>6, WireLengthSums
<1>8. v[0] = 0 /\ \A i \in 1..(n + 1) : v[i] = v[i - 1] + h[i]
  BY <1>7 DEF Sums
<1>9. \A i \in 1..n : f[i] = h[i]
  BY <1>1, <1>2, <1>4, <1>6 DEF Weights
<1>10. v[n] = w[n]
  <2>1. SameUpTo(n, f, h) /\ AddsUp(v, n, h)
    BY <1>1, <1>8, <1>9 DEF SameUpTo, AddsUp
  <2>2. QED
    BY <1>1, <1>5, <2>1, SumsAgree
<1>11. PICK m : m = n + 1 /\ m \in 1..(n + 1) /\ m - 1 = n
  BY <1>1
<1>12. v[m] = v[n] + h[m]
  BY <1>8, <1>11
<1>13. h[m] = AtomLength(atom) + (IF m = 1 THEN 0 ELSE 1)
  BY <1>2, <1>6, <1>11 DEF Weights
<1>14. (m = 1) <=> (chunk = <<>>)
  <2>1. chunk = <<>> <=> n = 0
    BY <1>1, EmptySeq
  <2>2. QED
    BY <1>1, <1>11, <2>1
<1>15. w[n] \in Nat /\ AtomLength(atom) \in Nat
  BY <1>1, <1>5, AtomLengthIsNatural DEF Sums
<1>16. WireLength(b) = w[n] + (AtomLength(atom) + (IF m = 1 THEN 0 ELSE 1))
  BY <1>7, <1>10, <1>11, <1>12, <1>13
<1>17. WireLength(b) = w[n] + AtomLength(atom) + (IF chunk = <<>> THEN 0 ELSE 1)
  BY <1>14, <1>15, <1>16
<1>18. QED
  BY <1>1, <1>3, <1>5, <1>15, <1>17

\* The states of _chunk_uid_set, whose loop packs lists in L.
ChunkState(L) == [done : Seq(L), current : L, len : Nat]
ChunkStart == [done |-> <<>>, current |-> <<>>, len |-> 0]

\* g goes through the states of the loop over the atoms r.
Chunks(g, r, max, L) ==
    /\ g \in [0..Len(r) -> ChunkState(L)]
    /\ g[0] = ChunkStart
    /\ \A i \in 1..Len(r) : g[i] = ChunkOne(g[i - 1], r[i], max)

\* A round makes a state of a state.
LEMMA ChunkOneTyped ==
    ASSUME NEW U, NEW L, ListsOf(L, U), NEW x \in ChunkState(L), NEW atom \in U, NEW max
    PROVE  ChunkOne(x, atom, max) \in ChunkState(L)
<1>1. PICK size : size = AtomLength(atom) /\ size \in Nat
  BY AtomLengthIsNatural
<1>2. x.done \in Seq(L) /\ x.current \in L /\ x.len \in Nat
  BY DEF ChunkState
<1>3. Append(x.done, x.current) \in Seq(L)
  BY <1>2
<1>4. Append(x.current, atom) \in L /\ <<atom>> \in L
  BY <1>2 DEF ListsOf
<1>5. CASE x.current # <<>> /\ x.len + size + 1 > max
  <2>1. ChunkOne(x, atom, max)
          = [done |-> Append(x.done, x.current), current |-> <<atom>>, len |-> size + 1]
    BY <1>1, <1>5 DEF ChunkOne
  <2>2. QED
    BY <1>1, <1>3, <1>4, <2>1 DEF ChunkState
<1>6. CASE ~(x.current # <<>> /\ x.len + size + 1 > max)
  <2>1. ChunkOne(x, atom, max) = [x EXCEPT !.current = Append(@, atom), !.len = @ + size + 1]
    BY <1>1, <1>6 DEF ChunkOne
  <2>2. x = [done |-> x.done, current |-> x.current, len |-> x.len]
    BY DEF ChunkState
  <2>3. ChunkOne(x, atom, max) = [done |-> x.done, current |-> Append(x.current, atom),
                                  len |-> x.len + size + 1]
    BY <2>1, <2>2
  <2>4. QED
    BY <1>1, <1>2, <1>4, <2>3 DEF ChunkState
<1>7. QED
  BY <1>5, <1>6

\* ChunkUidSet returns the chunks of the last state of its loop.
LEMMA ChunksArePacked ==
    ASSUME NEW L, ListsOf(L, Atoms), NEW c, c # <<>>, CompressUidRanges(c) \in Seq(Atoms),
           NEW max
    PROVE  \E g : /\ Chunks(g, CompressUidRanges(c), max, L)
                  /\ ChunkUidSet(c, max)
                       = Append(g[Len(CompressUidRanges(c))].done,
                                g[Len(CompressUidRanges(c))].current)
<1>1. PICK r : r = CompressUidRanges(c) /\ r \in Seq(Atoms)
  OBVIOUS
<1> DEFINE Body(g) == [i \in 0..Len(r) |->
                         IF i = 0 THEN [done |-> <<>>, current |-> <<>>, len |-> 0]
                         ELSE ChunkOne(g[i - 1], r[i], max)]
           End(g) == Append(g[Len(r)].done, g[Len(r)].current)
<1>2. PICK n, X : n = Len(r) /\ n \in Nat /\ X = ChunkState(L)
  <2>1. Len(r) \in Nat
    BY <1>1
  <2>2. QED
    BY <2>1
<1>3. \A i \in 1..n : r[i] \in Atoms
  BY <1>1, <1>2, ElementOfSeq
<1>4. ChunkStart \in X
  <2>1. <<>> \in Seq(L) /\ <<>> \in L
    BY EmptySeq DEF ListsOf
  <2>2. QED
    BY <1>2, <2>1 DEF ChunkStart, ChunkState
<1>5. PICK F : F = [i \in 1..n |-> [x \in X |-> ChunkOne(x, r[i], max)]]
  OBVIOUS
<1>6. ASSUME NEW i \in 1..n, NEW x \in X PROVE ChunkOne(x, r[i], max) \in X
  BY <1>2, <1>3, ChunkOneTyped
<1>7. F \in [1..n -> [X -> X]]
  BY <1>5, <1>6
<1>8. PICK w : w \in [0..n -> X] /\ w[0] = ChunkStart /\ \A i \in 1..n : w[i] = F[i][w[i - 1]]
  <2>1. IsLoop(n, X, ChunkStart, F)
    BY <1>2, <1>4, <1>7 DEF IsLoop
  <2>2. \E w : Unfolds(n, X, ChunkStart, F, w)
    BY ONLY <2>1, LoopUnfolds
  <2>3. QED
    BY <2>2 DEF Unfolds
<1>9. ASSUME NEW i \in 1..n PROVE w[i] = ChunkOne(w[i - 1], r[i], max)
  <2>1. w[i - 1] \in X
    BY <1>2, <1>8
  <2>2. F[i][w[i - 1]] = ChunkOne(w[i - 1], r[i], max)
    BY <1>5, <2>1
  <2>3. QED
    BY <1>8, <2>2
<1>10. Chunks(w, r, max, L)
  BY <1>2, <1>8, <1>9 DEF Chunks
<1>11. ASSUME NEW i \in 0..n PROVE Body(w)[i] = w[i]
  <2>1. CASE i = 0
    BY <1>2, <1>8, <2>1 DEF ChunkStart
  <2>2. CASE i # 0
    <3>1. i \in 1..n
      BY <1>2, <2>2
    <3>2. Body(w)[i] = ChunkOne(w[i - 1], r[i], max)
      BY <1>2, <2>2
    <3>3. QED
      BY <1>9, <3>1, <3>2
  <2>3. QED
    BY <2>1, <2>2
<1>12. w = Body(w)
  BY <1>2, <1>8, <1>11
<1>13. ChunkUidSet(c, max) = End(CHOOSE g : g = Body(g))
  BY <1>1 DEF ChunkUidSet
<1>14. PICK g : g = Body(g) /\ ChunkUidSet(c, max) = End(g)
  <2> HIDE DEF Body, End
  <2>1. PICK g : g = CHOOSE x : x = Body(x)
    OBVIOUS
  <2>2. QED
    BY <1>12, <1>13, <2>1
<1>15. g[0] = ChunkStart
  BY <1>2, <1>14 DEF ChunkStart
<1>16. ASSUME NEW i \in 1..n PROVE g[i] = ChunkOne(g[i - 1], r[i], max)
  <2>1. Body(g)[i] = ChunkOne(g[i - 1], r[i], max)
    BY <1>2
  <2> HIDE DEF Body
  <2>2. QED
    BY <1>14, <2>1
<1>17. g[n] = w[n]
  <2>1. PICK T : T = {k \in 0..n : g[k] = w[k]}
    OBVIOUS
  <2>2. 0 \in T
    BY <1>2, <1>8, <1>15, <2>1
  <2>3. \A i \in 1..n : i - 1 \in T => i \in T
    BY <1>9, <1>16, <2>1
  <2>4. \A i \in 0..n : i \in T
    BY ONLY <2>2, <2>3, <1>2, IntervalInduction
  <2>5. QED
    BY <1>2, <2>1, <2>4
<1>18. ChunkUidSet(c, max) = Append(w[n].done, w[n].current)
  BY <1>2, <1>14, <1>17
<1>19. QED
  BY <1>1, <1>2, <1>10, <1>18

\* The chunks keep within the length limit.
WithinLimit(chunks, max) ==
    \A k \in DOMAIN chunks :
       chunks[k] # <<>> /\ (Len(chunks[k]) > 1 => WireLength(chunks[k]) <= max)

\* Another chunk, or a longer last one, keeps within it.
LEMMA LimitIsKept ==
    ASSUME NEW L, NEW ss \in Seq(L), NEW s \in L, NEW t \in L, NEW max,
           WithinLimit(Append(ss, s), max), t # <<>>, Len(t) > 1 => WireLength(t) <= max
    PROVE  WithinLimit(Append(ss, t), max)
<1>1. PICK n, d, e : n = Len(ss) /\ d = Append(ss, s) /\ e = Append(ss, t)
  OBVIOUS
<1>2. n \in Nat /\ DOMAIN d = 1..(n + 1) /\ \A k \in 1..n : d[k] = ss[k]
  BY <1>1, OneMore
<1>3. DOMAIN e = 1..(n + 1) /\ e[n + 1] = t /\ \A k \in 1..n : e[k] = ss[k]
  BY <1>1, OneMore
<1>4. ASSUME NEW k \in 1..(n + 1)
      PROVE  e[k] # <<>> /\ (Len(e[k]) > 1 => WireLength(e[k]) <= max)
  <2>1. CASE k = n + 1
    BY <1>3, <2>1
  <2>2. CASE k # n + 1
    <3>1. k \in 1..n /\ k \in DOMAIN d /\ e[k] = d[k]
      BY <1>2, <1>3, <2>2
    <3>2. WithinLimit(d, max)
      BY <1>1
    <3>3. d[k] # <<>> /\ (Len(d[k]) > 1 => WireLength(d[k]) <= max)
      BY <3>1, <3>2 DEF WithinLimit
    <3>4. QED
      BY <3>1, <3>3
  <2>3. QED
    BY <2>1, <2>2
<1>5. WithinLimit(e, max)
  BY <1>3, <1>4 DEF WithinLimit
<1>6. QED
  BY <1>1, <1>5

\* A new chunk of one atom keeps within it.
LEMMA LimitAllowsOne ==
    ASSUME NEW L, NEW ss \in Seq(L), NEW t \in L, NEW max,
           WithinLimit(ss, max), t # <<>>, Len(t) = 1
    PROVE  WithinLimit(Append(ss, t), max)
<1>1. PICK n, e : n = Len(ss) /\ e = Append(ss, t)
  OBVIOUS
<1>2. /\ n \in Nat /\ DOMAIN ss = 1..n /\ DOMAIN e = 1..(n + 1) /\ e[n + 1] = t
      /\ \A k \in 1..n : e[k] = ss[k]
  BY <1>1, OneMore
<1>3. ASSUME NEW k \in 1..(n + 1)
      PROVE  e[k] # <<>> /\ (Len(e[k]) > 1 => WireLength(e[k]) <= max)
  <2>1. CASE k = n + 1
    <3>1. e[k] = t /\ ~(Len(t) > 1)
      BY <1>2, <2>1
    <3>2. QED
      BY <3>1
  <2>2. CASE k # n + 1
    <3>1. k \in 1..n /\ k \in DOMAIN ss /\ e[k] = ss[k]
      BY <1>2, <2>2
    <3>2. QED
      BY <3>1 DEF WithinLimit
  <2>3. QED
    BY <2>1, <2>2
<1>4. WithinLimit(e, max)
  BY <1>2, <1>3 DEF WithinLimit
<1>5. QED
  BY <1>1, <1>4

\* The chunks so far keep within the limit, and hold the first i atoms of r in their order.
ChunkedTo(x, i, r, max, L) ==
    /\ x \in ChunkState(L)
    /\ i > 0 => x.current # <<>> /\ x.len = WireLength(x.current) + 1
    /\ i = 0 => x = ChunkStart
    /\ WithinLimit(BatchesOf(x), max)
    /\ FlattenSeq(BatchesOf(x)) \in L
    /\ Begins(FlattenSeq(BatchesOf(x)), r, i)

\* One round packs the next atom.
LEMMA ChunkGoesOn ==
    ASSUME NEW U, NEW L, ListsOf(L, U), NEW r \in Seq(U), NEW max \in Int,
           NEW i \in 1..Len(r), NEW x, ChunkedTo(x, i - 1, r, max, L)
    PROVE  ChunkedTo(ChunkOne(x, r[i], max), i, r, max, L)
<1>1. PICK atom, y, size : atom = r[i] /\ y = ChunkOne(x, atom, max) /\ size = AtomLength(atom)
  OBVIOUS
<1>2. atom \in U /\ i \in Nat /\ i - 1 \in Nat /\ size \in Nat
  <2>1. atom \in U
    BY <1>1, ElementOfSeq
  <2>2. size \in Nat
    BY <1>1, AtomLengthIsNatural
  <2>3. QED
    BY <2>1, <2>2
<1>3. x \in ChunkState(L) /\ y \in ChunkState(L)
  BY <1>1, <1>2, ChunkOneTyped DEF ChunkedTo
<1>4. x.done \in Seq(L) /\ x.current \in L /\ x.len \in Nat
  BY <1>3 DEF ChunkState
<1>5. PICK f : /\ f = FlattenSeq(BatchesOf(x)) /\ f \in L /\ Begins(f, r, i - 1)
               /\ Append(f, atom) \in L /\ Begins(Append(f, atom), r, i)
  <2>1. PICK f : f = FlattenSeq(BatchesOf(x)) /\ f \in L /\ Begins(f, r, i - 1)
    BY DEF ChunkedTo
  <2>2. Append(f, atom) \in L /\ Begins(Append(f, atom), r, i)
    BY <1>1, <1>2, <2>1, BeginsGrows DEF ListsOf
  <2>3. QED
    BY <2>1, <2>2
<1>6. SUFFICES /\ y.current # <<>> /\ y.len = WireLength(y.current) + 1
               /\ WithinLimit(BatchesOf(y), max) /\ FlattenSeq(BatchesOf(y)) = Append(f, atom)
  <2>1. ASSUME y.current # <<>>, y.len = WireLength(y.current) + 1,
               WithinLimit(BatchesOf(y), max), FlattenSeq(BatchesOf(y)) = Append(f, atom)
        PROVE  ChunkedTo(y, i, r, max, L)
    <3>1. i # 0
      BY <1>2
    <3>2. QED
      BY <1>3, <1>5, <2>1, <3>1 DEF ChunkedTo
  <2>2. QED
    BY <1>1, <2>1
<1>7. PICK new, longer : /\ new = <<atom>> /\ new \in L /\ new # <<>> /\ Len(new) = 1
                         /\ longer = Append(x.current, atom) /\ longer \in L /\ longer # <<>>
  <2>1. <<atom>> \in L /\ <<atom>> # <<>> /\ Len(<<atom>>) = 1
    BY <1>2 DEF ListsOf
  <2>2. PICK s : s = x.current /\ s \in Seq(U)
    BY <1>4 DEF ListsOf
  <2>3. Append(s, atom) \in Seq(U) /\ Append(s, atom) # <<>>
    BY <1>2, <2>2, AppendProperties
  <2>4. Append(x.current, atom) \in L /\ Append(x.current, atom) # <<>>
    BY <2>2, <2>3 DEF ListsOf
  <2>5. QED
    BY <2>1, <2>4
<1>8. WireLength(new) = size
  <2>1. PICK e : e = <<>> /\ e \in Seq(U) /\ Append(e, atom) = new
    <3>1. <<>> \in Seq(U) /\ Append(<<>>, atom) = <<atom>>
      BY <1>2, EmptySeq
    <3>2. QED
      BY <1>7, <3>1
  <2>2. /\ WireLength(e) = 0
        /\ WireLength(Append(e, atom)) = WireLength(e) + size + (IF e = <<>> THEN 0 ELSE 1)
    BY <1>1, <1>2, <2>1, WireLengthAppend
  <2>3. QED
    BY <1>2, <2>1, <2>2
<1>9. x.current # <<>> => WireLength(longer) = WireLength(x.current) + size + 1
  <2>1. PICK s : s = x.current /\ s \in Seq(U)
    BY <1>4 DEF ListsOf
  <2>2. WireLength(Append(s, atom)) = WireLength(s) + size + (IF s = <<>> THEN 0 ELSE 1)
    BY <1>1, <1>2, <2>1, WireLengthAppend
  <2>3. QED
    BY <1>7, <2>1, <2>2
<1>10. ASSUME NEW ss \in Seq(L), NEW s \in L
       PROVE  /\ FlattenSeq(Append(ss, Append(s, atom))) = Append(FlattenSeq(Append(ss, s)), atom)
              /\ FlattenSeq(Append(ss, <<atom>>)) = Append(FlattenSeq(ss), atom)
  BY <1>2, FlattenGrows
<1>11. CASE i = 1
  <2>1. x = ChunkStart
    BY <1>11 DEF ChunkedTo
  <2>2. x.done = <<>> /\ x.current = <<>> /\ x.len = 0 /\ BatchesOf(x) = x.done
    BY <2>1 DEF ChunkStart, BatchesOf
  <2>3. y = [x EXCEPT !.current = Append(@, atom), !.len = @ + size + 1]
    BY <1>1, <2>2 DEF ChunkOne
  <2>4. y.done = x.done /\ y.current = Append(x.current, atom) /\ y.len = x.len + size + 1
    BY <1>3, <2>3 DEF ChunkState
  <2>5. y.current = new /\ y.len = size + 1
    <3>1. Append(<<>>, atom) = <<atom>>
      OBVIOUS
    <3>2. QED
      BY <1>2, <1>7, <2>2, <2>4, <3>1
  <2>6. BatchesOf(y) = Append(x.done, new)
    BY <1>7, <2>4, <2>5 DEF BatchesOf
  <2>7. WithinLimit(Append(x.done, new), max)
    <3>1. WithinLimit(x.done, max)
      BY <2>2 DEF ChunkedTo
    <3>2. QED
      BY <1>4, <1>7, <3>1, LimitAllowsOne
  <2>8. FlattenSeq(Append(x.done, <<atom>>)) = Append(FlattenSeq(x.done), atom)
    BY ONLY <1>4, <1>10, Zenon
  <2>9. QED
    BY <1>5, <1>7, <1>8, <2>2, <2>5, <2>6, <2>7, <2>8
<1>12. CASE i # 1
  <2>1. /\ x.current # <<>> /\ x.len = WireLength(x.current) + 1
        /\ WithinLimit(BatchesOf(x), max)
    BY <1>2, <1>12 DEF ChunkedTo
  <2>2. BatchesOf(x) = Append(x.done, x.current)
    BY <2>1 DEF BatchesOf
  <2>3. WireLength(x.current) \in Nat
    <3>1. PICK s : s = x.current /\ s \in Seq(U)
      BY <1>4 DEF ListsOf
    <3>2. QED
      BY <1>2, <3>1, WireLengthAppend
  <2>4. CASE x.len + size + 1 > max
    <3>1. y = [done |-> Append(x.done, x.current), current |-> <<atom>>, len |-> size + 1]
      BY <1>1, <2>1, <2>4 DEF ChunkOne
    <3>2. y.done = Append(x.done, x.current) /\ y.current = new /\ y.len = size + 1
      BY <1>7, <3>1
    <3>3. PICK d : d = Append(x.done, x.current) /\ d \in Seq(L)
      <4>1. Append(x.done, x.current) \in Seq(L)
        BY <1>4, OneMore
      <4>2. QED
        BY <4>1
    <3>4. BatchesOf(y) = Append(d, new)
      BY <1>7, <3>2, <3>3 DEF BatchesOf
    <3>5. WithinLimit(Append(d, new), max)
      <4>1. WithinLimit(d, max)
        BY <2>1, <2>2, <3>3
      <4>2. QED
        BY <1>7, <3>3, <4>1, LimitAllowsOne
    <3>6. FlattenSeq(Append(d, <<atom>>)) = Append(FlattenSeq(d), atom)
      BY ONLY <1>4, <1>10, <3>3, Zenon
    <3>7. QED
      BY <1>5, <1>7, <1>8, <2>2, <3>2, <3>3, <3>4, <3>5, <3>6
  <2>5. CASE ~(x.len + size + 1 > max)
    <3>1. y = [x EXCEPT !.current = Append(@, atom), !.len = @ + size + 1]
      BY <1>1, <2>5 DEF ChunkOne
    <3>2. y.done = x.done /\ y.current = longer /\ y.len = x.len + size + 1
      BY <1>3, <1>7, <3>1 DEF ChunkState
    <3>3. y.len = WireLength(longer) + 1 /\ WireLength(longer) <= max
      BY <1>2, <1>4, <1>9, <2>1, <2>3, <2>5, <3>2
    <3>4. BatchesOf(y) = Append(x.done, longer)
      BY <1>7, <3>2 DEF BatchesOf
    <3>5. WithinLimit(Append(x.done, longer), max)
      <4>1. WithinLimit(Append(x.done, x.current), max)
        BY <2>1, <2>2
      <4>2. QED
        BY <1>4, <1>7, <3>3, <4>1, LimitIsKept
    <3>6. FlattenSeq(Append(x.done, Append(x.current, atom)))
            = Append(FlattenSeq(Append(x.done, x.current)), atom)
      BY ONLY <1>4, <1>10, Zenon
    <3>7. QED
      BY <1>5, <1>7, <2>2, <3>2, <3>3, <3>4, <3>5, <3>6
  <2>6. QED
    BY <2>4, <2>5
<1>13. QED
  BY <1>11, <1>12

\* All atoms are packed.
LEMMA ChunksPack ==
    ASSUME NEW L, ListsOf(L, Atoms), NEW c, c # <<>>, NEW max \in Int,
           CompressUidRanges(c) \in Seq(Atoms), CompressUidRanges(c) # <<>>
    PROVE  /\ FlattenSeq(ChunkUidSet(c, max)) = CompressUidRanges(c)
           /\ WithinLimit(ChunkUidSet(c, max), max)
<1>1. PICK r, n : /\ r = CompressUidRanges(c) /\ r \in Seq(Atoms) /\ n = Len(r)
                  /\ n \in Nat \ {0}
  <2>1. Len(CompressUidRanges(c)) \in Nat \ {0}
    BY EmptySeq
  <2>2. QED
    BY <2>1
<1>2. PICK g : /\ Chunks(g, r, max, L)
               /\ ChunkUidSet(c, max) = Append(g[n].done, g[n].current)
  BY <1>1, ChunksArePacked
<1>3. g[0] = ChunkStart /\ \A i \in 1..n : g[i] = ChunkOne(g[i - 1], r[i], max)
  BY <1>1, <1>2 DEF Chunks
<1>4. PICK T : T = {i \in 0..n : ChunkedTo(g[i], i, r, max, L)}
  OBVIOUS
<1>5. 0 \in T
  <2>1. PICK e : e = <<>> /\ e \in Seq(L) /\ e \in L /\ Len(e) = 0 /\ DOMAIN e = {}
    <3>1. <<>> \in Seq(L) /\ <<>> \in L
      BY EmptySeq DEF ListsOf
    <3>2. Len(<<>>) = 0 /\ DOMAIN <<>> = {}
      OBVIOUS
    <3>3. QED
      BY <3>1, <3>2
  <2>2. ChunkStart \in ChunkState(L) /\ BatchesOf(ChunkStart) = e
    BY <2>1 DEF ChunkStart, ChunkState, BatchesOf
  <2>3. WithinLimit(e, max)
    BY <2>1 DEF WithinLimit
  <2>4. FlattenSeq(e) = e
    <3>1. FlattenSeq(e) = IF Len(e) = 0 THEN e ELSE FlattenSeq(e)
      BY DEF FlattenSeq
    <3>2. QED
      BY <2>1, <3>1
  <2>5. Begins(e, r, 0)
    BY <2>1 DEF Begins
  <2>6. ChunkedTo(ChunkStart, 0, r, max, L)
    BY <2>1, <2>2, <2>3, <2>4, <2>5 DEF ChunkedTo
  <2>7. QED
    BY <1>1, <1>3, <1>4, <2>6
<1>6. ASSUME NEW i \in 1..n, i - 1 \in T PROVE i \in T
  <2>1. PICK x : x = g[i - 1] /\ ChunkedTo(x, i - 1, r, max, L)
    BY <1>4, <1>6
  <2>2. ChunkedTo(ChunkOne(x, r[i], max), i, r, max, L)
    BY <1>1, <2>1, ChunkGoesOn
  <2>3. QED
    BY <1>3, <1>4, <2>1, <2>2
<1>7. n \in T
  <2>1. \A i \in 1..n : i - 1 \in T => i \in T
    BY <1>6
  <2>2. n \in Nat
    BY <1>1
  <2>3. \A i \in 0..n : i \in T
    BY ONLY <1>5, <2>1, <2>2, IntervalInduction
  <2>4. QED
    BY <2>2, <2>3
<1>8. PICK x : x = g[n] /\ ChunkedTo(x, n, r, max, L)
  BY <1>4, <1>7
<1>9. PICK b : /\ b = BatchesOf(x) /\ b = ChunkUidSet(c, max) /\ WithinLimit(b, max)
               /\ FlattenSeq(b) \in L /\ Begins(FlattenSeq(b), r, n)
  <2>1. x.current # <<>>
    BY <1>1, <1>8 DEF ChunkedTo
  <2>2. BatchesOf(x) = ChunkUidSet(c, max)
    BY <1>2, <1>8, <2>1 DEF BatchesOf
  <2>3. QED
    BY <1>8, <2>2 DEF ChunkedTo
<1>10. FlattenSeq(b) = r
  <2>1. PICK f : /\ f = FlattenSeq(b) /\ f \in Seq(Atoms) /\ Len(f) = n
                 /\ \A k \in 1..n : f[k] = r[k]
    BY <1>9 DEF ListsOf, Begins
  <2>2. f = r
    BY <1>1, <2>1, SeqEqual
  <2>3. QED
    BY <2>1, <2>2
<1>11. QED
  BY <1>1, <1>9, <1>10

\* ChunksNameExactlyTheUids: for any UIDs and length limit, the sequence sets of
\* _chunk_uid_set name exactly the requested UIDs, each once, and a set of
\* several atoms keeps within the limit.
THEOREM ChunksNameTheUids == PureSpec => []ChunksNameExactlyTheUids
<1>1. InputOfItsKind => ChunksNameExactlyTheUids
  <2> SUFFICES ASSUME InputOfItsKind, input.kind = "chunk"
               PROVE  LET chunks == ChunkUidSet(Ascending(input.uids, TopUid), input.chars)
                          atoms  == FlattenSeq(chunks)
                      IN /\ UNION {atoms[i][1]..atoms[i][2] : i \in DOMAIN atoms} = input.uids
                         /\ \A i, j \in DOMAIN atoms : i < j => atoms[i][2] + 1 < atoms[j][1]
                         /\ \A i \in DOMAIN chunks :
                              chunks[i] # <<>> /\ (Len(chunks[i]) > 1
                                                     => WireLength(chunks[i]) <= input.chars)
    BY DEF ChunksNameExactlyTheUids
  <2>1. PICK S, max : S = input.uids /\ max = input.chars
    OBVIOUS
  <2>2. TopUid \in Nat /\ S \in SUBSET (1..TopUid) /\ max \in Int
    <3>1. MaxChars \in Nat /\ TopUid \in Nat /\ WideUids \subseteq 1..TopUid
      BY PureAssumption
    <3>2. input.uids \in SUBSET WideUids /\ input.chars \in 1..MaxChars
      BY DEF InputOfItsKind, ChunkInput
    <3>3. S \in SUBSET (1..TopUid)
      BY <2>1, <3>1, <3>2
    <3>4. max \in Int
      BY <2>1, <3>1, <3>2
    <3>5. QED
      BY <3>1, <3>3, <3>4
  <2>3. PICK c : c = Ascending(S, TopUid) /\ Lists(c, S)
    BY <2>2, AscendingLists
  <2>4. S \in SUBSET Int /\ c \in Seq(S) /\ \A u \in S : \E j \in DOMAIN c : c[j] = u
    BY <2>2, <2>3 DEF Lists
  <2>5. PICK r, n : /\ r = CompressUidRanges(c) /\ r \in Seq(Atoms) /\ n = Len(r)
                    /\ \E a, b : RunsOf(r, n, a, b, Len(c), c)
    BY <2>3, <2>4, RunsNameTheUids DEF RunsTo
  <2>6. PICK a, b : RunsOf(r, n, a, b, Len(c), c)
    BY <2>5
  <2>7. /\ n \in Nat /\ DOMAIN r = 1..n /\ a \in [1..n -> Int] /\ b \in [1..n -> Int]
        /\ \A k \in 1..n : r[k][1] = a[k] /\ r[k][2] = b[k]
    <3>1. Len(r) \in Nat /\ DOMAIN r = 1..Len(r)
      BY <2>5
    <3>2. QED
      BY <2>5, <2>6, <3>1 DEF RunsOf, Ends
  <2>8. UNION {r[k][1]..r[k][2] : k \in DOMAIN r} = S
    <3>1. ASSUME NEW u \in S PROVE \E k \in DOMAIN r : u \in r[k][1]..r[k][2]
      <4>1. u \in Int /\ \E j \in 1..Len(c) : c[j] = u
        BY <2>4
      <4>2. Within(n, a, b, u)
        BY <2>6, <4>1 DEF RunsOf
      <4>3. PICK k \in 1..n : a[k] <= u /\ u <= b[k]
        BY <4>2 DEF Within
      <4>4. a[k] \in Int /\ b[k] \in Int /\ r[k][1] = a[k] /\ r[k][2] = b[k] /\ k \in DOMAIN r
        BY <2>7
      <4>5. QED
        BY <4>1, <4>3, <4>4
    <3>2. ASSUME NEW k \in DOMAIN r, NEW u \in r[k][1]..r[k][2] PROVE u \in S
      <4>1. k \in 1..n /\ a[k] \in Int /\ b[k] \in Int /\ u \in a[k]..b[k]
        BY <2>7
      <4>2. u \in Int /\ Within(n, a, b, u)
        BY <4>1 DEF Within
      <4>3. \E j \in 1..Len(c) : c[j] = u
        BY <2>6, <4>2 DEF RunsOf
      <4>4. QED
        BY <2>4, <4>3, ListItems
    <3>3. QED
      BY <3>1, <3>2
  <2>9. ASSUME NEW i \in DOMAIN r, NEW j \in DOMAIN r, i < j PROVE r[i][2] + 1 < r[j][1]
    <3>1. i \in 1..n /\ j \in 1..n
      BY <2>7
    <3>2. b[i] + 1 < a[j]
      BY <2>6, <2>9, <3>1 DEF RunsOf, Apart
    <3>3. QED
      BY <2>7, <3>1, <3>2
  <2>10. CASE c = <<>>
    <3>1. PICK chunks : chunks = ChunkUidSet(c, max)
      OBVIOUS
    <3>2. chunks = <<>> /\ DOMAIN chunks = {} /\ FlattenSeq(chunks) = <<>>
      <4>1. chunks = <<>>
        BY <2>10, <3>1 DEF ChunkUidSet
      <4>2. Len(<<>>) = 0 /\ DOMAIN <<>> = {}
        OBVIOUS
      <4>3. FlattenSeq(chunks) = IF Len(chunks) = 0 THEN chunks ELSE FlattenSeq(chunks)
        BY DEF FlattenSeq
      <4>4. QED
        BY <4>1, <4>2, <4>3
    <3>3. S = {}
      BY <2>4, <2>10
    <3>4. PICK atoms : atoms = FlattenSeq(chunks) /\ DOMAIN atoms = {}
      BY <3>2
    <3>5. /\ UNION {atoms[i][1]..atoms[i][2] : i \in DOMAIN atoms} = S
          /\ \A i, j \in DOMAIN atoms : i < j => atoms[i][2] + 1 < atoms[j][1]
          /\ \A i \in DOMAIN chunks :
               chunks[i] # <<>> /\ (Len(chunks[i]) > 1 => WireLength(chunks[i]) <= max)
      BY <3>2, <3>3, <3>4
    <3>6. QED
      BY <2>1, <2>3, <3>1, <3>4, <3>5
  <2>11. CASE c # <<>>
    <3>1. PICK L : ListsOf(L, Atoms)
      BY DEF ListsOf
    <3>2. r # <<>>
      <4>1. Len(c) > 0
        BY <2>4, <2>11, EmptySeq
      <4>2. n > 0
        BY <2>6, <4>1 DEF RunsOf
      <4>3. Len(<<>>) = 0
        OBVIOUS
      <4>4. QED
        BY <2>5, <2>7, <4>2, <4>3
    <3>3. PICK chunks : /\ chunks = ChunkUidSet(c, max)
                        /\ FlattenSeq(chunks) = r /\ WithinLimit(chunks, max)
      BY <2>2, <2>5, <2>11, <3>1, <3>2, ChunksPack
    <3>4. \A i \in DOMAIN chunks :
             chunks[i] # <<>> /\ (Len(chunks[i]) > 1 => WireLength(chunks[i]) <= max)
      BY <3>3 DEF WithinLimit
    <3>5. QED
      BY <2>1, <2>3, <2>8, <2>9, <3>3, <3>4
  <2>12. QED
    BY <2>10, <2>11
<1>2. QED
  BY <1>1, InputsAreGiven, PTL
====
