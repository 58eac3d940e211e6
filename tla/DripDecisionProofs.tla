------------------------- MODULE DripDecisionProofs -------------------------
(***************************************************************************)
(* What DripDecision guarantees for every value of its constants: any      *)
(* policies, tokens, deposits and prices, and any number of changes of the *)
(* world while a deposit is decided.                                       *)
(***************************************************************************)
EXTENDS DripDecision, WellFoundedInduction, TLAPS

\* The steps at which a deposit is decided, and those behind each check.
Asking == {"known", "price", "amount", "first", "nonce", "gas", "code", "rebate", "sign"}

\* TypeOK without the default drip.
DecisionTypes ==
  /\ policies \in PolicyLists /\ deposit \in Deposits /\ tokens \subseteq Tokens
  /\ step \in {"start", "off", "idle", "loop", "decided"} \cup Asking
  /\ policy \in 0..Len(policies) /\ rate \in Fraction
  /\ recset \in BOOLEAN /\ hasDrip \in BOOLEAN
  /\ world \in World /\ seen \subseteq World
  /\ verdict \in {"none", "grant", "refuse", "error", "panic"}

\* There is a policy for everything once the faucet has started.
HasMatchAll == \E i \in DOMAIN policies : policies[i].matchAll

\* What the policy wants held at some time since the deposit was taken up.
Earned(want) == \E w \in seen : Holds(want, w)

\* A check that was passed has shown that what it is about holds: it held then,
\* and nothing that was seen is forgotten.
ChecksInv ==
  /\ step \in {"known", "price"} => rate = Number(1)
  /\ step = "amount" => ~HasMinimum \/ \E w \in seen : rate = Value(w)
  /\ step \in {"first", "nonce", "gas", "code", "rebate", "sign"} => Earned("minimum")
  /\ step \in {"nonce", "gas", "code", "rebate", "sign"} => Earned("first")
  /\ step \in {"gas", "code", "rebate", "sign"} => Earned("fresh")
  /\ step \in {"code", "rebate", "sign"} => Earned("no gas")
  /\ step \in {"rebate", "sign"} => Earned("EOA")

DecisionInv ==
  /\ DecisionTypes
  /\ step \notin {"start", "off"} => HasMatchAll
  /\ step \in Asking \cup {"decided"} => policy # 0 /\ world \in seen
  /\ ChecksInv
  /\ GrantIsEarned
  /\ RefusalIsEarned

-----------------------------------------------------------------------------
(* The choice of a policy *)

NatLess == {p \in Nat \X Nat : p[1] < p[2]}

\* A set of naturals that is not empty has a least element.
LEMMA LeastOfNat ==
  ASSUME NEW T \in SUBSET Nat, T # {}
  PROVE  \E m \in T : \A k \in T : m <= k
<1>1. IsWellFoundedOn(NatLess, Nat)
  BY NatLessThanWellFounded DEF OpToRel, NatLess
<1>2. PICK m \in T : \A k \in T : ~ (<<k, m>> \in NatLess)
  BY <1>1, WFMin
<1>3. ASSUME NEW k \in T PROVE m <= k
  <2>1. <<k, m>> \in Nat \X Nat /\ ~ (<<k, m>> \in NatLess)
    BY <1>2
  <2>2. ~ (k < m)
    BY <2>1 DEF NatLess
  <2>3. QED
    BY <2>2
<1>4. QED
  BY <1>3

\* Max of a bounded set of naturals that is not empty is its greatest element.
LEMMA MaxOfNat ==
  ASSUME NEW n \in Nat, NEW S \in SUBSET (0..n), S # {}
  PROVE  Max(S) \in S /\ \A k \in S : k <= Max(S)
<1> DEFINE T == {n - i : i \in S}
<1>1. T \in SUBSET Nat /\ T # {}
  <2>1. \A i \in S : n - i \in Nat
    OBVIOUS
  <2>2. PICK i \in S : TRUE
    OBVIOUS
  <2>3. n - i \in T
    OBVIOUS
  <2>4. QED
    BY <2>1, <2>3
<1>2. PICK m \in T : \A k \in T : m <= k
  BY <1>1, LeastOfNat
<1>3. n - m \in S /\ \A k \in S : k <= n - m
  <2>1. ASSUME NEW k \in S PROVE m <= n - k
    BY <1>2
  <2>2. QED
    BY <1>2, <2>1
<1>4. QED
  BY <1>3 DEF Max

\* Of the policies that match, the last one is chosen, and no index beyond the
\* list; with a policy for everything there is one.
LEMMA ChosenMatches ==
  ASSUME NEW d, DecisionTypes
  PROVE  /\ Chosen(d) \in 0..Len(policies)
         /\ HasMatchAll => Chosen(d) # 0 /\ Match(policies[Chosen(d)], d)
         /\ \A i \in DOMAIN policies : Match(policies[i], d) => i <= Chosen(d)
<1> DEFINE S == {i \in DOMAIN policies : Match(policies[i], d)} \cup {0}
<1>1. Len(policies) \in Nat /\ DOMAIN policies = 1..Len(policies)
  BY DecisionAssumption DEF DecisionTypes
<1>2. S \in SUBSET (0..Len(policies)) /\ S # {}
  BY <1>1
<1> HIDE DEF S
<1>3. Max(S) \in S /\ \A k \in S : k <= Max(S)
  BY <1>1, <1>2, MaxOfNat
<1>4. Chosen(d) = Max(S)
  BY DEF Chosen, S
<1>5. ASSUME HasMatchAll PROVE Chosen(d) # 0
  <2>1. PICK i \in DOMAIN policies : policies[i].matchAll
    BY <1>5 DEF HasMatchAll
  <2>2. i \in S /\ i # 0
    BY <1>1, <2>1 DEF S, Match
  <2>3. QED
    BY <1>1, <1>2, <1>3, <1>4, <2>2
<1>6. QED
  BY <1>1, <1>2, <1>3, <1>4, <1>5 DEF S

-----------------------------------------------------------------------------
(* The wei of an amount *)

\* Division with a remainder.
LEMMA Division ==
  ASSUME NEW n \in Nat, NEW d \in Nat \ {0}
  PROVE  /\ n \div d \in Nat /\ n % d \in Nat /\ n % d < d
         /\ n = d * (n \div d) + (n % d)
<1>1. n \div d \in Int /\ n % d \in 0..(d - 1)
  OBVIOUS
<1>2. n = d * (n \div d) + (n % d)
  OBVIOUS
<1>3. n \div d >= 0
  OBVIOUS
<1>4. QED
  BY <1>1, <1>2, <1>3

\* Nearest is at most a half away, and to an even number in the middle.
LEMMA NearestIsNearest ==
  ASSUME NEW n \in Nat, NEW d \in Nat \ {0}
  PROVE  /\ Nearest(n, d) \in Nat
         /\ \E q, r \in Nat :
              /\ n = d * q + r /\ r < d
              /\ \/ Nearest(n, d) = q /\ 2 * r <= d
                 \/ Nearest(n, d) = q + 1 /\ 2 * r >= d /\ (2 * r = d => q # 0)
<1>1. PICK q \in Nat, r \in Nat : q = n \div d /\ r = n % d /\ n = d * q + r /\ r < d
  BY Division
<1>2. Nearest(n, d) = IF 2 * r > d \/ (2 * r = d /\ q % 2 = 1) THEN q + 1 ELSE q
  BY <1>1 DEF Nearest
<1>3. 0 % 2 # 1
  OBVIOUS
<1>4. QED
  BY <1>1, <1>2, <1>3

\* ToWei gives the whole number of wei that is nearest to a float of ether, its
\* fraction n/d, and none for half a wei: it formats and cuts the digits behind the
\* point, and never loses the carry into the digits before it.
THEOREM ToWeiIsNearest ==
  ASSUME NEW n \in Nat, NEW d \in Nat \ {0}, d < 2 * Unit \/ 2 * n <= d
  PROVE  LET wei == ToWei([n |-> n, d |-> d])
         IN  /\ wei \in Nat
             /\ 2 * (wei * d - n * Unit) <= d
             /\ 2 * (n * Unit - wei * d) <= d
             /\ 2 * n * Unit <= d => wei = 0
<1>0. Unit \in Nat \ {0}
  BY EtherAssumption
<1>1. PICK q \in Nat, r \in Nat : q = n \div d /\ r = n % d /\ n = d * q + r /\ r < d
  BY Division
<1> DEFINE m == r * Unit
           N == Nearest(m, d)
<1>2. m \in Nat
  BY <1>0
<1>3. PICK s \in Nat, t \in Nat :
        /\ m = d * s + t /\ t < d
        /\ \/ N = s /\ 2 * t <= d
           \/ N = s + 1 /\ 2 * t >= d /\ (2 * t = d => s # 0)
  BY <1>2, NearestIsNearest
<1> HIDE DEF m, N
<1>4. s < Unit
  <2>1. SUFFICES ASSUME s >= Unit PROVE FALSE
    BY <1>0
  <2>2. d * s >= d * Unit
    BY <1>0, <2>1
  <2>3. d * Unit > r * Unit
    BY <1>0, <1>1
  <2>4. QED
    BY <1>0, <1>3, <2>2, <2>3 DEF m
<1>5. N \in Nat /\ N < Unit
  <2>1. SUFFICES ASSUME N = s + 1, s + 1 = Unit PROVE FALSE
    BY <1>0, <1>3, <1>4
  <2>2. t = d - Unit * (d - r)
    <3>1. d * s = d * Unit - d
      BY <1>0, <2>1
    <3>2. Unit * (d - r) = d * Unit - r * Unit
      BY <1>0
    <3>3. QED
      BY <1>0, <1>3, <3>1, <3>2 DEF m
  <2>3. CASE d < 2 * Unit
    <3>1. Unit * (d - r) >= Unit
      BY <1>0, <1>1
    <3>2. QED
      BY <1>0, <1>3, <2>1, <2>2, <2>3, <3>1
  <2>4. CASE 2 * n <= d
    <3>1. n < d
      BY <2>4
    <3>2. q = 0
      <4>1. CASE q >= 1
        <5>1. d * q >= d
          BY <4>1
        <5>2. QED
          BY <1>1, <3>1, <5>1
      <4>2. QED
        BY <4>1
    <3>3. r = n /\ 2 * (d - r) >= d
      BY <1>1, <2>4, <3>2
    <3>4. Unit * (2 * (d - r)) >= Unit * d
      BY <1>0, <1>1, <3>3
    <3>5. 2 * (Unit * (d - r)) = Unit * (2 * (d - r))
      BY <1>0
    <3>6. 2 * t <= 2 * d - Unit * d
      BY <1>0, <2>2, <3>4, <3>5
    <3>7. Unit * d >= d
      BY <1>0
    <3>8. 2 * t = d /\ Unit * d = d
      BY <1>0, <1>3, <2>1, <3>6, <3>7
    <3>9. s # 0 /\ Unit >= 2
      BY <1>0, <1>3, <2>1, <3>8
    <3>10. Unit * d >= 2 * d
      BY <1>0, <3>9
    <3>11. QED
      BY <3>8, <3>10
  <2>5. QED
    BY <2>3, <2>4
<1>6. ToWei([n |-> n, d |-> d]) = q * Unit + N
  <2>1. Digits([n |-> n, d |-> d]) = N % Unit
    BY <1>1 DEF Digits, N, m
  <2>2. N % Unit = N
    BY <1>0, <1>5
  <2>3. QED
    BY <1>1, <2>1, <2>2 DEF ToWei
<1>7. (q * Unit + N) * d - n * Unit = N * d - m
  <2>1. n * Unit = (d * q) * Unit + m
    BY <1>0, <1>1 DEF m
  <2>2. (q * Unit + N) * d = (d * q) * Unit + N * d
    BY <1>0, <1>5
  <2>3. QED
    BY <1>0, <1>2, <1>5, <2>1, <2>2
<1>8. 2 * (N * d - m) <= d /\ 2 * (m - N * d) <= d
  <2>1. CASE N = s /\ 2 * t <= d
    BY <1>3, <2>1
  <2>2. CASE N = s + 1 /\ 2 * t >= d
    BY <1>3, <2>2
  <2>3. QED
    BY <1>3, <2>1, <2>2
<1>9. 2 * n * Unit <= d => q * Unit + N = 0
  <2>1. SUFFICES ASSUME 2 * n * Unit <= d PROVE q * Unit + N = 0
    OBVIOUS
  <2>2. n < d
    <3>1. n <= n * Unit
      BY <1>0
    <3>2. QED
      BY <1>0, <2>1, <3>1
  <2>3. q = 0
    <3>1. CASE q >= 1
      <4>1. d * q >= d
        BY <3>1
      <4>2. QED
        BY <1>1, <2>2, <4>1
    <3>2. QED
      BY <3>1
  <2>4. 2 * m <= d
    BY <1>0, <1>1, <2>1, <2>3 DEF m
  <2>5. s = 0
    <3>1. CASE s >= 1
      <4>1. d * s >= d
        BY <3>1
      <4>2. QED
        BY <1>2, <1>3, <2>4, <4>1
    <3>2. QED
      BY <3>1
  <2>6. t = m
    BY <1>2, <1>3, <2>5
  <2>7. N = 0
    BY <1>2, <1>3, <2>4, <2>5, <2>6
  <2>8. QED
    BY <1>0, <2>3, <2>7
<1>10. QED
  BY <1>0, <1>2, <1>5, <1>6, <1>7, <1>8, <1>9

-----------------------------------------------------------------------------
(* Floats are close to what they stand for *)

LEMMA MultipliedLeq ==
  ASSUME NEW k \in Nat, NEW x \in Int, NEW y \in Int, x <= y
  PROVE  k * x <= k * y
OBVIOUS

LEMMA CancelledLeq ==
  ASSUME NEW k \in Nat \ {0}, NEW x \in Int, NEW y \in Int, k * x <= k * y
  PROVE  x <= y
<1>1. SUFFICES ASSUME x >= y + 1 PROVE FALSE
  OBVIOUS
<1>2. k * x >= k * (y + 1)
  BY <1>1
<1>3. k * (y + 1) = k * y + k
  OBVIOUS
<1>4. QED
  BY <1>2, <1>3

\* The powers of two are positive, and grow.
LEMMA PowersArePositive ==
  /\ \A k \in 0..MaxShift : 2^k \in Nat \ {0}
  /\ 2^0 = 1
<1>0. MaxShift \in Nat /\ \A k \in 0..MaxShift : 2^(k + 1) = 2 * 2^k
  BY EtherAssumption, PowersAssumption
<1>1. 2^0 = 1
  OBVIOUS
<1>2. \A k \in Nat : 2^k \in Int
  OBVIOUS
<1> DEFINE T == {k \in 0..MaxShift : ~(2^k >= 1)}
<1>3. T = {}
  <2>1. SUFFICES ASSUME T # {} PROVE FALSE
    OBVIOUS
  <2>2. T \in SUBSET Nat
    OBVIOUS
  <2>3. PICK m \in T : \A k \in T : m <= k
    BY <2>1, <2>2, LeastOfNat
  <2>4. m # 0 /\ m \in Nat
    <3>1. m \in Nat /\ ~(2^m >= 1)
      BY <2>2, <2>3
    <3>2. 2^0 >= 1
      BY <1>1
    <3>3. QED
      BY <3>1, <3>2
  <2>5. m - 1 \in 0..MaxShift /\ m - 1 \notin T
    BY <1>0, <2>3, <2>4
  <2>6. 2^(m - 1) >= 1
    BY <2>5
  <2>7. 2^((m - 1) + 1) = 2 * 2^(m - 1)
    BY <1>0, <2>5
  <2>8. (m - 1) + 1 = m /\ 2^(m - 1) \in Int
    BY <1>2, <2>4, <2>5
  <2>9. 2^m >= 1
    BY <2>6, <2>7, <2>8
  <2>10. QED
    BY <2>3, <2>9
<1>4. QED
  <2>1. ASSUME NEW k \in 0..MaxShift PROVE 2^k \in Nat \ {0}
    <3>1. k \notin T /\ k \in Nat
      BY <1>0, <1>3
    <3>2. 2^k >= 1 /\ 2^k \in Int
      BY <1>2, <3>1
    <3>3. QED
      BY <3>2
  <2>2. QED
    BY <1>1, <2>1

LEMMA PowersGrow ==
  ASSUME NEW i \in 0..MaxShift, NEW j \in 0..MaxShift, i < j
  PROVE  2 * 2^i <= 2^j
<1>0. MaxShift \in Nat /\ \A k \in 0..MaxShift : 2^(k + 1) = 2 * 2^k
  BY EtherAssumption, PowersAssumption
<1>2. \A k \in 0..MaxShift : 2^k \in Nat \ {0}
  BY PowersArePositive
<1> DEFINE T == {k \in 0..MaxShift : i < k /\ ~(2 * 2^i <= 2^k)}
<1>3. T = {}
  <2>1. SUFFICES ASSUME T # {} PROVE FALSE
    OBVIOUS
  <2>2. T \in SUBSET Nat
    OBVIOUS
  <2>3. PICK m \in T : \A k \in T : m <= k
    BY <2>1, <2>2, LeastOfNat
  <2>4. m \in Nat /\ i < m /\ ~(2 * 2^i <= 2^m) /\ m <= MaxShift
    BY <1>0, <2>3
  <2>5. m - 1 \in 0..MaxShift /\ m - 1 \notin T
    BY <1>0, <2>3, <2>4
  <2>6. (m - 1) + 1 = m /\ 2^m = 2 * 2^(m - 1)
    <3>1. (m - 1) + 1 = m
      BY <2>4
    <3>2. 2^((m - 1) + 1) = 2 * 2^(m - 1)
      BY <1>0, <2>5
    <3>3. QED
      BY <3>1, <3>2
  <2>7. CASE m - 1 = i
    BY <2>4, <2>6, <2>7
  <2>8. CASE m - 1 # i
    <3>1. i < m - 1
      BY <2>4, <2>8
    <3>2. 2 * 2^i <= 2^(m - 1)
      BY <2>5, <3>1
    <3>3. 2^(m - 1) \in Nat /\ 2^i \in Nat
      BY <1>2, <2>5
    <3>4. 2 * 2^i <= 2 * 2^(m - 1)
      BY <3>2, <3>3
    <3>5. QED
      BY <2>4, <2>6, <3>4
  <2>9. QED
    BY <2>7, <2>8
<1>4. QED
  BY <1>3

\* A number with all bits of a float is rounded by one part in 2^Precision at most,
\* and to no more bits.
LEMMA NearestIsClose ==
  ASSUME NEW n \in Nat, NEW d \in Nat \ {0}, NEW Q \in Nat, NEW h \in Nat, Q = 2 * h,
         h * d <= n, n < Q * d
  PROVE  LET N == Nearest(n, d)
         IN  /\ N \in Nat /\ N <= Q
             /\ N * d * Q <= n * (Q + 1) /\ n * Q <= N * d * (Q + 1)
<1> DEFINE N == Nearest(n, d)
<1>1. PICK q \in Nat, r \in Nat :
        /\ n = d * q + r /\ r < d
        /\ \/ N = q /\ 2 * r <= d
           \/ N = q + 1 /\ 2 * r >= d /\ (2 * r = d => q # 0)
  BY NearestIsNearest
<1> HIDE DEF N
<1>2. h <= q
  <2>1. SUFFICES ASSUME q + 1 <= h PROVE FALSE
    OBVIOUS
  <2>2. d * (q + 1) <= d * h
    BY <2>1, MultipliedLeq
  <2>3. d * (q + 1) = d * q + d
    OBVIOUS
  <2>4. QED
    BY <1>1, <2>2, <2>3
<1>3. q + 1 <= Q
  <2>1. SUFFICES ASSUME Q <= q PROVE FALSE
    OBVIOUS
  <2>2. d * Q <= d * q
    BY <2>1, MultipliedLeq
  <2>3. QED
    BY <1>1, <2>2
<1>4. N \in Nat /\ h <= N /\ N <= Q
  BY <1>1, <1>2, <1>3
<1>5. PICK m \in Nat : m = N * d
  BY <1>4
<1>6. 2 * (m - n) <= d /\ 2 * (n - m) <= d
  <2>1. CASE N = q /\ 2 * r <= d
    <3>1. m = d * q
      BY <1>5, <2>1
    <3>2. QED
      BY <1>1, <2>1, <3>1
  <2>2. CASE N = q + 1 /\ 2 * r >= d
    <3>1. m = d * q + d
      BY <1>5, <2>2
    <3>2. QED
      BY <1>1, <2>2, <3>1
  <2>3. QED
    BY <1>1, <2>1, <2>2
<1>7. h * d <= m
  <2>1. d * h <= d * N
    BY <1>4, MultipliedLeq
  <2>2. QED
    BY <1>4, <1>5, <2>1
<1>8. h * (2 * (m - n)) <= h * d /\ h * (2 * (n - m)) <= h * d
  BY <1>6, MultipliedLeq
<1>9. h * (2 * (m - n)) = m * Q - n * Q /\ h * (2 * (n - m)) = n * Q - m * Q
  OBVIOUS
<1>10. m * (Q + 1) = m * Q + m /\ n * (Q + 1) = n * Q + n
  OBVIOUS
<1>11. m * Q \in Int /\ n * Q \in Int /\ h * d \in Int
  OBVIOUS
<1>12. m * Q <= n * (Q + 1) /\ n * Q <= m * (Q + 1)
  BY <1>7, <1>8, <1>9, <1>10, <1>11
<1>13. QED
  BY <1>4, <1>5, <1>12 DEF N

\* What a float has to stay close to: a/b is c/d times y/x at most.
AtMost(a, b, c, d, x, y) == a * d * x <= c * b * y

\* One rounded operation is off by one part in 2^Precision at most.
LEMMA FloatIsClose ==
  ASSUME NEW n \in Nat, NEW d \in Nat \ {0}, InScope(n, d)
  PROVE  \E a \in Nat, b \in Nat :
           /\ b # 0 /\ Float(n, d) = [n |-> a, d |-> b]
           /\ b < 2 * Unit \/ 2 * a <= b
           /\ AtMost(a, b, n, d, 2^Precision, 2^Precision + 1)
           /\ AtMost(n, d, a, b, 2^Precision, 2^Precision + 1)
<1>0. PICK Q \in Nat, h \in Nat :
        /\ Q = 2^Precision /\ h = 2^(Precision - 1) /\ Q = 2 * h /\ h # 0 /\ Q < 2 * Unit
        /\ \A k \in 0..MaxShift : Precision < k => 2 * Q <= 2^k
        /\ \A k \in 0..MaxShift : k <= Precision => 2^k <= Q
        /\ Unit \in Nat \ {0} /\ MaxShift \in Nat
  <2>1. /\ Precision \in 0..MaxShift /\ Precision - 1 \in 0..MaxShift
        /\ Unit \in Nat \ {0} /\ MaxShift \in Nat
        /\ 2^Precision < 2 * Unit
    BY EtherAssumption, PowersAssumption
  <2>2. 2^((Precision - 1) + 1) = 2 * 2^(Precision - 1) /\ (Precision - 1) + 1 = Precision
    BY <2>1, PowersAssumption
  <2>3. 2^Precision \in Nat \ {0} /\ 2^(Precision - 1) \in Nat \ {0}
    BY <2>1, PowersArePositive
  <2>4. \A k \in 0..MaxShift : Precision < k => 2 * 2^Precision <= 2^k
    BY <2>1, PowersGrow
  <2>5. ASSUME NEW k \in 0..MaxShift, k <= Precision PROVE 2^k <= 2^Precision
    <3>1. 2^k \in Nat
      BY PowersArePositive
    <3>2. CASE k = Precision
      BY <2>3, <3>2
    <3>3. CASE k < Precision
      <4>1. 2 * 2^k <= 2^Precision
        BY <2>1, <3>3, PowersGrow
      <4>2. QED
        BY <2>3, <3>1, <4>1
    <3>4. QED
      BY <2>1, <2>5, <3>2, <3>3
  <2>6. QED
    BY <2>1, <2>2, <2>3, <2>4, <2>5
<1>1. CASE n = 0
  <2>1. Float(n, d) = [n |-> 0, d |-> 1] /\ 1 < 2 * Unit
    BY <1>0, <1>1 DEF Float
  <2>2. AtMost(0, 1, n, d, Q, Q + 1) /\ AtMost(n, d, 0, 1, Q, Q + 1)
    BY <1>0, <1>1 DEF AtMost
  <2>3. QED
    BY <1>0, <2>1, <2>2
<1>2. CASE n # 0
  <2> DEFINE k == CHOOSE i \in Exponents(n, d) : TRUE
             x == Shifted(n, d, k)
             N == Nearest(x.n, x.d)
  <2>1. k \in (0 - MaxShift)..MaxShift /\ Normal(x)
    <3>1. k \in Exponents(n, d)
      BY <1>2 DEF InScope
    <3>2. QED
      BY <3>1 DEF Exponents
  <2>2. Float(n, d) = Shifted(N, 1, 0 - k)
    BY <1>2 DEF Float
  <2> HIDE DEF k
  <2>3. k \in Int /\ k <= MaxShift /\ 0 - k <= MaxShift
    BY <1>0, <2>1
\* Of a number with all bits of a float.
  <2>4. ASSUME NEW xn \in Nat, NEW xd \in Nat \ {0}, x = [n |-> xn, d |-> xd]
        PROVE  /\ N \in Nat /\ N <= Q
               /\ N * xd * Q <= xn * (Q + 1) /\ xn * Q <= N * xd * (Q + 1)
    <3>1. h * xd <= xn /\ xn < Q * xd
      BY <1>0, <2>1, <2>4 DEF Normal
    <3>2. N = Nearest(xn, xd)
      BY <2>4
    <3>3. QED
      BY <1>0, <3>1, <3>2, NearestIsClose
\* Shifted back.
  <2>5. CASE k > 0
    <3>1. PICK t \in Nat : t # 0 /\ t = 2^k
      BY <2>3, <2>5, PowersArePositive
    <3>2. x = [n |-> n * t, d |-> d] /\ n * t \in Nat
      BY <2>3, <2>5, <3>1 DEF Shifted
    <3>3. /\ N \in Nat /\ N <= Q
          /\ N * d * Q <= (n * t) * (Q + 1) /\ (n * t) * Q <= N * d * (Q + 1)
      BY <2>4, <3>2
    <3>4. Float(n, d) = [n |-> N, d |-> t]
      <4>1. ~(0 - k >= 0) /\ 0 - (0 - k) = k
        BY <2>3, <2>5
      <4>2. Float(n, d) = [n |-> N, d |-> 1 * 2^(0 - (0 - k))]
        BY <2>2, <4>1 DEF Shifted
      <4>3. QED
        BY <3>1, <4>1, <4>2
    <3>5. t < 2 * Unit \/ 2 * N <= t
      <4>1. k \in 0..MaxShift
        BY <2>3, <2>5
      <4>2. t <= Q \/ 2 * Q <= t
        BY <1>0, <2>3, <3>1, <4>1, EtherAssumption
      <4>3. QED
        BY <1>0, <3>3, <4>2
    <3>6. AtMost(N, t, n, d, Q, Q + 1) /\ AtMost(n, d, N, t, Q, Q + 1)
      BY <3>3 DEF AtMost
    <3>7. QED
      BY <1>0, <3>1, <3>3, <3>4, <3>5, <3>6
  <2>6. CASE k <= 0
    <3>1. PICK t \in Nat : t # 0 /\ t = 2^(0 - k)
      BY <2>3, <2>6, PowersArePositive
    <3>2. x = [n |-> n, d |-> d * t] /\ d * t \in Nat \ {0}
      <4>1. d * t \in Nat \ {0}
        BY <3>1
      <4>2. CASE k = 0
        <5>1. t = 1 /\ n * t = n /\ d * t = d /\ 2^k = t
          BY <3>1, <4>2, PowersArePositive
        <5>2. QED
          BY <4>1, <4>2, <5>1 DEF Shifted
      <4>3. CASE k < 0
        BY <2>3, <3>1, <4>1, <4>3 DEF Shifted
      <4>4. QED
        BY <2>3, <2>6, <4>2, <4>3
    <3>3. /\ N \in Nat /\ N <= Q
          /\ N * (d * t) * Q <= n * (Q + 1) /\ n * Q <= N * (d * t) * (Q + 1)
      BY <2>4, <3>2
    <3>4. Float(n, d) = [n |-> N * t, d |-> 1]
      <4>1. 0 - k >= 0
        BY <2>3, <2>6
      <4>2. QED
        BY <2>2, <3>1, <4>1 DEF Shifted
    <3>5. AtMost(N * t, 1, n, d, Q, Q + 1) /\ AtMost(n, d, N * t, 1, Q, Q + 1)
      <4>1. (N * t) * d * Q = N * (d * t) * Q /\ (N * t) * d * (Q + 1) = N * (d * t) * (Q + 1)
        BY <1>0, <3>1, <3>3
      <4>2. n * 1 = n
        OBVIOUS
      <4>3. /\ (N * t) * d * Q <= n * 1 * (Q + 1)
            /\ n * 1 * Q <= (N * t) * d * (Q + 1)
        BY <3>3, <4>1, <4>2
      <4>4. QED
        BY <4>3 DEF AtMost
    <3>6. PICK a \in Nat : a = N * t
      BY <3>1, <3>3
    <3>7. /\ Float(n, d) = [n |-> a, d |-> 1] /\ 1 < 2 * Unit
          /\ AtMost(a, 1, n, d, 2^Precision, 2^Precision + 1)
          /\ AtMost(n, d, a, 1, 2^Precision, 2^Precision + 1)
      BY <1>0, <3>4, <3>5, <3>6
    <3>8. QED
      BY <3>7
  <2>7. QED
    BY <2>3, <2>5, <2>6
<1>3. QED
  BY <1>1, <1>2

LEMMA FloatType ==
  ASSUME NEW n \in Nat, NEW d \in Nat \ {0}, InScope(n, d)
  PROVE  Float(n, d) \in Fraction
<1>1. PICK a \in Nat, b \in Nat : b # 0 /\ Float(n, d) = [n |-> a, d |-> b]
  BY FloatIsClose
<1>2. QED
  BY <1>1 DEF Fraction

\* A float has three bits at least.
LEMMA PrecisionIsEight == 2^Precision \in Nat /\ 2^Precision >= 8
<1>1. Precision \in 0..MaxShift /\ 2 < Precision /\ MaxShift \in Nat
  BY EtherAssumption, PowersAssumption
<1>2. 0 \in 0..MaxShift /\ 1 \in 0..MaxShift /\ 2 \in 0..MaxShift
  BY <1>1
<1>3. /\ 2^0 = 1 /\ 2^1 \in Nat /\ 2^2 \in Nat /\ 2^Precision \in Nat
  BY <1>1, <1>2, PowersArePositive
<1>4. 2 * 2^0 <= 2^1
  BY <1>2, PowersGrow
<1>5. 2 * 2^1 <= 2^2
  BY <1>2, PowersGrow
<1>6. 2 * 2^2 <= 2^Precision
  BY <1>1, <1>2, PowersGrow
<1>7. QED
  BY <1>3, <1>4, <1>5, <1>6

-----------------------------------------------------------------------------
(* From one operation to the next *)

LEMMA AtMostChain ==
  ASSUME NEW a \in Nat, NEW b \in Nat, NEW c \in Nat, NEW d \in Nat \ {0},
         NEW e \in Nat, NEW f \in Nat,
         NEW x \in Nat, NEW y \in Nat, NEW u \in Nat, NEW v \in Nat,
         AtMost(a, b, c, d, x, y), AtMost(c, d, e, f, u, v)
  PROVE  AtMost(a, b, e, f, x * u, y * v)
<1>1. a * d * x <= c * b * y /\ c * f * u <= e * d * v
  BY DEF AtMost
<1>2. (f * u) * (a * d * x) <= (f * u) * (c * b * y)
  <2>1. f * u \in Nat /\ a * d * x \in Int /\ c * b * y \in Int
    OBVIOUS
  <2>2. QED
    BY <1>1, <2>1, MultipliedLeq
<1>3. (b * y) * (c * f * u) <= (b * y) * (e * d * v)
  <2>1. b * y \in Nat /\ c * f * u \in Int /\ e * d * v \in Int
    OBVIOUS
  <2>2. QED
    BY <1>1, <2>1, MultipliedLeq
<1>4. (f * u) * (c * b * y) = (b * y) * (c * f * u)
  OBVIOUS
<1>5. (f * u) * (a * d * x) = d * (a * f * (x * u))
  OBVIOUS
<1>6. (b * y) * (e * d * v) = d * (e * b * (y * v))
  OBVIOUS
<1>7. a * f * (x * u) \in Int /\ e * b * (y * v) \in Int
  OBVIOUS
<1>8. d * (a * f * (x * u)) <= d * (e * b * (y * v))
  BY <1>2, <1>3, <1>4, <1>5, <1>6
<1>9. QED
  BY <1>7, <1>8, CancelledLeq DEF AtMost

\* A factor on both sides, and a looser bound.
LEMMA AtMostScaled ==
  ASSUME NEW a \in Nat, NEW b \in Nat, NEW c \in Nat, NEW d \in Nat,
         NEW x \in Nat, NEW y \in Nat, NEW k \in Nat, AtMost(a, b, c, d, x, y)
  PROVE  /\ AtMost(a * k, b, c * k, d, x, y)
         /\ AtMost(a, b * k, c, d * k, x, y)
         /\ AtMost(a, b, c * k, d * k, x, y)
         /\ AtMost(a * k, b * k, c, d, x, y)
<1>1. k * (a * d * x) <= k * (c * b * y)
  <2>1. a * d * x \in Int /\ c * b * y \in Int
    OBVIOUS
  <2>2. QED
    BY <2>1, MultipliedLeq DEF AtMost
<1>2. k * (a * d * x) = (a * k) * d * x /\ k * (a * d * x) = a * (d * k) * x
  OBVIOUS
<1>3. k * (c * b * y) = (c * k) * b * y /\ k * (c * b * y) = c * (b * k) * y
  OBVIOUS
<1>4. QED
  BY <1>1, <1>2, <1>3 DEF AtMost

LEMMA AtMostLoosened ==
  ASSUME NEW a \in Nat, NEW b \in Nat, NEW c \in Nat, NEW d \in Nat,
         NEW x \in Nat, NEW y \in Nat, NEW u \in Nat, NEW v \in Nat, u <= v,
         AtMost(a, b, c, d, x, y)
  PROVE  AtMost(a, b, c, d, x * u, y * v)
<1>1. a * d * x <= c * b * y /\ a * d * x \in Nat /\ c * b * y \in Nat
  BY DEF AtMost
<1>2. u * (a * d * x) <= u * (c * b * y)
  BY <1>1, MultipliedLeq
<1>3. (c * b * y) * u <= (c * b * y) * v
  BY <1>1, MultipliedLeq
<1>4. u * (a * d * x) = a * d * (x * u) /\ u * (c * b * y) = (c * b * y) * u
  OBVIOUS
<1>5. (c * b * y) * v = c * b * (y * v)
  OBVIOUS
<1>6. QED
  BY <1>2, <1>3, <1>4, <1>5 DEF AtMost

Fourth(x) == x * x * x * x

\* One or two rounded operations are within four.
LEMMA AtMostFour ==
  ASSUME NEW a \in Nat, NEW b \in Nat, NEW c \in Nat, NEW d \in Nat,
         NEW Q \in Nat, NEW R \in Nat, Q <= R,
         AtMost(a, b, c, d, Q, R) \/ AtMost(a, b, c, d, Q * Q, R * R)
  PROVE  AtMost(a, b, c, d, Fourth(Q), Fourth(R))
<1>1. /\ Q * Q \in Nat /\ R * R \in Nat /\ (Q * Q) * Q \in Nat /\ (R * R) * R \in Nat
  OBVIOUS
<1>2. AtMost(a, b, c, d, Q * Q, R * R)
  <2>1. CASE AtMost(a, b, c, d, Q, R)
    BY <1>1, <2>1, AtMostLoosened
  <2>2. QED
    BY <2>1
<1>3. AtMost(a, b, c, d, (Q * Q) * Q, (R * R) * R)
  BY <1>1, <1>2, AtMostLoosened
<1>4. AtMost(a, b, c, d, ((Q * Q) * Q) * Q, ((R * R) * R) * R)
  BY <1>1, <1>3, AtMostLoosened
<1>5. QED
  BY <1>4 DEF Fourth

\* Two amounts that are within a bound of each other.
IsClose(a, b, c, d, x, y)    == AtMost(a, b, c, d, x, y) /\ AtMost(c, d, a, b, x, y)
TwiceClose(a, b, c, d, x, y) == IsClose(a, b, c, d, x * x, y * y)

LEMMA CloseChain ==
  ASSUME NEW a \in Nat, NEW b \in Nat, NEW c \in Nat, NEW d \in Nat \ {0},
         NEW e \in Nat, NEW f \in Nat, NEW x \in Nat, NEW y \in Nat,
         IsClose(a, b, c, d, x, y), IsClose(c, d, e, f, x, y)
  PROVE  TwiceClose(a, b, e, f, x, y)
<1>1. /\ AtMost(a, b, c, d, x, y) /\ AtMost(c, d, e, f, x, y)
      /\ AtMost(e, f, c, d, x, y) /\ AtMost(c, d, a, b, x, y)
  BY DEF IsClose
<1>2. AtMost(a, b, e, f, x * x, y * y)
  BY <1>1, AtMostChain
<1>3. AtMost(e, f, a, b, x * x, y * y)
  BY <1>1, AtMostChain
<1>4. QED
  BY <1>2, <1>3 DEF IsClose, TwiceClose

\* Four roundings are less than five parts in 2^Precision.
LEMMA FourWithinFive ==
  ASSUME NEW a \in Nat, NEW b \in Nat, NEW c \in Nat, NEW d \in Nat,
         NEW Q \in Nat, NEW R \in Nat, Q >= 8, R = Q + 1,
         AtMost(a, b, c, d, Fourth(Q), Fourth(R))
  PROVE  AtMost(a, b, c, d, Q, Q + 5)
<1>1. PICK S \in Nat : S = Q * Q
  OBVIOUS
<1>2. PICK K \in Nat : K = S * Q
  BY <1>1
<1>3. Fourth(Q) = K * Q
  BY <1>1, <1>2 DEF Fourth
<1>4. Fourth(R) = K * Q + 4 * K + 6 * S + 4 * Q + 1
  <2>1. R * R = S + 2 * Q + 1
    BY <1>1
  <2>2. R * R * R = K + 3 * S + 3 * Q + 1
    <3>1. R * R * R = (S + 2 * Q + 1) * (Q + 1)
      BY <2>1
    <3>2. (S + 2 * Q + 1) * (Q + 1) = S * Q + 2 * (Q * Q) + Q + S + 2 * Q + 1
      OBVIOUS
    <3>3. QED
      BY <1>1, <1>2, <3>1, <3>2
  <2>3. Fourth(R) = (K + 3 * S + 3 * Q + 1) * (Q + 1)
    BY <2>2 DEF Fourth
  <2>4. (K + 3 * S + 3 * Q + 1) * (Q + 1) = K * Q + 3 * (S * Q) + 3 * (Q * Q) + Q + K + 3 * S + 3 * Q + 1
    OBVIOUS
  <2>5. QED
    BY <1>1, <1>2, <2>3, <2>4
<1>5. 6 * S + 4 * Q + 1 <= K
  <2>1. S * 8 <= S * Q
    BY MultipliedLeq
  <2>2. Q * 8 <= Q * Q
    BY MultipliedLeq
  <2>3. QED
    BY <1>1, <1>2, <2>1, <2>2
<1>6. PICK F \in Nat : F = Fourth(R)
  BY <1>4
<1>7. F <= K * (Q + 5)
  <2>1. K * (Q + 5) = K * Q + 5 * K
    OBVIOUS
  <2>2. QED
    BY <1>4, <1>5, <1>6, <2>1
<1>8. a * d * (K * Q) <= c * b * F
  BY <1>3, <1>6 DEF AtMost
<1>9. (c * b) * F <= (c * b) * (K * (Q + 5))
  <2>1. c * b \in Nat /\ K * (Q + 5) \in Int
    OBVIOUS
  <2>2. QED
    BY <1>7, <2>1, MultipliedLeq
<1>10. K * (a * d * Q) <= K * (c * b * (Q + 5))
  <2>1. a * d * (K * Q) = K * (a * d * Q)
    OBVIOUS
  <2>2. (c * b) * (K * (Q + 5)) = K * (c * b * (Q + 5))
    OBVIOUS
  <2>3. QED
    BY <1>8, <1>9, <2>1, <2>2
<1>11. K # 0
  BY <1>1, <1>2, <1>5
<1>12. QED
  <2>1. a * d * Q \in Int /\ c * b * (Q + 5) \in Int
    OBVIOUS
  <2>2. QED
    BY <1>10, <1>11, <2>1, CancelledLeq DEF AtMost

LEMMA CloseWithinFive ==
  ASSUME NEW a \in Nat, NEW b \in Nat, NEW c \in Nat, NEW d \in Nat,
         NEW Q \in Nat, NEW R \in Nat, Q >= 8, R = Q + 1,
         IsClose(a, b, c, d, Fourth(Q), Fourth(R))
  PROVE  IsClose(a, b, c, d, Q, Q + 5)
<1>1. AtMost(a, b, c, d, Fourth(Q), Fourth(R)) /\ AtMost(c, d, a, b, Fourth(Q), Fourth(R))
  BY DEF IsClose
<1>2. AtMost(a, b, c, d, Q, Q + 5)
  BY <1>1, FourWithinFive
<1>3. AtMost(c, d, a, b, Q, Q + 5)
  BY <1>1, FourWithinFive
<1>4. QED
  BY <1>2, <1>3 DEF IsClose

\* What is divided by two close amounts comes out as close.
LEMMA AtMostInverted ==
  ASSUME NEW a \in Nat, NEW b \in Nat, NEW c \in Nat, NEW d \in Nat,
         NEW x \in Nat, NEW y \in Nat, NEW m \in Nat, NEW k \in Nat,
         AtMost(a, b, c, d, x, y)
  PROVE  AtMost(d * m, c * k, b * m, a * k, x, y)
<1>1. (m * k) * (a * d * x) <= (m * k) * (c * b * y)
  <2>1. m * k \in Nat /\ a * d * x \in Int /\ c * b * y \in Int
    OBVIOUS
  <2>2. QED
    BY <2>1, MultipliedLeq DEF AtMost
<1>2. (m * k) * (a * d * x) = (d * m) * (a * k) * x
  OBVIOUS
<1>3. (m * k) * (c * b * y) = (b * m) * (c * k) * y
  OBVIOUS
<1>4. QED
  BY <1>1, <1>2, <1>3 DEF AtMost

LEMMA TwiceWithinFour ==
  ASSUME NEW a \in Nat, NEW b \in Nat, NEW c \in Nat, NEW d \in Nat,
         NEW Q \in Nat, NEW R \in Nat, Q <= R, TwiceClose(a, b, c, d, Q, R)
  PROVE  IsClose(a, b, c, d, Fourth(Q), Fourth(R))
<1>1. AtMost(a, b, c, d, Q * Q, R * R) /\ AtMost(c, d, a, b, Q * Q, R * R)
  BY DEF IsClose, TwiceClose
<1>2. AtMost(a, b, c, d, Fourth(Q), Fourth(R))
  BY <1>1, AtMostFour
<1>3. AtMost(c, d, a, b, Fourth(Q), Fourth(R))
  BY <1>1, AtMostFour
<1>4. QED
  BY <1>2, <1>3 DEF IsClose

\* The gas g/P, which the code has as a2/b2, is taken, although the limit L/D is less,
\* which the code has as l/m until it is rounded again.
LEMMA GasForLimit ==
  ASSUME NEW g \in Nat, NEW P \in Nat \ {0}, NEW L \in Nat, NEW D \in Nat \ {0},
         NEW l \in Nat, NEW m \in Nat \ {0}, NEW Q \in Nat, NEW R \in Nat, Q <= R,
         NEW a2 \in Nat, NEW b2 \in Nat \ {0},
         TwiceClose(a2, b2, g, P, Q, R), IsClose(l, m, L, D, Q, R),
         AtMost(a2, b2, l, m, Q, R), AtMost(L, D, g, P, 1, 1)
  PROVE  IsClose(a2, b2, L, D, Fourth(Q), Fourth(R))
<1>1. Q * Q \in Nat /\ R * R \in Nat
  OBVIOUS
<1>2. AtMost(g, P, a2, b2, Q * Q, R * R) /\ AtMost(l, m, L, D, Q, R)
  BY DEF IsClose, TwiceClose
<1>3. AtMost(L, D, a2, b2, 1 * (Q * Q), 1 * (R * R))
  BY <1>1, <1>2, AtMostChain
<1>4. 1 * (Q * Q) = Q * Q /\ 1 * (R * R) = R * R
  BY <1>1
<1>5. AtMost(L, D, a2, b2, Fourth(Q), Fourth(R))
  BY <1>3, <1>4, AtMostFour
<1>6. AtMost(a2, b2, L, D, Q * Q, R * R)
  BY <1>2, AtMostChain
<1>7. AtMost(a2, b2, L, D, Fourth(Q), Fourth(R))
  BY <1>6, AtMostFour
<1>8. QED
  BY <1>5, <1>7 DEF IsClose

\* The limit is taken, which the code has as a4/b4, although the gas is less.
LEMMA LimitForGas ==
  ASSUME NEW g \in Nat, NEW P \in Nat \ {0}, NEW L \in Nat, NEW D \in Nat \ {0},
         NEW l \in Nat, NEW m \in Nat \ {0}, NEW Q \in Nat, NEW R \in Nat, Q <= R,
         NEW a2 \in Nat, NEW b2 \in Nat \ {0}, NEW a4 \in Nat, NEW b4 \in Nat \ {0},
         TwiceClose(a2, b2, g, P, Q, R), IsClose(l, m, L, D, Q, R), IsClose(a4, b4, l, m, Q, R),
         AtMost(l, m, a2, b2, Q, R), AtMost(g, P, L, D, 1, 1)
  PROVE  IsClose(a4, b4, g, P, Fourth(Q), Fourth(R))
<1>1. Q * Q \in Nat /\ R * R \in Nat
  OBVIOUS
<1>2. AtMost(a2, b2, g, P, Q * Q, R * R) /\ AtMost(L, D, l, m, Q, R)
      /\ AtMost(l, m, a4, b4, Q, R) /\ AtMost(a4, b4, l, m, Q, R)
  BY DEF IsClose, TwiceClose
<1>3. AtMost(L, D, a4, b4, Q * Q, R * R)
  BY <1>2, AtMostChain
<1>4. AtMost(g, P, a4, b4, 1 * (Q * Q), 1 * (R * R))
  BY <1>1, <1>3, AtMostChain
<1>5. 1 * (Q * Q) = Q * Q /\ 1 * (R * R) = R * R
  BY <1>1
<1>6. AtMost(g, P, a4, b4, Fourth(Q), Fourth(R))
  BY <1>4, <1>5, AtMostFour
<1>7. AtMost(a4, b4, a2, b2, Q * Q, R * R)
  BY <1>2, AtMostChain
<1>8. AtMost(a4, b4, g, P, (Q * Q) * (Q * Q), (R * R) * (R * R))
  BY <1>1, <1>2, <1>7, AtMostChain
<1>9. (Q * Q) * (Q * Q) = Fourth(Q) /\ (R * R) * (R * R) = Fourth(R)
  BY DEF Fourth
<1>10. QED
  BY <1>6, <1>8, <1>9 DEF IsClose

\* The wei are the amount n/d, up to one wei and a bound.
WeiAre(w, n, d, x, y) ==
  w \in Nat /\ (w - 1) * d * x <= n * y /\ n * x <= (w + 1) * d * y

LEMMA WeiAreIsAbout ==
  ASSUME NEW wei, NEW n \in Nat, NEW d \in Nat, NEW parts \in Nat,
         WeiAre(wei, n, d, 2^Precision, 2^Precision + parts)
  PROVE  IsAbout(wei, [n |-> n, d |-> d], parts)
<1>1. PICK Q \in Nat, R \in Nat : Q = 2^Precision /\ R = 2^Precision + parts
  BY PrecisionIsEight
<1>2. wei \in Nat /\ (wei - 1) * d * Q <= n * R /\ n * Q <= (wei + 1) * d * R
  BY <1>1 DEF WeiAre
<1>3. n * 1 = n
  OBVIOUS
<1>4. (wei - 1) * d * Q <= n * 1 * R /\ n * 1 * Q <= (wei + 1) * d * R
  BY <1>2, <1>3
<1>5. QED
  BY <1>1, <1>2, <1>4 DEF IsAbout, UpTo, Number

\* What is close in ether is close in wei, up to one of them.
LEMMA WeiIsAbout ==
  ASSUME NEW a \in Nat, NEW b \in Nat, b # 0, b < 2 * Unit \/ 2 * a <= b,
         NEW n \in Nat, NEW d \in Nat \ {0}, NEW c \in Nat, c = d * Unit,
         NEW x \in Nat, NEW y \in Nat, IsClose(a, b, n, c, x, y)
  PROVE  WeiAre(ToWei([n |-> a, d |-> b]), n, d, x, y)
<1>0. Unit \in Nat \ {0}
  BY EtherAssumption
<1>1. PICK w \in Nat : /\ w = ToWei([n |-> a, d |-> b])
                       /\ 2 * (w * b - a * Unit) <= b /\ 2 * (a * Unit - w * b) <= b
  BY ToWeiIsNearest
<1>2. (w - 1) * b <= a * Unit /\ a * Unit <= (w + 1) * b
  <2>1. (w - 1) * b = w * b - b /\ (w + 1) * b = w * b + b
    OBVIOUS
  <2>2. w * b \in Int /\ a * Unit \in Int
    BY <1>0
  <2>3. QED
    BY <1>1, <2>1, <2>2
<1>3. a * (d * Unit) * x <= n * b * y /\ n * b * x <= a * (d * Unit) * y
  BY DEF IsClose, AtMost
<1>4. (w - 1) * d * x <= n * y
  <2>1. (d * x) * ((w - 1) * b) <= (d * x) * (a * Unit)
    <3>1. d * x \in Nat /\ (w - 1) * b \in Int /\ a * Unit \in Int
      BY <1>0
    <3>2. QED
      BY <1>2, <3>1, MultipliedLeq
  <2>2. (d * x) * ((w - 1) * b) = b * ((w - 1) * d * x)
    OBVIOUS
  <2>3. (d * x) * (a * Unit) = a * (d * Unit) * x /\ n * b * y = b * (n * y)
    BY <1>0
  <2>4. (w - 1) * d * x \in Int /\ n * y \in Int
    OBVIOUS
  <2>5. b * ((w - 1) * d * x) <= b * (n * y)
    BY <1>0, <1>3, <2>1, <2>2, <2>3
  <2>6. QED
    BY <2>4, <2>5, CancelledLeq
<1>5. n * x <= (w + 1) * d * y
  <2>1. (d * y) * (a * Unit) <= (d * y) * ((w + 1) * b)
    <3>1. d * y \in Nat /\ (w + 1) * b \in Int /\ a * Unit \in Int
      BY <1>0
    <3>2. QED
      BY <1>2, <3>1, MultipliedLeq
  <2>2. (d * y) * ((w + 1) * b) = b * ((w + 1) * d * y)
    OBVIOUS
  <2>3. (d * y) * (a * Unit) = a * (d * Unit) * y /\ n * b * x = b * (n * x)
    BY <1>0
  <2>4. (w + 1) * d * y \in Int /\ n * x \in Int
    OBVIOUS
  <2>5. b * (n * x) <= b * ((w + 1) * d * y)
    BY <1>0, <1>3, <2>1, <2>2, <2>3
  <2>6. QED
    BY <2>4, <2>5, CancelledLeq
<1>6. QED
  BY <1>1, <1>4, <1>5 DEF WeiAre

-----------------------------------------------------------------------------
(* Types *)

LEMMA PolicyType ==
  ASSUME DecisionTypes
  PROVE  /\ policies \in Seq(Policy) /\ Len(policies) \in Nat
         /\ DOMAIN policies = 1..Len(policies)
         /\ policy # 0 => Pol \in Policy
  BY DecisionAssumption DEF DecisionTypes, Pol

LEMMA DepositType == DecisionTypes => deposit \in Deposit
  BY DecisionAssumption DEF DecisionTypes

LEMMA NumberType == \A n \in Nat : Number(n) \in Fraction
  BY DEF Number, Fraction

\* A price in USD is a number again.
LEMMA InUSDType ==
  ASSUME NEW price \in Prices
  PROVE  InUSD(price) \in Fraction
<1>1. price \in Fraction /\ EthUSD \in Fraction /\ InScope(price.n * EthUSD.n, price.d * EthUSD.d)
  BY DecisionAssumption, ScopeAssumption
<1>2. price.n * EthUSD.n \in Nat /\ price.d * EthUSD.d \in Nat \ {0}
  BY <1>1 DEF Fraction
<1>3. Float(price.n * EthUSD.n, price.d * EthUSD.d) \in Fraction
  BY <1>1, <1>2, FloatType
<1>4. QED
  BY <1>3 DEF InUSD, Times

\* So is the amount of a deposit.
LEMMA ReadableType ==
  ASSUME NEW d \in Deposits
  PROVE  Readable(d.amount, OneToken[d.l1]) \in Fraction
<1>1. d.amount \in Nat /\ OneToken[d.l1] \in Nat \ {0} /\ InScope(d.amount, OneToken[d.l1])
  BY DecisionAssumption, ScopeAssumption DEF Deposit
<1>2. QED
  BY <1>1, FloatType DEF Readable

\* A change of the world leaves a world.
LEMMA ChangesAreWorlds ==
  ASSUME NEW w \in World, NEW v \in Changes(w)
  PROVE  v \in World
<1>1. CASE \E p \in Prices \cup {NoInfo} : v = [w EXCEPT !.price = p] \/ v = [w EXCEPT !.metis = p]
  BY <1>1 DEF World
<1>2. CASE v = [w EXCEPT !.funded = TRUE] \/ v = [w EXCEPT !.code = TRUE, !.active = TRUE]
  BY <1>2 DEF World
<1>3. CASE \E f \in BOOLEAN : v = [w EXCEPT !.active = TRUE, !.funded = f]
  BY <1>3 DEF World
<1> DEFINE P == {[w EXCEPT !.price = p] : p \in Prices \cup {NoInfo}}
           M == {[w EXCEPT !.metis = p] : p \in Prices \cup {NoInfo}}
           F == {[w EXCEPT !.funded = TRUE]}
           A == IF w.funded THEN {[w EXCEPT !.active = TRUE, !.funded = f] : f \in BOOLEAN} ELSE {}
           C == {[w EXCEPT !.code = TRUE, !.active = TRUE]}
<1>4. Changes(w) = UNION {P, M, F, A, C}
  BY DEF Changes
<1>5. /\ v \in P \cup M => \E p \in Prices \cup {NoInfo} : v = [w EXCEPT !.price = p] \/ v = [w EXCEPT !.metis = p]
      /\ v \in A => \E f \in BOOLEAN : v = [w EXCEPT !.active = TRUE, !.funded = f]
      /\ v \in F \cup C => v = [w EXCEPT !.funded = TRUE] \/ v = [w EXCEPT !.code = TRUE, !.active = TRUE]
  OBVIOUS
<1> HIDE DEF P, M, F, A, C
<1>6. v \in P \cup M \/ v \in A \/ v \in F \cup C
  BY <1>4
<1>7. QED
  BY <1>1, <1>2, <1>3, <1>5, <1>6

LEMMA DecisionTypesInductive ==
  ASSUME DecisionTypes, [Next]_vars
  PROVE  DecisionTypes'
<1> USE DecisionAssumption DEF DecisionTypes, Asking
<1>1. CASE Initial
  BY <1>1 DEF Initial, faucetVars, loopVars, itemVars, worldVars
<1>2. CASE BeginLoop
  BY <1>2 DEF BeginLoop, faucetVars, itemVars, worldVars
<1>3. ASSUME NEW d \in Deposits, Begin(d) PROVE DecisionTypes'
  <2>1. policy' \in 0..Len(policies')
    BY <1>3, ChosenMatches DEF Begin, faucetVars
  <2>2. rate' \in Fraction
    BY <1>3, NumberType DEF Begin
  <2>3. QED
    BY <1>3, <2>1, <2>2 DEF Begin, Later, faucetVars, loopVars
<1>4. CASE Check
  BY <1>4 DEF Check, After, End, Go, Steps, faucetVars, loopVars, worldVars
<1>5. CASE GetPrice
  <2>1. world.price \in Prices \/ Unknown(world.price)
    BY DEF World, Unknown
  <2>2. world.price \in Prices => InUSD(world.price) \in Fraction
    BY InUSDType
  <2>3. rate' \in Fraction
    BY <1>5, <2>1, <2>2 DEF GetPrice
  <2>4. QED
    BY <1>5, <2>3 DEF GetPrice, End, Go, Steps, faucetVars, loopVars, worldVars
<1>6. CASE DefaultRebate \/ GasRebate \/ CallFails
  BY <1>6 DEF DefaultRebate, GasRebate, CallFails, End, Go, Steps, faucetVars, loopVars, worldVars
<1>7. CASE Sign
  BY <1>7 DEF Sign, End, faucetVars, worldVars
<1>8. CASE NewDrip \/ EndLoop
  <2>1. /\ UNCHANGED <<policies, deposit, tokens, world>> /\ step' \in {"loop", "idle"}
        /\ policy' = 0 /\ rate' \in Fraction /\ verdict' = "none" /\ seen' = {}
    BY <1>8, NumberType DEF NewDrip, EndLoop, Forget, faucetVars
  <2>2. recset' \in BOOLEAN /\ hasDrip' \in BOOLEAN
    BY <1>8 DEF NewDrip, EndLoop
  <2>3. 0 \in 0..Len(policies)
    BY PolicyType
  <2>4. QED
    BY <2>1, <2>2, <2>3
<1>9. CASE Change
  <2>1. world' \in World
    BY <1>9, ChangesAreWorlds DEF Change
  <2>2. QED
    BY <1>9, <2>1 DEF Change, faucetVars, loopVars, itemVars
<1>10. CASE UNCHANGED vars
  BY <1>10 DEF vars, faucetVars, loopVars, worldVars, itemVars
<1>11. QED
  BY <1>1, <1>2, <1>3, <1>4, <1>5, <1>6, <1>7, <1>8, <1>9, <1>10
     DEF Next, ShouldTransfer, CalMetisDrip

-----------------------------------------------------------------------------
(* What a check finds out *)

\* What the check at each step is about.
Wanted(check) == CASE check = "amount" -> "minimum" [] check = "first" -> "first"
                   [] check = "nonce" -> "fresh" [] check = "gas" -> "no gas"
                   [] check = "code" -> "EOA"
Checks == {"amount", "first", "nonce", "gas", "code"}

\* Between Begin and the verdict nothing that was seen is forgotten, and the
\* wants do not change their meaning.
LEMMA EarnedIsKept ==
  ASSUME UNCHANGED <<policies, deposit, policy, hasDrip>>, seen \subseteq seen'
  PROVE  /\ Pol' = Pol
         /\ \A w : Value(w)' = Value(w)
         /\ \A want, w : Holds(want, w)' <=> Holds(want, w)
         /\ \A want : Earned(want) => Earned(want)'
<1>1. Pol' = Pol /\ \A w : Value(w)' = Value(w)
  BY DEF Pol, Value
<1>2. \A want, w : Holds(want, w)' <=> Holds(want, w)
  BY <1>1 DEF Holds, HasMinimum
<1>3. QED
  BY <1>1, <1>2 DEF Earned

\* An unknown token is worth nothing, which is below every minimum.
LEMMA UnknownMissesMinimum ==
  ASSUME DecisionTypes, policy # 0, world \in seen, AsksPrice, Unknown(world.price)
  PROVE  \E w \in seen : ~Holds("minimum", w)
<1>1. Pol.minUSD \in Fraction /\ Pol.minUSD.n > 0 /\ deposit \in Deposits
  BY PolicyType DEF AsksPrice, HasMinimum, Policy, DecisionTypes
<1>2. Readable(deposit.amount, OneToken[deposit.l1]) \in Fraction
  BY <1>1, ReadableType
<1>3. Value(world) = [n |-> 0, d |-> 1]
  BY DEF AsksPrice, Unknown, Value, Number
<1>4. Times(Value(world), Readable(deposit.amount, OneToken[deposit.l1])) = [n |-> 0, d |-> 1]
  <2>1. PICK x \in Fraction : x = Readable(deposit.amount, OneToken[deposit.l1])
    BY <1>2
  <2>2. 0 * x.n = 0
    BY DEF Fraction
  <2>3. QED
    BY <1>3, <2>1, <2>2 DEF Times, Float
<1>5. Less([n |-> 0, d |-> 1], Pol.minUSD)
  BY <1>1 DEF Less, Fraction
<1>6. ~Holds("minimum", world)
  BY <1>1, <1>4, <1>5 DEF Holds, HasMinimum
<1>7. QED
  BY <1>6

\* A check either finds that its want held when something was seen, and goes on,
\* or that it was missing, and refuses.
LEMMA CheckFindsOut ==
  ASSUME DecisionTypes, policy # 0, world \in seen, ChecksInv, step \in Checks
  PROVE  IF Refuses THEN \E w \in seen : ~Holds(Wanted(step), w) ELSE Earned(Wanted(step))
<1>1. Pol.first \in BOOLEAN /\ Pol.noGas \in BOOLEAN
  BY PolicyType DEF Policy
<1>2. CASE step = "amount"
  <2>1. CASE ~HasMinimum
    <3>1. Holds("minimum", world)
      BY <2>1 DEF Holds
    <3>2. QED
      BY <1>2, <2>1, <3>1 DEF Refuses, Earned, Wanted
  <2>2. CASE HasMinimum
    <3>1. PICK w \in seen : rate = Value(w)
      BY <1>2, <2>2 DEF ChecksInv
    <3>2. BelowMinimum <=> ~Holds("minimum", w)
      BY <2>2, <3>1 DEF BelowMinimum, Holds
    <3>3. QED
      BY <1>2, <2>2, <3>1, <3>2 DEF Refuses, Earned, Wanted
  <2>3. QED
    BY <2>1, <2>2
<1>3. CASE step = "first"
  BY <1>1, <1>3 DEF Refuses, Holds, Earned, Wanted
<1>4. CASE step = "nonce"
  BY <1>1, <1>4 DEF Refuses, Holds, Earned, Wanted
<1>5. CASE step = "gas"
  BY <1>1, <1>5 DEF Refuses, HasGas, Holds, Earned, Wanted
<1>6. CASE step = "code"
  BY <1>6 DEF Refuses, Holds, Earned, Wanted
<1>7. QED
  BY <1>2, <1>3, <1>4, <1>5, <1>6 DEF Checks

-----------------------------------------------------------------------------
(* The invariant *)

LEMMA DecisionInvInit == Init => DecisionInv
<1> SUFFICES ASSUME Init PROVE DecisionInv
  OBVIOUS
<1>1. Len(policies) \in Nat
  BY DecisionAssumption DEF Init
<1>2. world \in World
  BY DEF Init, World
<1>3. 0 \in 0..Len(policies) /\ Number(1) \in Fraction
  BY <1>1, NumberType
<1>4. DecisionTypes
  BY <1>2, <1>3 DEF Init, DecisionTypes, Asking
<1>5. QED
  BY <1>4 DEF Init, DecisionInv, ChecksInv, Asking, GrantIsEarned, RefusalIsEarned, Decided

LEMMA DecisionInvInductive ==
  ASSUME DecisionInv, [Next]_vars
  PROVE  DecisionInv'
<1> USE DEF Asking
<1>1. DecisionTypes /\ DecisionTypes'
  BY DecisionTypesInductive DEF DecisionInv
<1>2. CASE Initial \/ BeginLoop \/ NewDrip \/ EndLoop
  <2>1. /\ policies' = policies /\ step' \in {"off", "idle", "loop"}
        /\ step' = "off" \/ HasMatchAll
    BY <1>2 DEF Initial, BeginLoop, NewDrip, EndLoop, Forget, faucetVars, DecisionInv, HasMatchAll
  <2>2. step' # "off" => HasMatchAll'
    BY <2>1 DEF HasMatchAll
  <2>3. QED
    BY <1>1, <2>1, <2>2 DEF DecisionInv, ChecksInv, GrantIsEarned, RefusalIsEarned, Decided
<1>3. ASSUME NEW d \in Deposits, Begin(d) PROVE DecisionInv'
  <2>1. /\ policies' = policies /\ step' = "known" /\ rate' = Number(1) /\ policy' = Chosen(d)
        /\ world' \in seen' /\ HasMatchAll
    BY <1>3 DEF Begin, faucetVars, DecisionInv
  <2>2. HasMatchAll' /\ policy' # 0
    BY <1>1, <2>1, ChosenMatches DEF HasMatchAll
  <2>3. QED
    BY <1>1, <2>1, <2>2 DEF DecisionInv, ChecksInv, GrantIsEarned, RefusalIsEarned, Decided
\* The other steps are taken while a deposit is decided.
<1>4. ASSUME /\ UNCHANGED <<policies, deposit, policy, hasDrip, tokens>> /\ seen \subseteq seen'
             /\ step \in Asking /\ step' \in Asking \cup {"decided"} /\ world' \in seen'
      PROVE  /\ Pol' = Pol
             /\ \A w : Value(w)' = Value(w)
             /\ \A want, w : Holds(want, w)' <=> Holds(want, w)
             /\ \A want : Earned(want) => Earned(want)'
             /\ HasMatchAll' /\ policy # 0 /\ policy' # 0 /\ world \in seen
  BY <1>4, EarnedIsKept DEF DecisionInv, HasMatchAll
<1>5. CASE Check
  <2>1. /\ UNCHANGED <<policies, deposit, policy, hasDrip, tokens, recset, world, seen, rate>>
        /\ step \in DOMAIN After
        /\ IF Refuses THEN step' = "decided" /\ verdict' = "refuse"
                      ELSE step' = After[step] /\ verdict' = verdict
    BY <1>5 DEF Check, Steps, End, Go, faucetVars, loopVars, worldVars
  <2>2. step \in Asking /\ step' \in Asking \cup {"decided"}
    BY <2>1 DEF After
  <2>3. /\ Pol' = Pol /\ world \in seen /\ world' \in seen' /\ HasMatchAll' /\ policy # 0 /\ policy' # 0
        /\ \A w : Value(w)' = Value(w)
        /\ \A want, w : Holds(want, w)' <=> Holds(want, w)
        /\ \A want : Earned(want) => Earned(want)'
    BY <1>4, <2>1, <2>2 DEF DecisionInv
  <2>4. CASE step = "known"
    <3>1. CASE Refuses
      <4>1. deposit.l1 \notin tokens \/ recset
        BY <2>3, <2>4, <3>1 DEF Refuses, Unsupported
      <4>2. QED
        BY <1>1, <2>1, <2>3, <3>1, <4>1 DEF DecisionInv, ChecksInv, GrantIsEarned, RefusalIsEarned, Decided
    <3>2. CASE ~Refuses
      BY <1>1, <2>1, <2>3, <2>4, <3>2 DEF After, DecisionInv, ChecksInv, GrantIsEarned, RefusalIsEarned, Decided
    <3>3. QED
      BY <3>1, <3>2
  <2>5. CASE step \in Checks
    <3>1. PICK want : want = Wanted(step)
      OBVIOUS
    <3>2. want \in Wants
      BY <2>5, <3>1 DEF Checks, Wanted, Wants
    <3>3. IF Refuses THEN \E w \in seen : ~Holds(want, w) ELSE Earned(want)
      BY <1>1, <2>3, <2>5, <3>1, CheckFindsOut DEF DecisionInv
    <3>4. CASE Refuses
      <4>1. RefusalIsEarned'
        BY <2>1, <2>3, <3>2, <3>3, <3>4 DEF RefusalIsEarned
      <4>2. QED
        BY <1>1, <2>1, <2>3, <3>4, <4>1 DEF DecisionInv, ChecksInv, GrantIsEarned, Decided
    <3>5. CASE ~Refuses
      <4>1. Earned(want)' /\ step' = After[step]
        BY <2>1, <2>3, <3>3, <3>5
      <4>2. CASE step = "amount"
        BY <1>1, <2>3, <3>1, <4>1, <4>2 DEF Wanted, After, DecisionInv, ChecksInv, GrantIsEarned, RefusalIsEarned, Decided
      <4>3. CASE step = "first"
        BY <1>1, <2>3, <3>1, <4>1, <4>3 DEF Wanted, After, DecisionInv, ChecksInv, GrantIsEarned, RefusalIsEarned, Decided
      <4>4. CASE step = "nonce"
        BY <1>1, <2>3, <3>1, <4>1, <4>4 DEF Wanted, After, DecisionInv, ChecksInv, GrantIsEarned, RefusalIsEarned, Decided
      <4>5. CASE step = "gas"
        BY <1>1, <2>3, <3>1, <4>1, <4>5 DEF Wanted, After, DecisionInv, ChecksInv, GrantIsEarned, RefusalIsEarned, Decided
      <4>6. CASE step = "code"
        BY <1>1, <2>3, <3>1, <4>1, <4>6 DEF Wanted, After, DecisionInv, ChecksInv, GrantIsEarned, RefusalIsEarned, Decided
      <4>7. QED
        BY <2>5, <4>2, <4>3, <4>4, <4>5, <4>6 DEF Checks
    <3>6. QED
      BY <3>4, <3>5
  <2>6. QED
    BY <2>1, <2>4, <2>5 DEF After, Checks
<1>6. CASE GetPrice
  <2>1. /\ UNCHANGED <<policies, deposit, policy, hasDrip, tokens, recset, world, seen>>
        /\ step = "price"
        /\ IF AsksPrice /\ Unknown(world.price)
           THEN step' = "decided" /\ verdict' = "refuse"
           ELSE /\ step' = "amount" /\ verdict' = verdict
                /\ rate' = IF AsksPrice THEN InUSD(world.price) ELSE rate
    BY <1>6 DEF GetPrice, Steps, End, Go, faucetVars, loopVars, worldVars
  <2>2. step' \in {"decided", "amount"}
    BY <2>1
  <2>3. /\ Pol' = Pol /\ world \in seen /\ world' \in seen' /\ HasMatchAll' /\ policy # 0 /\ policy' # 0
        /\ \A w : Value(w)' = Value(w)
        /\ \A want, w : Holds(want, w)' <=> Holds(want, w)
    BY <1>4, <2>1, <2>2 DEF DecisionInv
  <2>4. CASE AsksPrice /\ Unknown(world.price)
    <3>1. \E w \in seen : ~Holds("minimum", w)
      BY <1>1, <2>3, <2>4, UnknownMissesMinimum
    <3>2. RefusalIsEarned'
      BY <2>1, <2>3, <3>1 DEF RefusalIsEarned, Wants
    <3>3. QED
      BY <1>1, <2>1, <2>3, <2>4, <3>2 DEF DecisionInv, ChecksInv, GrantIsEarned, Decided
  <2>5. CASE ~(AsksPrice /\ Unknown(world.price))
    <3>1. ~HasMinimum \/ rate' = Value(world)
      <4>1. rate = Number(1)
        BY <2>1 DEF DecisionInv, ChecksInv
      <4>2. CASE AsksPrice
        BY <2>1, <2>5, <4>2 DEF AsksPrice, Unknown, Value
      <4>3. CASE ~AsksPrice
        <5>1. ~HasMinimum \/ deposit.l1 = "stable"
          BY <4>3 DEF AsksPrice
        <5>2. rate' = Number(1)
          BY <2>1, <4>1, <4>3
        <5>3. deposit.l1 = "stable" => Value(world) = Number(1)
          BY DEF Value
        <5>4. QED
          BY <5>1, <5>2, <5>3
      <4>4. QED
        BY <4>2, <4>3
    <3>2. ChecksInv'
      <4>1. HasMinimum' <=> HasMinimum
        BY <2>3 DEF HasMinimum
      <4>2. QED
        BY <1>1, <2>1, <2>3, <2>5, <3>1, <4>1 DEF ChecksInv
    <3>3. QED
      BY <1>1, <2>1, <2>3, <2>5, <3>2 DEF DecisionInv, GrantIsEarned, RefusalIsEarned, Decided
  <2>6. QED
    BY <2>4, <2>5
<1>7. CASE CallFails \/ DefaultRebate \/ GasRebate
  <2>1. /\ UNCHANGED <<policies, deposit, policy, hasDrip, tokens, recset, world, seen, rate>>
        /\ step \in Asking
        /\ \/ step' = "decided" /\ verdict' \in {"error", "panic"}
           \/ step = "rebate" /\ step' = "sign"
    BY <1>7 DEF CallFails, Asks, DefaultRebate, GasRebate, Steps, End, Go, faucetVars, loopVars, worldVars
  <2>2. step' \in Asking \cup {"decided"}
    BY <2>1
  <2>3. /\ Pol' = Pol /\ world' \in seen' /\ HasMatchAll' /\ policy' # 0
        /\ \A want : Earned(want) => Earned(want)'
    BY <1>4, <2>1, <2>2 DEF DecisionInv
  <2>4. ChecksInv'
    BY <2>1, <2>3 DEF DecisionInv, ChecksInv
  <2>5. QED
    BY <1>1, <2>1, <2>3, <2>4 DEF DecisionInv, GrantIsEarned, RefusalIsEarned, Decided
<1>8. CASE Sign
  <2>1. /\ UNCHANGED <<policies, deposit, policy, hasDrip, tokens, world, seen>>
        /\ step = "sign" /\ step' = "decided" /\ verdict' = "grant"
    BY <1>8 DEF Sign, End, faucetVars, worldVars
  <2>2. /\ world' \in seen' /\ HasMatchAll' /\ policy' # 0
        /\ \A want : Earned(want) => Earned(want)'
    BY <1>4, <2>1 DEF DecisionInv
  <2>3. \A want \in Wants : Earned(want)
    BY <2>1 DEF Wants, DecisionInv, ChecksInv
  <2>4. GrantIsEarned'
    BY <2>2, <2>3 DEF GrantIsEarned, Earned
  <2>5. QED
    BY <1>1, <2>1, <2>2, <2>4 DEF DecisionInv, ChecksInv, RefusalIsEarned, Decided
<1>9. CASE Change
  <2>1. /\ UNCHANGED <<policies, deposit, policy, hasDrip, tokens, step, rate>>
        /\ step \in Asking /\ seen \subseteq seen' /\ world' \in seen'
    BY <1>1, <1>9 DEF Change, faucetVars, loopVars, itemVars, DecisionTypes
  <2>2. /\ Pol' = Pol /\ world' \in seen' /\ HasMatchAll' /\ policy' # 0
        /\ \A w : Value(w)' = Value(w)
        /\ \A want : Earned(want) => Earned(want)'
    BY <1>4, <2>1
  <2>3. ChecksInv'
    BY <2>1, <2>2 DEF DecisionInv, ChecksInv, HasMinimum
  <2>4. QED
    BY <1>1, <2>1, <2>2, <2>3 DEF DecisionInv, GrantIsEarned, RefusalIsEarned, Decided
<1>10. CASE UNCHANGED vars
  <2>1. UNCHANGED <<policies, tokens, recset, hasDrip, world, seen, deposit, policy, rate, verdict, step>>
    BY <1>10 DEF vars, faucetVars, loopVars, worldVars, itemVars
  <2>2. /\ Pol' = Pol /\ \A w : Value(w)' = Value(w)
        /\ \A want, w : Holds(want, w)' <=> Holds(want, w)
        /\ \A want : Earned(want) => Earned(want)'
    BY <2>1, EarnedIsKept
  <2>3. ChecksInv'
    BY <2>1, <2>2 DEF DecisionInv, ChecksInv, HasMinimum
  <2>4. GrantIsEarned' /\ RefusalIsEarned'
    BY <2>1, <2>2 DEF DecisionInv, GrantIsEarned, RefusalIsEarned, Decided
  <2>5. QED
    BY <1>1, <2>1, <2>3, <2>4 DEF DecisionInv, HasMatchAll
<1>11. QED
  BY <1>2, <1>3, <1>5, <1>6, <1>7, <1>8, <1>9, <1>10 DEF Next, ShouldTransfer, CalMetisDrip

LEMMA DecisionInvAlways == Spec => []DecisionInv
<1>1. Init => DecisionInv
  BY DecisionInvInit
<1>2. DecisionInv /\ [Next]_vars => DecisionInv'
  BY DecisionInvInductive
<1>3. QED
  BY <1>1, <1>2, PTL DEF Spec

\* A drip is granted only if everything its policy asks for held at some time
\* while the deposit was decided, whatever changed between the checks.
THEOREM GrantsAreEarned == Spec => []GrantIsEarned
<1>1. DecisionInv => GrantIsEarned
  BY DEF DecisionInv
<1>2. QED
  BY <1>1, DecisionInvAlways, PTL

\* A deposit is refused for ever only for something its policy asks for and that
\* was missing while it was decided, or for a token that is not on the list:
\* never because a call failed or no policy was found.
THEOREM RefusalsAreEarned == Spec => []RefusalIsEarned
<1>1. DecisionInv => RefusalIsEarned
  BY DEF DecisionInv
<1>2. QED
  BY <1>1, DecisionInvAlways, PTL

-----------------------------------------------------------------------------
(* The drips that do not depend on gas *)

\* The drip that was found at the start is the one of every grant.
AmountInv ==
  /\ drip \in Nat /\ flag \in DripAmounts
  /\ step # "start" => drip = DefaultDrip
  /\ (step = "sign" \/ Decided("grant")) /\ Pol.rebate = "default" => amount = drip

\* The wei of what is written behind a flag, n/d: those of its float, or 0.01 if these
\* are none.
LEMMA AskedIsNear ==
  ASSUME NEW n \in Nat, NEW d \in Nat \ {0}, InScope(n, d),
         NEW wei, wei = IF ToWei(Float(n, d)) < 1 THEN Unit \div 100 ELSE ToWei(Float(n, d)),
         NEW N \in Nat, N = n * Unit
  PROVE  /\ wei \in Nat
         /\ \/ /\ AtMost(1, 2, N, d, 2^Precision, 2^Precision + 1)
               /\ WeiAre(wei, N, d, 2^Precision, 2^Precision + 1) /\ wei > 0
            \/ AtMost(N, d, 1, 2, 2^Precision, 2^Precision + 1) /\ wei * 100 = Unit
<1>0. Unit \in Nat \ {0} /\ (Unit % 100) = 0
  BY EtherAssumption
<1>1. PICK Q \in Nat, R \in Nat : Q = 2^Precision /\ R = 2^Precision + 1
  BY PrecisionIsEight
<1>2. PICK a \in Nat, b \in Nat :
        /\ b # 0 /\ Float(n, d) = [n |-> a, d |-> b]
        /\ b < 2 * Unit \/ 2 * a <= b
        /\ AtMost(a, b, n, d, Q, R) /\ AtMost(n, d, a, b, Q, R)
  BY <1>1, FloatIsClose
<1>3. PICK w \in Nat : w = ToWei(Float(n, d)) /\ 2 * (w * b - a * Unit) <= b /\ 2 * (a * Unit - w * b) <= b
  BY <1>2, ToWeiIsNearest
<1>4. PICK A \in Nat : A = a * Unit
  BY <1>0
<1>5. AtMost(A, b, N, d, Q, R) /\ AtMost(N, d, A, b, Q, R)
  BY <1>0, <1>2, <1>4, AtMostScaled
<1>6. CASE w = 0
  <2>1. wei = Unit \div 100
    BY <1>3, <1>6
  <2>2. wei \in Nat /\ wei * 100 = Unit
    BY <1>0, <2>1, Division
  <2>3. AtMost(A, b, 1, 2, 1, 1)
    BY <1>3, <1>4, <1>6 DEF AtMost
  <2>4. AtMost(N, d, 1, 2, Q * 1, R * 1)
    BY <1>2, <1>5, <2>3, AtMostChain
  <2>5. Q * 1 = Q /\ R * 1 = R
    OBVIOUS
  <2>6. QED
    BY <1>1, <2>2, <2>4, <2>5
<1>7. CASE w # 0
  <2>1. wei = w /\ wei > 0
    BY <1>3, <1>7
  <2>2. w * b >= b
    BY <1>7
  <2>3. AtMost(1, 2, A, b, 1, 1)
    BY <1>3, <1>4, <2>2 DEF AtMost
  <2>4. AtMost(1, 2, N, d, 1 * Q, 1 * R)
    BY <1>2, <1>5, <2>3, AtMostChain
  <2>5. 1 * Q = Q /\ 1 * R = R
    OBVIOUS
  <2>6. PICK c \in Nat : c = d * Unit
    BY <1>0
  <2>7. IsClose(a, b, N, c, Q, R)
    <3>1. AtMost(a, b, N, c, Q, R) /\ AtMost(N, c, a, b, Q, R)
      BY <1>0, <1>2, <2>6, AtMostScaled
    <3>2. QED
      BY <3>1 DEF IsClose
  <2>8. WeiAre(w, N, d, Q, R)
    BY <1>2, <1>3, <2>6, <2>7, WeiIsAbout
  <2>9. QED
    BY <1>1, <2>1, <2>4, <2>5, <2>8
<1>8. QED
  BY <1>6, <1>7

\* Every default drip is one, for every flag.
LEMMA DefaultDripIsAsked ==
  ASSUME flag \in DripAmounts
  PROVE  DefaultDrip \in Nat /\ IsAsked(DefaultDrip)
<1>0. Unit \in Nat \ {0}
  BY EtherAssumption
<1>1. PICK n \in Nat, d \in Nat : d # 0 /\ Flag = [n |-> n, d |-> d] /\ InScope(n, d)
  <2>1. Flag \in Fraction /\ Flag \in DripAmounts \cup {Hundredth}
    BY DecisionAssumption DEF Flag, Hundredth, Fraction
  <2>2. InScope(Flag.n, Flag.d)
    BY <2>1, ScopeAssumption
  <2>3. QED
    BY <2>1, <2>2 DEF Fraction
<1>2. PICK N \in Nat : N = n * Unit
  BY <1>0
<1>3. PICK wei : wei = DefaultDrip
  OBVIOUS
<1>4. wei = IF ToWei(Float(n, d)) < 1 THEN Unit \div 100 ELSE ToWei(Float(n, d))
  BY <1>1, <1>3 DEF DefaultDrip
<1>5. /\ wei \in Nat
      /\ \/ /\ AtMost(1, 2, N, d, 2^Precision, 2^Precision + 1)
            /\ WeiAre(wei, N, d, 2^Precision, 2^Precision + 1) /\ wei > 0
         \/ AtMost(N, d, 1, 2, 2^Precision, 2^Precision + 1) /\ wei * 100 = Unit
  BY <1>1, <1>2, <1>4, AskedIsNear
<1> DEFINE asked == [n |-> N, d |-> d]
           half  == [n |-> 1, d |-> 2]
<1>6. asked = IF flag.n = 0 THEN [n |-> Unit, d |-> 100] ELSE [n |-> flag.n * Unit, d |-> flag.d]
  BY <1>0, <1>1, <1>2 DEF Flag, Hundredth
<1>7. /\ AtMost(1, 2, N, d, 2^Precision, 2^Precision + 1) => UpTo(half, asked, 1)
      /\ AtMost(N, d, 1, 2, 2^Precision, 2^Precision + 1) => UpTo(asked, half, 1)
  BY DEF AtMost, UpTo
<1>8. WeiAre(wei, N, d, 2^Precision, 2^Precision + 1) => IsAbout(wei, asked, 1)
  BY <1>5, WeiAreIsAbout
<1>9. IsAsked(wei)
  BY <1>5, <1>6, <1>7, <1>8 DEF IsAsked
<1>10. QED
  BY <1>3, <1>5, <1>9

LEMMA AmountInvInductive ==
  ASSUME AmountInv, [Next]_vars
  PROVE  AmountInv'
<1> USE DEF AmountInv, Decided
<1>1. CASE Initial
  <2>1. /\ flag' = flag /\ step' \in {"idle", "off"} /\ drip' = DefaultDrip
    BY <1>1 DEF Initial
  <2>2. DefaultDrip' = DefaultDrip /\ DefaultDrip \in Nat
    BY <2>1, DefaultDripIsAsked DEF DefaultDrip, Flag
  <2>3. QED
    BY <2>1, <2>2
\* In all other steps the default drip stays what it is.
<1>2. ASSUME UNCHANGED <<policies, drip, flag>>, step # "start" \/ step' = "start"
      PROVE  /\ drip' \in Nat /\ flag' \in DripAmounts
             /\ step' # "start" => drip' = DefaultDrip'
  BY <1>2 DEF DefaultDrip, Flag
<1>3. CASE BeginLoop \/ (\E d \in Deposits : Begin(d)) \/ NewDrip \/ EndLoop
  <2>1. UNCHANGED <<policies, drip, flag>> /\ step # "start" /\ step' \in {"loop", "idle", "known"}
    BY <1>3 DEF BeginLoop, Begin, NewDrip, EndLoop, Forget, faucetVars
  <2>2. QED
    BY <1>2, <2>1
<1>4. CASE Check \/ GetPrice \/ CallFails
  <2>1. /\ UNCHANGED <<policies, drip, flag>> /\ step # "start"
        /\ step' # "sign" /\ step' # "start" /\ (step' = "decided" => verdict' # "grant")
    BY <1>4 DEF Check, After, GetPrice, CallFails, Asks, End, Go, Steps, faucetVars
  <2>2. QED
    BY <1>2, <2>1
<1>5. CASE DefaultRebate
  <2>1. /\ UNCHANGED <<policies, policy, drip, flag>> /\ step = "rebate" /\ step' = "sign"
        /\ amount' = drip
    BY <1>5 DEF DefaultRebate, Go, Steps, faucetVars
  <2>2. QED
    BY <1>2, <2>1
<1>6. CASE GasRebate
  <2>1. /\ UNCHANGED <<policies, policy, drip, flag>> /\ step = "rebate" /\ Pol.rebate = "gas"
        /\ step' = "sign" \/ (step' = "decided" /\ verdict' \in {"error", "panic"})
    BY <1>6 DEF GasRebate, End, Go, Steps, faucetVars
  <2>2. Pol' = Pol
    BY <2>1 DEF Pol
  <2>3. QED
    BY <1>2, <2>1, <2>2
<1>7. CASE Sign
  <2>1. UNCHANGED <<policies, policy, drip, flag, amount>> /\ step = "sign" /\ step' = "decided"
    BY <1>7 DEF Sign, End, faucetVars
  <2>2. Pol' = Pol
    BY <2>1 DEF Pol
  <2>3. QED
    BY <1>2, <2>1, <2>2
<1>8. CASE Change \/ UNCHANGED vars
  <2>1. UNCHANGED <<policies, policy, drip, flag, amount, step, verdict>>
    BY <1>8 DEF Change, vars, faucetVars, itemVars
  <2>2. Pol' = Pol
    BY <2>1 DEF Pol
  <2>3. QED
    BY <1>2, <2>1, <2>2
<1>9. QED
  BY <1>1, <1>3, <1>4, <1>5, <1>6, <1>7, <1>8 DEF Next, ShouldTransfer, CalMetisDrip

LEMMA AmountInvAlways == Spec => []AmountInv
<1>1. Init => AmountInv
  BY DEF Init, AmountInv, Decided
<1>2. QED
  BY <1>1, AmountInvInductive, PTL DEF Spec

\* The variables have their types: also the drip that is taken from the flag, for
\* every flag, and the value of a token, for every price.
THEOREM DecisionTypeOK == Spec => []TypeOK
<1>1. DecisionInv /\ AmountInv => TypeOK
  BY DEF DecisionInv, DecisionTypes, AmountInv, TypeOK, Asking
<1>2. QED
  BY <1>1, DecisionInvAlways, AmountInvAlways, PTL

\* A drip that does not depend on gas is what was written behind the flag, up to one
\* wei and the rounding of its float, or 0.01 Metis if that is no more than half a
\* wei: for every flag, and floats of any precision.
THEOREM DefaultsAreRight == Spec => []DefaultIsRight
<1>1. AmountInv => DefaultIsRight
  <2>1. SUFFICES ASSUME AmountInv, Decided("grant"), Pol.rebate = "default" PROVE IsAsked(amount)
    BY DEF DefaultIsRight
  <2>2. flag \in DripAmounts /\ amount = DefaultDrip
    BY <2>1 DEF AmountInv, Decided
  <2>3. QED
    BY <2>2, DefaultDripIsAsked
<1>2. QED
  BY <1>1, AmountInvAlways, PTL

-----------------------------------------------------------------------------
(* The drips that depend on gas *)

\* The drip that depends on gas is the lesser amount, up to one wei and the roundings.
LEMMA RebateIsAbout ==
  ASSUME deposit \in Deposits, NEW price \in Prices, price.n > 0
  PROVE  IF Less(GasAt(price), LimitAt(price))
         THEN IsAbout(ToWei(Rebate(price)), GasAt(price), 5)
         ELSE IsAbout(ToWei(Rebate(price)), LimitAt(price), 5)
<1>1. PICK g \in Nat, pn \in Nat \ {0}, pd \in Nat \ {0}, en \in Nat \ {0}, ed \in Nat \ {0},
           mn \in Nat, md \in Nat \ {0} :
        /\ g = deposit.gas /\ price = [n |-> pn, d |-> pd]
        /\ EthUSD = [n |-> en, d |-> ed] /\ MaxDripUSD = [n |-> mn, d |-> md]
  <2>1. deposit.gas \in Nat /\ price \in Fraction
    BY DecisionAssumption DEF Deposit
  <2>2. EthUSD \in Fraction /\ EthUSD.n > 0 /\ MaxDripUSD \in Fraction
    BY DecisionAssumption
  <2>3. price.n \in Nat \ {0} /\ price.d \in Nat \ {0} /\ price = [n |-> price.n, d |-> price.d]
    BY <2>1 DEF Fraction
  <2>4. EthUSD.n \in Nat \ {0} /\ EthUSD.d \in Nat \ {0} /\ EthUSD = [n |-> EthUSD.n, d |-> EthUSD.d]
    BY <2>2 DEF Fraction
  <2>5. /\ MaxDripUSD.n \in Nat /\ MaxDripUSD.d \in Nat \ {0}
        /\ MaxDripUSD = [n |-> MaxDripUSD.n, d |-> MaxDripUSD.d]
    BY <2>2 DEF Fraction
  <2>6. QED
    BY <2>1, <2>3, <2>4, <2>5
<1>2. PICK Q \in Nat, R \in Nat : Q = 2^Precision /\ R = 2^Precision + 1 /\ R = Q + 1 /\ Q >= 8 /\ Q <= R
  BY PrecisionIsEight
<1>3. Unit \in Nat \ {0}
  BY EtherAssumption
<1>4. PICK un \in Nat \ {0}, ud \in Nat \ {0} : un = pn * en /\ ud = pd * ed
  OBVIOUS
<1>5. /\ InScope(un, ud) /\ InScope(g, Unit)
      /\ InScope(mn * InUSD(price).d, md * InUSD(price).n)
      /\ InScope(ToEther(g).n * pd, ToEther(g).d * pn)
      /\ InScope(InMetis(g, price).n * InUSD(price).n, InMetis(g, price).d * InUSD(price).d)
  <2>1. price.n = pn /\ price.d = pd /\ EthUSD.n = en /\ EthUSD.d = ed
        /\ MaxDripUSD.n = mn /\ MaxDripUSD.d = md
    BY <1>1
  <2>2. QED
    BY <1>1, <1>4, <2>1, ScopeAssumption
<1>6. PICK v \in Nat \ {0}, w \in Nat \ {0} :
        InUSD(price) = [n |-> v, d |-> w] /\ IsClose(v, w, un, ud, Q, R)
  <2>1. InUSD(price) = Float(un, ud)
    BY <1>1, <1>4 DEF InUSD, Times
  <2>2. PICK v \in Nat, w \in Nat :
          /\ w # 0 /\ Float(un, ud) = [n |-> v, d |-> w]
          /\ AtMost(v, w, un, ud, Q, R) /\ AtMost(un, ud, v, w, Q, R)
    BY <1>2, <1>5, FloatIsClose
  <2>3. v # 0
    <3>1. un * w * Q \in Nat \ {0}
      BY <1>2, <2>2
    <3>2. v = 0 => v * ud * R = 0
      BY <1>2
    <3>3. un * w * Q <= v * ud * R
      BY <2>2 DEF AtMost
    <3>4. QED
      BY <3>1, <3>2, <3>3
  <2>4. QED
    BY <2>1, <2>2, <2>3 DEF IsClose
<1>7. PICK a1 \in Nat, b1 \in Nat \ {0} :
        ToEther(g) = [n |-> a1, d |-> b1] /\ IsClose(a1, b1, g, Unit, Q, R)
  BY <1>2, <1>3, <1>5, FloatIsClose DEF ToEther, IsClose
<1>8. PICK a2 \in Nat, b2 \in Nat \ {0} :
        /\ InMetis(g, price) = [n |-> a2, d |-> b2] /\ IsClose(a2, b2, a1 * pd, b1 * pn, Q, R)
        /\ b2 < 2 * Unit \/ 2 * a2 <= b2
  <2>1. InMetis(g, price) = Float(a1 * pd, b1 * pn)
    BY <1>1, <1>7 DEF InMetis, Over
  <2>2. InScope(a1 * pd, b1 * pn) /\ a1 * pd \in Nat /\ b1 * pn \in Nat \ {0}
    BY <1>5, <1>7
  <2>3. QED
    BY <1>2, <2>1, <2>2, FloatIsClose DEF IsClose
<1>9. PICK a3 \in Nat, b3 \in Nat \ {0} :
        /\ Times(InMetis(g, price), InUSD(price)) = [n |-> a3, d |-> b3]
        /\ IsClose(a3, b3, a2 * v, b2 * w, Q, R)
  <2>1. Times(InMetis(g, price), InUSD(price)) = Float(a2 * v, b2 * w)
    BY <1>6, <1>8 DEF Times
  <2>2. InScope(a2 * v, b2 * w) /\ a2 * v \in Nat /\ b2 * w \in Nat \ {0}
    BY <1>5, <1>6, <1>8
  <2>3. QED
    BY <1>2, <2>1, <2>2, FloatIsClose DEF IsClose
<1>10. PICK a4 \in Nat, b4 \in Nat \ {0} :
        /\ Over(MaxDripUSD, InUSD(price)) = [n |-> a4, d |-> b4]
        /\ IsClose(a4, b4, mn * w, md * v, Q, R)
        /\ b4 < 2 * Unit \/ 2 * a4 <= b4
  <2>1. Over(MaxDripUSD, InUSD(price)) = Float(mn * w, md * v)
    BY <1>1, <1>6 DEF Over
  <2>2. InScope(mn * w, md * v) /\ mn * w \in Nat /\ md * v \in Nat \ {0}
    BY <1>5, <1>6
  <2>3. QED
    BY <1>2, <2>1, <2>2, FloatIsClose DEF IsClose
<1>11. PICK a \in Nat, b \in Nat \ {0} :
        /\ Rebate(price) = [n |-> a, d |-> b]
        /\ b < 2 * Unit \/ 2 * a <= b
        /\ \/ mn * b3 < a3 * md /\ a = a4 /\ b = b4
           \/ a3 * md <= mn * b3 /\ a = a2 /\ b = b2
  <2>1. Less(MaxDripUSD, [n |-> a3, d |-> b3]) <=> mn * b3 < a3 * md
    BY <1>1 DEF Less
  <2>2. Rebate(price) = IF mn * b3 < a3 * md THEN [n |-> a4, d |-> b4] ELSE [n |-> a2, d |-> b2]
    BY <1>1, <1>8, <1>9, <1>10, <2>1 DEF Rebate
  <2>3. mn * b3 \in Nat /\ a3 * md \in Nat
    OBVIOUS
  <2>4. QED
    BY <1>8, <1>10, <2>2, <2>3
<1>12. PICK G \in Nat, P \in Nat \ {0}, L \in Nat, D \in Nat \ {0}, LU \in Nat :
         G = g * pd /\ P = Unit * pn /\ L = mn * ud /\ D = md * un /\ LU = L * Unit
  BY <1>3
<1>13. GasAt(price) = [n |-> G, d |-> pn] /\ LimitAt(price) = [n |-> LU, d |-> D]
  <2>1. MaxDripUSD.n * EthUSD.d * price.d * Unit = LU
    <3>1. mn * ed * pd * Unit = (mn * (pd * ed)) * Unit
      BY <1>3
    <3>2. QED
      BY <1>1, <1>4, <1>12, <3>1
  <2>2. MaxDripUSD.d * EthUSD.n * price.n = D
    <3>1. md * en * pn = md * (pn * en)
      OBVIOUS
    <3>2. QED
      BY <1>1, <1>4, <1>12, <3>1
  <2>3. QED
    BY <1>1, <1>12, <2>1, <2>2 DEF GasAt, LimitAt
<1>14. Less(GasAt(price), LimitAt(price)) <=> G * D < L * P
  <2>1. LU * pn = L * P
    BY <1>3, <1>12
  <2>2. QED
    BY <1>13, <2>1 DEF Less
\* The gas in Metis takes two operations.
<1>15. TwiceClose(a2, b2, G, P, Q, R)
  <2>1. PICK c1 \in Nat \ {0}, d1 \in Nat : c1 = b1 * pn /\ d1 = a1 * pd
    OBVIOUS
  <2>2. AtMost(a1, b1, g, Unit, Q, R) /\ AtMost(g, Unit, a1, b1, Q, R)
    BY <1>7 DEF IsClose
  <2>3. AtMost(a1 * pd, b1, g * pd, Unit, Q, R) /\ AtMost(g * pd, Unit, a1 * pd, b1, Q, R)
    BY <1>1, <1>2, <1>3, <1>7, <2>2, AtMostScaled
  <2>4. AtMost(d1, b1, G, Unit, Q, R) /\ AtMost(G, Unit, d1, b1, Q, R)
    BY <1>12, <2>1, <2>3
  <2>5. AtMost(d1, b1 * pn, G, Unit * pn, Q, R) /\ AtMost(G, Unit * pn, d1, b1 * pn, Q, R)
    <3>1. d1 \in Nat /\ G \in Nat /\ b1 \in Nat /\ Unit \in Nat /\ pn \in Nat /\ Q \in Nat /\ R \in Nat
      BY <1>1, <1>2, <1>3, <1>7, <1>12, <2>1
    <3>2. QED
      BY <2>4, <3>1, AtMostScaled
  <2>6. IsClose(d1, c1, G, P, Q, R)
    BY <1>12, <2>1, <2>5 DEF IsClose
  <2>7. IsClose(a2, b2, d1, c1, Q, R)
    BY <1>8, <2>1
  <2>8. /\ a2 \in Nat /\ b2 \in Nat /\ d1 \in Nat /\ c1 \in Nat \ {0}
        /\ G \in Nat /\ P \in Nat /\ Q \in Nat /\ R \in Nat
    BY <1>2, <1>8, <1>12, <2>1
  <2>9. QED
    BY <2>6, <2>7, <2>8, CloseChain
\* The limit in Metis is one from the limit at the rounded price in USD, and that is as
\* close to what it stands for as the price.
<1>16. PICK l \in Nat, m \in Nat \ {0} :
         l = mn * w /\ m = md * v /\ IsClose(l, m, L, D, Q, R) /\ IsClose(a4, b4, l, m, Q, R)
  <2>1. AtMost(v, w, un, ud, Q, R) /\ AtMost(un, ud, v, w, Q, R)
    BY <1>6 DEF IsClose
  <2>2. AtMost(ud * mn, un * md, w * mn, v * md, Q, R)
    BY <1>1, <1>2, <1>4, <1>6, <2>1, AtMostInverted
  <2>3. AtMost(w * mn, v * md, ud * mn, un * md, Q, R)
    BY <1>1, <1>2, <1>4, <1>6, <2>1, AtMostInverted
  <2>4. PICK l \in Nat, m \in Nat \ {0} : l = mn * w /\ m = md * v
    OBVIOUS
  <2>5. ud * mn = L /\ un * md = D /\ w * mn = l /\ v * md = m
    BY <1>12, <2>4
  <2>6. QED
    BY <1>10, <2>2, <2>3, <2>4, <2>5 DEF IsClose
\* The limit was applied, or not, because of the gas in USD, which takes a third.
<1>17. \/ a = a2 /\ b = b2 /\ AtMost(a2, b2, l, m, Q, R)
       \/ a = a4 /\ b = b4 /\ AtMost(l, m, a2, b2, Q, R)
  <2>1. PICK e \in Nat, f \in Nat \ {0} : e = a2 * v /\ f = b2 * w
    OBVIOUS
  <2>2. AtMost(a3, b3, e, f, Q, R) /\ AtMost(e, f, a3, b3, Q, R)
    BY <1>9, <2>1 DEF IsClose
  <2>3. 1 * Q = Q /\ 1 * R = R /\ Q * 1 = Q /\ R * 1 = R
    BY <1>2
  <2>4. /\ mn \in Nat /\ md \in Nat \ {0} /\ a3 \in Nat /\ b3 \in Nat \ {0}
        /\ e \in Nat /\ f \in Nat \ {0} /\ Q \in Nat /\ R \in Nat
    BY <1>1, <1>2, <1>9, <2>1
  <2>5. CASE mn * b3 < a3 * md /\ a = a4 /\ b = b4
    <3>1. AtMost(mn, md, a3, b3, 1, 1)
      BY <2>4, <2>5 DEF AtMost
    <3>2. AtMost(mn, md, e, f, 1 * Q, 1 * R)
      BY <2>2, <2>4, <3>1, AtMostChain
    <3>3. mn * (b2 * w) * Q <= (a2 * v) * md * R
      BY <2>1, <2>3, <3>2 DEF AtMost
    <3>4. mn * (b2 * w) * Q = (mn * w) * b2 * Q /\ (a2 * v) * md * R = a2 * (md * v) * R
      BY <1>1, <1>2, <1>6, <1>8
    <3>5. AtMost(l, m, a2, b2, Q, R)
      BY <1>16, <3>3, <3>4 DEF AtMost
    <3>6. QED
      BY <2>5, <3>5
  <2>6. CASE a3 * md <= mn * b3 /\ a = a2 /\ b = b2
    <3>1. AtMost(a3, b3, mn, md, 1, 1)
      BY <2>4, <2>6 DEF AtMost
    <3>2. AtMost(e, f, mn, md, Q * 1, R * 1)
      BY <2>2, <2>4, <3>1, AtMostChain
    <3>3. (a2 * v) * md * Q <= mn * (b2 * w) * R
      BY <2>1, <2>3, <3>2 DEF AtMost
    <3>4. mn * (b2 * w) * R = (mn * w) * b2 * R /\ (a2 * v) * md * Q = a2 * (md * v) * Q
      BY <1>1, <1>2, <1>6, <1>8
    <3>5. AtMost(a2, b2, l, m, Q, R)
      BY <1>16, <3>3, <3>4 DEF AtMost
    <3>6. QED
      BY <2>6, <3>5
  <2>7. QED
    BY <1>11, <2>5, <2>6
<1>18. IF G * D < L * P THEN IsClose(a, b, G, P, Fourth(Q), Fourth(R))
                        ELSE IsClose(a, b, L, D, Fourth(Q), Fourth(R))
  <2>1. /\ G \in Nat /\ P \in Nat \ {0} /\ L \in Nat /\ D \in Nat \ {0}
        /\ l \in Nat /\ m \in Nat \ {0} /\ Q \in Nat /\ R \in Nat /\ Q <= R
        /\ a2 \in Nat /\ b2 \in Nat \ {0} /\ a4 \in Nat /\ b4 \in Nat \ {0}
    BY <1>2, <1>8, <1>10, <1>12, <1>16
  <2>2. IsClose(l, m, L, D, Q, R) /\ IsClose(a4, b4, l, m, Q, R)
    BY <1>16
  <2>3. IsClose(a2, b2, G, P, Fourth(Q), Fourth(R))
    BY <1>15, <2>1, TwiceWithinFour
  <2>4. IsClose(a4, b4, L, D, Fourth(Q), Fourth(R))
    <3>1. TwiceClose(a4, b4, L, D, Q, R)
      BY <2>1, <2>2, CloseChain
    <3>2. QED
      BY <2>1, <3>1, TwiceWithinFour
  <2>5. AtMost(a2, b2, l, m, Q, R) /\ AtMost(L, D, G, P, 1, 1)
          => IsClose(a2, b2, L, D, Fourth(Q), Fourth(R))
    BY <1>15, <2>1, <2>2, GasForLimit
  <2>6. AtMost(l, m, a2, b2, Q, R) /\ AtMost(G, P, L, D, 1, 1)
          => IsClose(a4, b4, G, P, Fourth(Q), Fourth(R))
    BY <1>15, <2>1, <2>2, LimitForGas
  <2>7. /\ G * D < L * P => AtMost(G, P, L, D, 1, 1)
        /\ ~(G * D < L * P) => AtMost(L, D, G, P, 1, 1)
    BY <2>1 DEF AtMost
  <2>8. QED
    BY <1>17, <2>3, <2>4, <2>5, <2>6, <2>7
<1>19. CASE G * D < L * P
  <2>1. IsClose(a, b, G, P, Q, Q + 5)
    BY <1>2, <1>11, <1>12, <1>18, <1>19, CloseWithinFive
  <2>2. P = pn * Unit
    BY <1>3, <1>12
  <2>3. WeiAre(ToWei([n |-> a, d |-> b]), G, pn, Q, Q + 5)
    BY <1>11, <2>1, <2>2, WeiIsAbout
  <2>4. IsAbout(ToWei(Rebate(price)), GasAt(price), 5)
    BY <1>2, <1>11, <1>13, <2>3, WeiAreIsAbout
  <2>5. QED
    BY <1>14, <1>19, <2>4
<1>20. CASE ~(G * D < L * P)
  <2>1. IsClose(a, b, L, D, Q, Q + 5)
    BY <1>2, <1>11, <1>12, <1>18, <1>20, CloseWithinFive
  <2>2. PICK DU \in Nat, Y \in Nat : DU = D * Unit /\ Y = Q + 5
    BY <1>3
  <2>3. AtMost(a, b, L, D, Q, Y) /\ AtMost(L, D, a, b, Q, Y)
    BY <2>1, <2>2 DEF IsClose
  <2>4. AtMost(a, b, L * Unit, D * Unit, Q, Y) /\ AtMost(L * Unit, D * Unit, a, b, Q, Y)
    <3>1. /\ a \in Nat /\ b \in Nat /\ L \in Nat /\ D \in Nat /\ Q \in Nat /\ Y \in Nat
          /\ Unit \in Nat
      BY <1>2, <1>3, <1>11, <1>12, <2>2
    <3>2. QED
      BY <2>3, <3>1, AtMostScaled
  <2>5. IsClose(a, b, LU, DU, Q, Q + 5)
    BY <1>12, <2>2, <2>4 DEF IsClose
  <2>6. WeiAre(ToWei([n |-> a, d |-> b]), LU, D, Q, Q + 5)
    BY <1>11, <2>2, <2>5, WeiIsAbout
  <2>7. IsAbout(ToWei(Rebate(price)), LimitAt(price), 5)
    BY <1>2, <1>11, <1>13, <2>6, WeiAreIsAbout
  <2>8. QED
    BY <1>14, <1>20, <2>7
<1>21. QED
  BY <1>19, <1>20

\* The amount was calculated with a price that Metis had when it was asked for.
RebateInv ==
  /\ (step = "sign" \/ Decided("grant")) /\ Pol.rebate = "gas" =>
       \E w \in seen : w.metis.n > 0 /\ amount = ToWei(Rebate(w.metis))
  /\ Decided("panic") => \E w \in seen : IsFree(w.metis)

LEMMA RebateInvInductive ==
  ASSUME RebateInv, DecisionInv, [Next]_vars
  PROVE  RebateInv'
<1> USE DEF RebateInv, Decided
<1>1. CASE Initial \/ BeginLoop \/ (\E d \in Deposits : Begin(d)) \/ NewDrip \/ EndLoop
  <2>1. step' \in {"off", "idle", "loop", "known"}
    BY <1>1 DEF Initial, BeginLoop, Begin, NewDrip, EndLoop, Forget
  <2>2. QED
    BY <2>1
<1>2. CASE Check \/ GetPrice \/ CallFails
  <2>1. step' # "sign" /\ (step' = "decided" => verdict' \notin {"grant", "panic"})
    BY <1>2 DEF Check, After, GetPrice, CallFails, End, Go
  <2>2. QED
    BY <2>1
<1>3. CASE DefaultRebate
  <2>1. UNCHANGED <<policies, policy>> /\ Pol.rebate = "default" /\ step' = "sign"
    BY <1>3 DEF DefaultRebate, Go, Steps, faucetVars
  <2>2. QED
    BY <2>1 DEF Pol
<1>4. CASE GasRebate
  <2>1. UNCHANGED <<deposit, seen>> /\ step = "rebate"
    BY <1>4 DEF GasRebate, Steps, worldVars
  <2>2. world \in seen
    BY <2>1 DEF DecisionInv, Asking
  <2>3. \/ step' = "decided" /\ verdict' = "error"
        \/ step' = "decided" /\ verdict' = "panic" /\ IsFree(world.metis)
        \/ step' = "sign" /\ world.metis.n > 0 /\ amount' = ToWei(Rebate(world.metis))
    BY <1>4 DEF GasRebate, End, Go
  <2>4. \A price : ToWei(Rebate(price))' = ToWei(Rebate(price)) /\ IsFree(price)' = IsFree(price)
    BY <2>1 DEF Rebate, IsFree
  <2>5. CASE step' = "decided" /\ verdict' = "error"
    BY <2>5
  <2>6. CASE step' = "decided" /\ verdict' = "panic" /\ IsFree(world.metis)
    BY <2>1, <2>2, <2>4, <2>6
  <2>7. CASE step' = "sign" /\ world.metis.n > 0 /\ amount' = ToWei(Rebate(world.metis))
    BY <2>1, <2>2, <2>4, <2>7
  <2>8. QED
    BY <2>3, <2>5, <2>6, <2>7
\* The other steps leave the amount, the deposit and its policy.
<1>5. ASSUME UNCHANGED <<policies, policy, deposit, amount>>, seen \subseteq seen',
             (step' = "sign" \/ Decided("grant")') => (step = "sign" \/ Decided("grant")),
             Decided("panic")' => Decided("panic")
      PROVE  RebateInv'
  <2>1. Pol' = Pol
    BY <1>5 DEF Pol
  <2>2. \A price : ToWei(Rebate(price))' = ToWei(Rebate(price)) /\ IsFree(price)' = IsFree(price)
    BY <1>5 DEF Rebate, IsFree
  <2>3. QED
    BY <1>5, <2>1, <2>2
<1>6. CASE Sign
  <2>1. UNCHANGED <<policies, policy, deposit, amount, seen>> /\ step = "sign" /\ verdict' = "grant"
    BY <1>6 DEF Sign, End, faucetVars, worldVars
  <2>2. QED
    BY <1>5, <2>1
<1>7. CASE Change \/ UNCHANGED vars
  <2>1. UNCHANGED <<policies, policy, deposit, amount, step, verdict>> /\ seen \subseteq seen'
    BY <1>7 DEF Change, vars, faucetVars, itemVars, worldVars
  <2>2. QED
    BY <1>5, <2>1
<1>8. QED
  BY <1>1, <1>2, <1>3, <1>4, <1>6, <1>7 DEF Next, ShouldTransfer, CalMetisDrip

\* A drip that depends on gas is what the gas of the deposit cost, or the limit,
\* whichever is less, at a price that held while the deposit was decided, up to one
\* wei and five parts in 2^Precision, whatever the floats on the way were rounded to,
\* and only a price of 0 makes the process panic: for all prices, costs and limits,
\* and floats of any precision that have exponents for them.
THEOREM RebatesAreRight == Spec => []RebateIsRight
<1>1. Init => RebateInv
  BY DEF Init, RebateInv, Decided
<1>2. RebateInv /\ DecisionInv /\ [Next]_vars => RebateInv'
  BY RebateInvInductive
<1>3. RebateInv /\ DecisionInv => RebateIsRight
  <2>1. SUFFICES ASSUME RebateInv, DecisionInv, Decided("grant"), Pol.rebate = "gas"
                 PROVE  \E w \in seen :
                          /\ w.metis.n > 0
                          /\ IF Less(GasAt(w.metis), LimitAt(w.metis))
                             THEN IsAbout(amount, GasAt(w.metis), 5)
                             ELSE IsAbout(amount, LimitAt(w.metis), 5)
    BY DEF RebateIsRight, RebateInv
  <2>2. PICK w \in seen : w.metis.n > 0 /\ amount = ToWei(Rebate(w.metis))
    BY <2>1 DEF RebateInv
  <2>3. w.metis \in Prices /\ deposit \in Deposits
    <3>1. w.metis \in Prices \cup {NoInfo} /\ deposit \in Deposits
      BY <2>1 DEF DecisionInv, DecisionTypes, World
    <3>2. w.metis # NoInfo
      BY <2>2 DEF NoInfo
    <3>3. QED
      BY <3>1, <3>2
  <2>4. IF Less(GasAt(w.metis), LimitAt(w.metis))
        THEN IsAbout(amount, GasAt(w.metis), 5) ELSE IsAbout(amount, LimitAt(w.metis), 5)
    BY <2>2, <2>3, RebateIsAbout
  <2>5. QED
    BY <2>2, <2>4
<1>4. QED
  BY <1>1, <1>2, <1>3, DecisionInvAlways, PTL DEF Spec

-----------------------------------------------------------------------------
(* What Faucet takes the decision for *)

\* Between two deposits there is no policy and no verdict; and since a deposit was
\* found not to be in recset nothing was put there.
LoopInv ==
  /\ step \in {"start", "off", "idle", "loop"} => policy = 0 /\ verdict = "none"
  /\ step \in Asking \ {"known"} => ~recset

LEMMA LoopInvInductive ==
  ASSUME LoopInv, [Next]_vars
  PROVE  LoopInv'
<1> USE DEF LoopInv, Asking
<1>1. CASE Initial \/ BeginLoop
  BY <1>1 DEF Initial, BeginLoop, itemVars
<1>2. CASE (\E d \in Deposits : Begin(d)) \/ Sign
  <2>1. step' \in {"known", "decided"}
    BY <1>2 DEF Begin, Sign, End
  <2>2. QED
    BY <2>1
<1>3. CASE Check
  <2>1. step = "known" /\ step' = "price" => ~recset
    BY <1>3 DEF Check, Refuses, Unsupported, End
  <2>2. recset' = recset /\ step \in Asking /\ step' \in Asking \cup {"decided"} /\ step' # "known"
        /\ (step = "known" => step' \in {"price", "decided"})
    BY <1>3 DEF Check, After, End, Go, Steps, loopVars
  <2>3. QED
    BY <2>1, <2>2
<1>4. CASE GetPrice \/ CallFails \/ CalMetisDrip
  <2>1. recset' = recset
    BY <1>4 DEF GetPrice, CallFails, CalMetisDrip, DefaultRebate, GasRebate, Steps, loopVars
  <2>2. step' = "decided" \/ (step \in {"price", "rebate"} /\ step' \in {"amount", "sign"})
    BY <1>4 DEF GetPrice, CallFails, CalMetisDrip, DefaultRebate, GasRebate, End, Go
  <2>3. QED
    BY <2>1, <2>2
<1>5. CASE NewDrip \/ EndLoop
  <2>1. step' \in {"idle", "loop"} /\ policy' = 0 /\ verdict' = "none"
    BY <1>5 DEF NewDrip, EndLoop, Forget
  <2>2. QED
    BY <2>1
<1>6. CASE Change \/ UNCHANGED vars
  BY <1>6 DEF Change, vars, loopVars, itemVars
<1>7. QED
  BY <1>1, <1>2, <1>3, <1>4, <1>5, <1>6 DEF Next, ShouldTransfer

\* Where the loop of the faucet is, by the step of the decision.
PhaseInv ==
  /\ step \in {"start", "off"} => LoopPhase = "off"
  /\ step = "idle" => LoopPhase = "tick"
  /\ step \in Asking \cup {"loop"} => LoopPhase = "send"
  /\ step = "decided" => LoopPhase = IF verdict = "grant" THEN "persist" ELSE "send"
  /\ FirstOnly \in BOOLEAN
  /\ policy = 0 => FirstOnly = FALSE

LEMMA PhaseOfStep == PhaseInv
  BY DEF PhaseInv, LoopPhase, Decided, Asking, FirstOnly

\* Every step of the decision is a step of SendLoop or a stutter.
LEMMA StepOfLoop ==
  ASSUME DecisionInv, LoopInv, LoopInv', [Next]_vars
  PROVE  [Loop!Next]_(Loop!vars)
<1>p. PhaseInv /\ PhaseInv'
  BY PhaseOfStep, PTL
<1>r. /\ step \in {"start", "off", "idle", "loop"} => policy = 0 /\ verdict = "none"
      /\ step' \in {"start", "off", "idle", "loop"} => policy' = 0 /\ verdict' = "none"
  BY DEF LoopInv
<1>s. ASSUME UNCHANGED <<policies, policy>> PROVE FirstOnly' = FirstOnly
  BY <1>s DEF FirstOnly, Pol
<1>1. CASE Initial
  <2>1. /\ step = "start" /\ step' \in {"idle", "off"}
        /\ UNCHANGED <<recset, hasDrip, policies, policy>>
    BY <1>1 DEF Initial, loopVars, itemVars
  <2>2. QED
    BY <2>1, <1>p, <1>s DEF PhaseInv, Loop!Next, Loop!Initial, Loop!vars
<1>2. CASE BeginLoop
  <2>1. /\ step = "idle" /\ step' = "loop"
        /\ UNCHANGED <<recset, hasDrip, policies, policy>>
    BY <1>2 DEF BeginLoop, faucetVars, itemVars
  <2>2. QED
    BY <2>1, <1>p, <1>s DEF PhaseInv, Loop!Next, Loop!BeginSend
<1>3. CASE \E d \in Deposits : Begin(d)
  <2>1. step = "loop" /\ step' = "known" /\ UNCHANGED <<recset, hasDrip>>
    BY <1>3 DEF Begin, loopVars
  <2>2. QED
    BY <2>1, <1>p DEF PhaseInv, Asking, Loop!Next, Loop!Consider
<1>4. CASE Check \/ GetPrice \/ CallFails \/ CalMetisDrip \/ Change
  <2>1. UNCHANGED <<recset, hasDrip, policies, policy>>
    BY <1>4 DEF Check, GetPrice, CallFails, CalMetisDrip, DefaultRebate, GasRebate, Change, Steps,
                faucetVars, loopVars, itemVars
  <2>2. step \in Asking
    BY <1>4 DEF Check, After, GetPrice, CallFails, Asks, CalMetisDrip, DefaultRebate, GasRebate, Change,
                DecisionInv, DecisionTypes, Asking
  <2>3. step' \in Asking \/ (step' = "decided" /\ verdict' # "grant")
    BY <1>4, <2>2 DEF Check, After, GetPrice, CallFails, CalMetisDrip, DefaultRebate, GasRebate, Change,
                      End, Go, Asking
  <2>4. LoopPhase = "send" /\ LoopPhase' = "send"
    BY <2>2, <2>3, <1>p DEF PhaseInv
  <2>5. QED
    BY <2>1, <2>4, <1>s DEF Loop!vars
<1>5. CASE Sign
  <2>1. /\ step = "sign" /\ step' = "decided" /\ verdict' = "grant" /\ recset' = TRUE
        /\ UNCHANGED <<hasDrip, policies, policy>>
    BY <1>5 DEF Sign, End, faucetVars
  <2>2. recset = FALSE
    BY <2>1 DEF LoopInv, Asking, DecisionInv, DecisionTypes
  <2>3. FirstOnly => ~hasDrip
    BY <2>1 DEF DecisionInv, ChecksInv, Earned, Holds, FirstOnly
  <2>4. LoopPhase = "send" /\ LoopPhase' = "persist"
    BY <2>1, <1>p DEF PhaseInv, Asking
  <2>5. QED
    BY <2>1, <2>2, <2>3, <2>4, <1>s DEF Loop!Next, Loop!Approve
<1>6. CASE NewDrip
  <2>1. /\ step = "decided" /\ step' = "loop" /\ verdict \in {"grant", "refuse"}
        /\ hasDrip' = (hasDrip \/ verdict = "grant") /\ recset' = recset
    BY <1>6 DEF NewDrip, Forget
  <2>2. LoopPhase' = "send" /\ FirstOnly' = FALSE
    BY <2>1, <1>p, <1>r DEF PhaseInv
  <2>3. CASE verdict = "grant"
    BY <2>1, <2>2, <2>3, <1>p DEF PhaseInv, Loop!Next, Loop!NewDrip
  <2>4. CASE verdict = "refuse"
    <3>1. hasDrip' = hasDrip
      BY <2>1, <2>4 DEF DecisionInv, DecisionTypes
    <3>2. QED
      BY <2>1, <2>2, <2>4, <3>1, <1>p DEF PhaseInv, Loop!Next, Loop!Consider
  <2>5. QED
    BY <2>1, <2>3, <2>4
<1>7. CASE EndLoop
  <2>1. /\ step \in {"loop", "decided"} /\ step' = "idle" /\ recset' = FALSE
        /\ hasDrip' \in {hasDrip, hasDrip \/ verdict = "grant"}
    BY <1>7 DEF EndLoop, Forget
  <2>2. LoopPhase' = "tick" /\ FirstOnly' = FALSE
    BY <2>1, <1>p, <1>r DEF PhaseInv
  <2>3. /\ LoopPhase \in {"send", "persist"}
        /\ verdict = "grant" <=> LoopPhase = "persist"
    BY <2>1, <1>p, <1>r DEF PhaseInv
  <2>4. hasDrip' \in {hasDrip, hasDrip \/ LoopPhase = "persist"}
    BY <2>1, <2>3
  <2>5. QED
    BY <2>1, <2>2, <2>3, <2>4 DEF Loop!Next, Loop!EndSend
<1>8. CASE UNCHANGED vars
  <2>1. UNCHANGED <<step, verdict, recset, hasDrip, policies, policy>>
    BY <1>8 DEF vars, faucetVars, loopVars, itemVars
  <2>2. UNCHANGED LoopPhase
    BY <2>1 DEF LoopPhase, Decided
  <2>3. QED
    BY <2>1, <2>2, <1>s DEF Loop!vars
<1>9. QED
  BY <1>1, <1>2, <1>3, <1>4, <1>5, <1>6, <1>7, <1>8 DEF Next, ShouldTransfer

\* A receiver is approved once in a loop at most, and not if it has a drip and its
\* policy gives one only, with any number of calls and changes between the looks at
\* recset and at the table and the approval: what Faucet takes as one step.
THEOREM DecisionsApproveOnce == Spec => ApprovesOnce
<1>1. Init => LoopInv /\ Loop!Init
  <2>1. SUFFICES ASSUME Init PROVE LoopInv /\ Loop!Init
    OBVIOUS
  <2>2. step = "start" /\ policy = 0 /\ verdict = "none" /\ recset = FALSE /\ hasDrip = FALSE
    BY <2>1 DEF Init
  <2>3. LoopInv
    BY <2>2 DEF LoopInv, Asking
  <2>4. LoopPhase = "off" /\ FirstOnly = FALSE
    BY <2>2, PhaseOfStep DEF PhaseInv
  <2>5. QED
    BY <2>2, <2>3, <2>4 DEF Loop!Init
<1>2. LoopInv /\ [Next]_vars => LoopInv'
  BY LoopInvInductive
<1>3. DecisionInv /\ LoopInv /\ LoopInv' /\ [Next]_vars => [Loop!Next]_(Loop!vars)
  BY StepOfLoop
<1>4. QED
  BY <1>1, <1>2, <1>3, DecisionInvAlways, PTL DEF Spec, ApprovesOnce, Loop!Spec
=============================================================================
