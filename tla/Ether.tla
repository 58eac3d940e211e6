-------------------------------- MODULE Ether --------------------------------
(***************************************************************************)
(* Amounts: integers of wei, and floats of ether.  A float is a fraction   *)
(* n/d with a numerator of Precision bits at most and a power of two for   *)
(* one of n and d; results are rounded to the nearest one.  The code has   *)
(* 53 bits and 10^18 wei; negative amounts do not come up.                 *)
(***************************************************************************)
EXTENDS Integers

CONSTANTS Precision, \* the bits of a float
          Unit,      \* params.Ether: wei per ether
          MaxShift   \* bound: of the exponents

\* The distance of a float below 1 to 1 is more than half a wei; otherwise
\* ToWei, which formats an amount and cuts it at the point, would lose the carry.
\* 0.01 ether is a whole number of wei.
ASSUME EtherAssumption ==
  /\ Precision \in Nat /\ Precision >= 3 /\ MaxShift \in Nat
  /\ Unit \in Nat \ {0} /\ Unit % 100 = 0
  /\ 2^Precision < 2 * Unit

\* A power of two is twice the one before: what a proof has to know of them.
ASSUME PowersAssumption ==
  /\ Precision <= MaxShift
  /\ \A k \in 0..MaxShift : 2^(k + 1) = 2 * 2^k

\* Floats, and the numbers they are rounded from.
Fraction  == [n : Nat, d : Nat \ {0}]
Number(n) == [n |-> n, d |-> 1]

\* n/d to the nearest integer, and to an even one in the middle.
Nearest(n, d) ==
  LET q == n \div d
      r == 2 * (n % d)
  IN  IF r > d \/ (r = d /\ q % 2 = 1) THEN q + 1 ELSE q

\* n/d * 2^k as a fraction.
Shifted(n, d, k) == IF k >= 0 THEN [n |-> n * 2^k, d |-> d] ELSE [n |-> n, d |-> d * 2^(0 - k)]

\* x needs all bits of a float.
Normal(x) == 2^(Precision - 1) * x.d <= x.n /\ x.n < 2^Precision * x.d

\* The exponents of a number, and whether a float can have one.
Exponents(n, d) == {k \in (0 - MaxShift)..MaxShift : Normal(Shifted(n, d, k))}
InScope(n, d)   == n = 0 \/ Exponents(n, d) # {}

\* n/d to the nearest float.
Float(n, d) ==
  IF n = 0 THEN [n |-> 0, d |-> 1]
  ELSE LET k == CHOOSE i \in Exponents(n, d) : TRUE
           x == Shifted(n, d, k)
       IN  Shifted(Nearest(x.n, x.d), 1, 0 - k)

Times(a, b) == Float(a.n * b.n, a.d * b.d)
Over(a, b)  == Float(a.n * b.d, a.d * b.n)
Less(a, b)  == a.n * b.d < b.n * a.d

ToEther(wei) == Float(wei, Unit)

\* Mutant: there is a digit less than a wei needs, and a 0 is appended.
DigitsPadded(a) == (10 * Nearest((a.n % a.d) * (Unit \div 10), a.d)) % Unit

\* The digits behind the point of the amount formatted with those of a wei.
Digits(a) == Nearest((a.n % a.d) * Unit, a.d) % Unit

ToWei(a) == (a.n \div a.d) * Unit + Digits(a)
=============================================================================
