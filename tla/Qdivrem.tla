-------------------------------- MODULE Qdivrem --------------------------------
(***************************************************************************)
(* The 64-bit division of 32-bit builds, libkern/qdivrem.c: Knuth's        *)
(* Algorithm D on numbers of four digits, and the signed division and      *)
(* remainder of divdi3.c and moddi3.c on top of it.  The digits have       *)
(* HALF_BITS bits; a long has two digits and wraps around.                 *)
(*                                                                         *)
(* The arrays uspace and vspace are u and v; uo and vo say how far the     *)
(* pointers have moved over leading zeros, so that n = 4 - vo and          *)
(* m = vo - uo.                                                            *)
(***************************************************************************)
EXTENDS Integers

CONSTANTS HALF_BITS, Dividends, Divisors

B == 2^HALF_BITS
QUAD == B^4

ASSUME QdivremAssumption ==
  /\ HALF_BITS \in Nat \ {0}
  /\ Dividends \subseteq 0..(QUAD - 1) /\ Divisors \subseteq 1..(QUAD - 1)

VARIABLES
  uq, vq,          \* the arguments
  u, v, q,         \* uspace, vspace and qspace
  uo, vo, d, j,
  at,              \* where the computation stands
  quotient, arq    \* the results

qdivVars == <<uq, vq, u, v, q, uo, vo, d, j, at, quotient, arq>>
inputs == <<uq, vq>>

n == 4 - vo
m == vo - uo

Digit(x, i) == (x \div B^(4 - i)) % B
Digits(x) == [i \in 0..4 |-> IF i = 0 THEN 0 ELSE Digit(x, i)]
Quad(a) == a[1] * B^3 + a[2] * B^2 + a[3] * B + a[4]
LeadingZeros(a) == CHOOSE k \in 0..3 : a[k + 1] # 0 /\ \A i \in 1..k : a[i] = 0

QdivTypeOK ==
  /\ {u, v} \subseteq [0..4 -> 0..(B - 1)] /\ q \in [0..4 -> 0..B]
  /\ uo \in 0..3 /\ vo \in 0..3 /\ d \in 0..(HALF_BITS - 1) /\ j \in 0..4
  /\ quotient \in 0..(QUAD - 1) /\ arq \in 0..(QUAD - 1)

QdivInit ==
  /\ uq \in Dividends /\ vq \in Divisors
  /\ u = Digits(uq) /\ v = Digits(vq) /\ q = [i \in 0..4 |-> 0]
  /\ uo = 0 /\ vo = 0 /\ d = 0 /\ j = 0 /\ at = "start" /\ quotient = 0 /\ arq = 0

-----------------------------------------------------------------------------
\* The dividend is less than the divisor.
smaller ==
  /\ at = "start" /\ uq < vq
  /\ quotient' = 0 /\ arq' = uq /\ at' = "done"
  /\ UNCHANGED <<inputs, u, v, q, uo, vo, d, j>>

\* The divisor has one digit: exercise 16.
short_division ==
  LET t == v[4]
      rbj[i \in 1..4] == IF i = 1 THEN u[1] ELSE ((rbj[i - 1] % t) * B) + u[i]
  IN  /\ at = "start" /\ uq >= vq /\ LeadingZeros(v) = 3
      /\ quotient' = Quad([i \in 1..4 |-> rbj[i] \div t]) /\ arq' = rbj[4] % t
      /\ at' = "done"
      /\ UNCHANGED <<inputs, u, v, q, uo, vo, d, j>>

\* __shl of the digits first..last by sh bits.
shl(p, first, last, sh) == [i \in 0..4 |->
  IF i \notin first..last THEN p[i]
  ELSE ((p[i] * 2^sh) % B) + (IF i < last THEN p[i + 1] \div 2^(HALF_BITS - sh) ELSE 0)]

\* The multiplier of D1: it makes the first digit of v at least B/2.
Shift(v1) ==
  CHOOSE s \in 0..HALF_BITS : v1 * 2^s >= B \div 2 /\ \A r \in 0..(s - 1) : v1 * 2^r < B \div 2

\* D1 and D2.
normalise ==
  LET vz == LeadingZeros(v)
      uz == LeadingZeros(u)
      sh == Shift(v[vz + 1])
  IN  /\ at = "start" /\ uq >= vq /\ vz < 3
      /\ vo' = vz /\ uo' = uz /\ d' = sh
      /\ u' = shl(u, uz, 4, sh) /\ v' = shl(v, vz + 1, 4, sh)
      /\ j' = 0 /\ at' = "D3"
      /\ UNCHANGED <<inputs, q, quotient, arq>>

-----------------------------------------------------------------------------
V(i) == v[vo + i]
U(i) == u[uo + i]

\* Faulty variant: the estimate is not corrected by the second digit.
Estimate_rough(k) == IF U(k) = V(1) THEN B - 1 ELSE (U(k) * B + U(k + 1)) \div V(1)

\* D3: qhat.  The loop decrements it while the second digit of v shows that it is
\* too big; twice at most.
Estimate(k) ==
  LET v1 == V(1)
      nn == U(k) * B + U(k + 1)
      first == U(k) = v1
      \* qhat has been decremented i times
      qhat(i) == (IF first THEN B ELSE nn \div v1) - i
      rhat(i) == (IF first THEN U(k + 1) ELSE nn % v1) + i * v1
      stop(i) == \/ i > 0 /\ rhat(i) >= B
                 \/ (i > 0 \/ ~first) /\ V(2) * qhat(i) <= rhat(i) * B + U(k + 2)
  IN  qhat(CHOOSE i \in 0..B : stop(i) /\ \A h \in 0..(i - 1) : ~stop(h))

\* D5: there was a borrow.
TooBig(t) == t \div B # 0

\* D3 to D7 for one digit of the quotient: multiply and subtract, add back if the
\* estimate was too big.
divide_digit ==
  LET qhat == Estimate(j)
      sub[i \in 1..n] == (U(i + j) - V(i) * qhat
                            - (IF i = n THEN 0 ELSE (B - (sub[i + 1] \div B)) % B)) % (B * B)
      t == (U(j) - ((B - (sub[1] \div B)) % B)) % (B * B)
      diff(i) == IF i = 0 THEN t % B ELSE sub[i] % B
      add[i \in 1..n] == diff(i) + V(i) + (IF i = n THEN 0 ELSE (add[i + 1] \div B))
      sum(i) == IF i = 0 THEN (diff(0) + (add[1] \div B)) % B ELSE add[i] % B
  IN  /\ at = "D3"
      /\ u' = [k \in 0..4 |-> IF k - uo - j \notin 0..n THEN u[k]
                              ELSE IF TooBig(t) THEN sum(k - uo - j) ELSE diff(k - uo - j)]
      /\ q' = [q EXCEPT ![4 - m + j] = IF TooBig(t) THEN qhat - 1 ELSE qhat]
      /\ j' = j + 1 /\ at' = IF j < m THEN "D3" ELSE "end"
      /\ UNCHANGED <<inputs, v, uo, vo, d, quotient, arq>>

\* The remainder is what is left of u, shifted back.
finish ==
  LET back == [i \in 0..4 |->
        IF d = 0 THEN u[i]
        ELSE CASE i - uo > m -> (u[i] \div 2^d) + ((u[i - 1] * 2^(HALF_BITS - d)) % B)
               [] i - uo = m -> 0
               [] OTHER -> u[i]]
  IN  /\ at = "end"
      /\ quotient' = Quad(q) /\ arq' = Quad(back) /\ at' = "done"
      /\ UNCHANGED <<inputs, u, v, q, uo, vo, d, j>>

QdivNext == smaller \/ short_division \/ normalise \/ divide_digit \/ finish

QdivSpec == QdivInit /\ [][QdivNext]_qdivVars

-----------------------------------------------------------------------------
\* __divdi3 and __moddi3 from the result for the absolute values: the quotient is
\* negative if one operand is, the remainder if the dividend is.
divdi3(x, nega, negb) == IF nega # negb THEN (QUAD - x) % QUAD ELSE x
moddi3(r, nega, negb) == IF nega THEN (QUAD - r) % QUAD ELSE r

\* __qdivrem returns the quotient and the remainder.
QuotientRight == at = "done" => quotient = uq \div vq /\ arq = uq % vq

Value(a, last) ==
  LET s[k \in 0..last] == IF k = 0 THEN a[0] ELSE s[k - 1] * B + a[k] IN s[last]

\* What the comments on D1, D3 and D5 say: the divisor is normalised, the digits
\* of the quotient are digits, and after each step what is left of the dividend
\* there is less than the divisor, so that an estimate was too large by 1 at most.
StepExact ==
  at \in {"D3", "end"} =>
    /\ V(1) >= B \div 2
    /\ \A i \in 0..4 : q[i] < B
    /\ j > 0 => Value(u, uo + j + n - 1) < Value(v, 4)
    /\ at = "end" => Value(q, 4) * Value(v, 4) + Value(u, 4) = uq * 2^d

\* Signed division truncates towards zero and the remainder has the sign of the
\* dividend, for every combination of signs, the most negative number included.
SignedRight == at = "done" => \A nega, negb \in BOOLEAN :
  LET a == IF nega THEN -uq ELSE uq
      b == IF negb THEN -vq ELSE vq
      r == moddi3(arq, nega, negb)
  IN  {a, b} \subseteq (-(QUAD \div 2))..((QUAD \div 2) - 1) =>
        /\ (b * divdi3(quotient, nega, negb) + r - a) % QUAD = 0
        /\ r = 0 \/ (r >= QUAD \div 2) = nega

\* Both results are right for all arguments, and so is every step on the way.
DivisionRight == QdivTypeOK /\ QuotientRight /\ StepExact /\ SignedRight
=============================================================================
