----------------------------- MODULE Arithmetic -----------------------------
(***************************************************************************)
(* The double-word division of lib/arithmetic.c, which the kernel gets for *)
(* every division of a 64-bit integer.  W is the number of bits of a word, *)
(* 32 in the code: an integer of the code's 32 or 64 bits has W or 2 * W.  *)
(***************************************************************************)
EXTENDS Integers

CONSTANT W

ASSUME ArithmeticAssumption == W \in {2 ^ i : i \in 1 .. 5}

U32(x) == x % 2 ^ W

U64(x) == x % 2 ^ (2 * W)

\* The signed integer with the bits of x.
S64(x) == IF U64(x) < 2 ^ (2 * W - 1) THEN U64(x) ELSE U64(x) - 2 ^ (2 * W)

S32(x) == IF U32(x) < 2 ^ (W - 1) THEN U32(x) ELSE U32(x) - 2 ^ W

\* The divide error of the DIVL instruction.
Trap == -1

divl(n, d) == IF d = 0 \/ n \div d >= 2 ^ W THEN Trap ELSE n \div d

\* The code's five tests of halves, quarters, ... of the word.
RECURSIVE LeadingZeros(_, _)
LeadingZeros(x, half) ==
  IF half = 0 THEN 0
  ELSE IF x < 2 ^ (W - half) THEN half + LeadingZeros(U32(x * 2 ^ half), half \div 2)
  ELSE LeadingZeros(x, half \div 2)

nlz(x) == LeadingZeros(x, W \div 2)

\* Mutant: the estimate of the quotient is not corrected.
udiv64_estimating(n, d) ==
  LET b == 2 ^ W
      s == nlz(d \div b)
  IN  IF d \div b = 0 THEN n \div d
      ELSE IF n < d THEN 0
      ELSE divl(n \div 2, U64(d * 2 ^ s) \div b) \div 2 ^ (W - 1 - s)

\* Trap if an instruction traps on the way.
udiv64(n, d) ==
  LET b  == 2 ^ W
      n1 == n \div b
      n0 == U32(n)
      s  == nlz(d \div b)
      q0 == divl(b * (n1 % d) + n0, d)
      q1 == divl(n \div 2, U64(d * 2 ^ s) \div b)
      q  == q1 \div 2 ^ (W - 1 - s)
  IN  CASE d \div b = 0 -> IF q0 = Trap THEN Trap ELSE U64(q0 + b * (n1 \div d))
        [] d \div b # 0 /\ n < d -> 0
        [] OTHER -> IF q1 = Trap THEN Trap
                    ELSE IF U64(n - (q - 1) * d) < d THEN U64(q - 1) ELSE q

\* The function's type is a single word.
umod64(n, d) == U32(n - d * udiv64(n, d))

Abs(n) == U64(IF n >= 0 THEN n ELSE -n)

sdiv64(n, d) ==
  LET q == S64(udiv64(Abs(n), Abs(d)))
  IN  IF (n < 0) = (d < 0) THEN q ELSE S64(-q)

smod64(n, d) == S32(n - d * sdiv64(n, d))

=============================================================================
