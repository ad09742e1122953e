------------------------------ MODULE DivMagic ------------------------------
(* Division by a constant as a multiplication: magic_unsigned,             *)
(* magic_signed, make_udiv_magic, make_sdiv_magic and make_mod_tail of     *)
(* src/src/codegen/x86-64/divmod.c, on words of W bits instead of 64.      *)
(*                                                                         *)
(* The compiler finds the multiplier, one step per iteration of the loop   *)
(* of magic_signed, and emits code with it: MagicQuotient and ModTail are  *)
(* what that code computes.                                                *)
EXTENDS Integers

CONSTANT W   \* bits of a word
ASSUME WidthAssumption == W \in Nat /\ W > 3

VARIABLES d,        \* the divisor
          sign,     \* whether the type is signed
          search,   \* "idle", "loop" or "found"
          p, q1, r1, q2, r2,   \* the variables of magic_signed
          magic     \* the multiplier and the shift found
magicVars == <<d, sign, search, p, q1, r1, q2, r2, magic>>

\* the powers of two, up to that of a double word
TwoTo ==
  LET power[e \in 0 .. 2 * W] == IF e = 0 THEN 1 ELSE 2 * power[e - 1]
  IN [e \in 0 .. 2 * W |-> power[e]]

Wrap(v) == v % TwoTo[W]
Signed(v) == IF Wrap(v) >= TwoTo[W - 1] THEN Wrap(v) - TwoTo[W] ELSE Wrap(v)
TwoTop == TwoTo[W - 1]                                \* two63
PowersOfTwo == {TwoTo[e] : e \in 0 .. W - 1}

\* the divisors of make_divmod_const that are not left to shifts
Divisors == (1 .. TwoTop - 1) \ PowersOfTwo

\* the largest word that leaves the remainder by - 1
Anc(by) == TwoTop - 1 - (TwoTop % by)

\* __builtin_clzll seen from the other end: the bits needed for v
Bits(v) == CHOOSE k \in 1 .. W : TwoTo[k - 1] <= v /\ v < TwoTo[k]

\* Mutant: the multiplier is rounded down.
MagicDown(by) ==
  LET k == Bits(by - 1) IN [m |-> Wrap(((TwoTo[k] - by) * TwoTo[W]) \div by), s |-> k]

MagicUnsigned(by) ==
  LET k == Bits(by - 1)
      low == TwoTo[k] - by
  IN [m |-> Wrap((low * TwoTo[W]) \div by + 1), s |-> k]

Idle ==
  /\ d = 0 /\ sign = FALSE /\ search = "idle"
  /\ p = 0 /\ q1 = 0 /\ r1 = 0 /\ q2 = 0 /\ r2 = 0
  /\ magic = [m |-> 0, s |-> 0]

\* a division by the constant by: the multiplier is computed, or searched
Search(by, signed) ==
  /\ search = "idle"
  /\ d' = by /\ sign' = signed
  /\ search' = IF signed THEN "loop" ELSE "found"
  /\ p' = W - 1
  /\ q1' = TwoTop \div Anc(by) /\ r1' = TwoTop - q1' * Anc(by)
  /\ q2' = TwoTop \div by /\ r2' = TwoTop - q2' * by
  /\ magic' = IF signed THEN magic ELSE MagicUnsigned(by)

\* q and r after a doubling of q * by + r
DoubledQ(q, r, by) == IF Wrap(2 * r) >= by THEN Wrap(2 * q + 1) ELSE Wrap(2 * q)
DoubledR(r, by) == IF Wrap(2 * r) >= by THEN Wrap(2 * r) - by ELSE Wrap(2 * r)

\* Mutant: the search never finds its multiplier good enough.
AgainForever(x, y, delta) == TRUE

\* Mutant: the search stops when delta is reached.
AgainBelow(x, y, delta) == x < delta

\* while (q1 < delta || (q1 == delta && r1 == 0))
Again(x, y, delta) == x < delta \/ (x = delta /\ y = 0)

\* one iteration of the do loop, and what follows it when it is the last
Iterate ==
  /\ search = "loop"
  /\ p' = p + 1
  /\ q1' = DoubledQ(q1, r1, Anc(d)) /\ r1' = DoubledR(r1, Anc(d))
  /\ q2' = DoubledQ(q2, r2, d) /\ r2' = DoubledR(r2, d)
  /\ IF Again(q1', r1', d - r2')
     THEN UNCHANGED <<search, magic>>
     ELSE search' = "found" /\ magic' = [m |-> Wrap(q2' + 1), s |-> p' - W]
  /\ UNCHANGED <<d, sign>>

\* the high word of a product
High(a, b) == (a * b) \div TwoTo[W]

\* make_udiv_magic: mulq, then the mean of the product and the dividend
UnsignedQuotient(n) ==
  LET t == High(n, magic.m)
      mean == Wrap(Wrap(n - t) \div 2 + t)
  IN mean \div TwoTo[magic.s - 1]

\* make_sdiv_magic: imulq, the correction of a negative multiplier, the
\* shift, and one more for a negative dividend
SignedQuotient(n) ==
  LET t == High(Signed(n), Signed(magic.m)) + (IF Signed(magic.m) < 0 THEN Signed(n) ELSE 0)
      shifted == Signed(t) \div TwoTo[magic.s]
  IN Wrap(shifted + (IF shifted < 0 THEN 1 ELSE 0))

\* the quotient of a word, and what make_mod_tail makes of it
MagicQuotient(n) == IF sign THEN SignedQuotient(n) ELSE UnsignedQuotient(n)
ModTail(n) == Wrap(n - MagicQuotient(n) * d)

\* the compiler emitting one division by a constant
MagicNext == (\E by \in Divisors, signed \in BOOLEAN : Search(by, signed)) \/ Iterate
MagicSpec == Idle /\ [][MagicNext]_magicVars

-----------------------------------------------------------------------------
\* Division as LANGUAGE.md has it: rounded towards zero.
Towards0(a, b) == IF (a < 0) = (b < 0) THEN a \div b ELSE -((-a) \div b)
Quotient(n) == IF sign THEN Towards0(Signed(n), d) ELSE n \div d
Remainder(n) == (IF sign THEN Signed(n) ELSE n) - Quotient(n) * d

\* Whatever the divisor, the multiplier that is emitted gives the quotient
\* and the remainder of every word (make_udiv_magic, make_sdiv_magic and
\* make_mod_tail, divmod.c).
Exact ==
  \A n \in 0 .. TwoTo[W] - 1 :
    MagicQuotient(n) = Wrap(Quotient(n)) /\ ModTail(n) = Wrap(Remainder(n))
MultipliersExact == [][search # "found" /\ search' = "found" => Exact']_magicVars

\* The search for a signed multiplier ends, for every divisor, before the
\* shift it has found (p - 64) is that of a whole word.
SearchEnds == search = "loop" => p < 2 * W - 1
=============================================================================
