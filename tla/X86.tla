-------------------------------- MODULE X86 --------------------------------
(* The part of an x86-64 processor that the instruction selection of       *)
(* src/src/codegen/x86-64 relies on, scaled down to words of a few bits.   *)
(* Nothing here translates code of the repository: it is the machine its   *)
(* output runs on.                                                         *)
(*                                                                         *)
(* A word has WideBits bits and stands for 8 bytes. NarrowBits is the size *)
(* of one byte and ImmBits that of an immediate operand (32 bits). What    *)
(* matters of the sizes is kept: a narrow write leaves the rest of the     *)
(* register alone, an 8 bit division divides two bytes, a double word is   *)
(* divided by the others.                                                  *)
EXTENDS Integers, FiniteSets, Bitwise

CONSTANTS Regs,        \* the registers, numbered as in x86_regs_names
          NarrowBits, ImmBits, WideBits

RAX == 0
RCX == 1
RDX == 2

ASSUME SizesAssumption ==
  /\ {NarrowBits, ImmBits, WideBits} \subseteq Nat \ {0}
  /\ 2 * NarrowBits <= WideBits /\ ImmBits < WideBits
  /\ \E e \in 1 .. NarrowBits : WideBits = 2^e      \* %cl holds every count
  /\ Regs \subseteq Nat

Word == 0 .. 2^WideBits - 1

Low(n, v) == v % 2^n
Signed(n, v) == IF Low(n, v) >= 2^(n - 1) THEN Low(n, v) - 2^n ELSE Low(n, v)
FitsImm(v) == v = Signed(ImmBits, v)

\* v read as a number of type t.
Ext(t, v) == IF t.sign THEN Signed(t.size, v) ELSE Low(t.size, v)

\* The flags: Junk after an instruction whose flags nobody should look at.
Junk == [known |-> FALSE, eq |-> FALSE, lt |-> FALSE, below |-> FALSE]
Compared(n, a, b) == [known |-> TRUE,
                      eq    |-> Low(n, a) = Low(n, b),
                      lt    |-> Signed(n, a) < Signed(n, b),
                      below |-> Low(n, a) < Low(n, b)]

Condition(c, f) ==
  CASE c = "e"  -> f.eq
    [] c = "ne" -> ~f.eq
    [] c = "l"  -> f.lt
    [] c = "le" -> f.lt \/ f.eq
    [] c = "g"  -> ~(f.lt \/ f.eq)
    [] c = "ge" -> ~f.lt
    [] c = "b"  -> f.below
    [] c = "be" -> f.below \/ f.eq
    [] c = "a"  -> ~(f.below \/ f.eq)
    [] c = "ae" -> ~f.below

-----------------------------------------------------------------------------
(* Instructions on a machine state m: registers, flags, and a fault that   *)
(* is "" until something the program must not do happens.                  *)

Fault(m, why) == [m EXCEPT !.fault = IF @ = "" THEN why ELSE @]

Mov(m, r, v) == [m EXCEPT !.reg[r] = Low(WideBits, v)]

\* a write of the low n bits: only a whole word replaces a whole register
MovLow(m, r, n, v) ==
  [m EXCEPT !.reg[r] = @ - Low(n, @) + Low(n, v)]

Scrambled(m) == [m EXCEPT !.flags = Junk]

\* xorl r, r: the idiom that zeroes a register also sets the flags
XorSelf(m, r) == [Mov(m, r, 0) EXCEPT !.flags = Compared(WideBits, 0, 0)]

Cmp(m, n, a, b) == [m EXCEPT !.flags = Compared(n, a, b)]

SetCC(m, c, r) ==
  IF ~m.flags.known THEN Fault(m, "flags")
                      ELSE Mov(m, r, IF Condition(c, m.flags) THEN 1 ELSE 0)

CMov(m, c, from, r) ==
  CASE ~m.flags.known                          -> Fault(m, "flags")
    [] m.flags.known /\ Condition(c, m.flags)   -> Mov(m, r, m.reg[from])
    [] m.flags.known /\ ~Condition(c, m.flags)  -> m

\* quotient towards zero and its remainder
Quot(a, b) == LET q == (IF a < 0 THEN -a ELSE a) \div (IF b < 0 THEN -b ELSE b)
              IN IF (a < 0) = (b < 0) THEN q ELSE -q
Rem(a, b) == a - b * Quot(a, b)

\* cbtw for a byte, cqto for the others
SignExtendA(m, n) ==
  IF n = NarrowBits THEN MovLow(m, RAX, 2 * n, Signed(n, m.reg[RAX]))
                    ELSE Mov(m, RDX, IF Signed(n, m.reg[RAX]) < 0 THEN -1 ELSE 0)

\* div and idiv: a byte divides AX and leaves AL and AH, a word RDX:RAX.
Divide(m, n, sign, r) ==
  LET high     == IF n = NarrowBits THEN m.reg[RAX] \div 2^n ELSE m.reg[RDX]
      pair     == Low(n, high) * 2^n + Low(n, m.reg[RAX])
      dividend == IF sign THEN Signed(2 * n, pair) ELSE pair
      divisor  == IF sign THEN Signed(n, m.reg[r]) ELSE Low(n, m.reg[r])
      q        == Quot(dividend, divisor)
      fits     == q = IF sign THEN Signed(n, q) ELSE Low(n, q)
  IN IF divisor = 0 \/ ~fits THEN Fault(m, "divide")
     ELSE LET rest == Rem(dividend, divisor) IN
          Scrambled(IF n = NarrowBits
                    THEN MovLow(m, RAX, 2 * n, Low(n, rest) * 2^n + Low(n, q))
                    ELSE Mov(Mov(m, RAX, q), RDX, rest))

\* shifts: the count is taken modulo the size of the word
Shifted(op, n, v, count) ==
  LET k == count % WideBits IN
  CASE op = "shl" -> Low(n, v * 2^k)
    [] op = "shr" -> Low(n, v) \div 2^k
    [] op = "sar" -> Low(n, Signed(n, v) \div 2^k)
=============================================================================
