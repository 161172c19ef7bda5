------------------------------- MODULE Numbers -------------------------------
(***************************************************************************)
(* Numbers as text: the conversion of kvprintf with ksprintn               *)
(* (libkern/printf.c), and strtol and strtoul, which read them, one digit  *)
(* per step.                                                               *)
(*                                                                         *)
(* A character is a number: a digit or letter is its value, 0 to 35, in    *)
(* either case, and the others follow.  A long has WORD_BITS bits, and the *)
(* limits in asm/limits.h are those of LIMIT_BITS bits: 32, in 64-bit      *)
(* builds, too.                                                            *)
(***************************************************************************)
EXTENDS Integers, Sequences

CONSTANTS
  WORD_BITS, LIMIT_BITS,
  Strings,    \* texts that are read
  ReadBases,  \* bases they are read in
  Widths      \* minimal widths of formats

ASSUME NumbersAssumption ==
  /\ WORD_BITS \in Nat /\ LIMIT_BITS \in 1..WORD_BITS
  /\ Strings \subseteq Seq(0..38) /\ ReadBases \subseteq {0, 8, 10, 16} /\ Widths \subseteq Nat

SPACE == 36
MINUS == 37
PLUS == 38
NUL == 39
LETTER_X == 33

WORD == 2 ^ WORD_BITS
LONG_MAX == (2 ^ (LIMIT_BITS - 1)) - 1
ULONG_MAX == (2 ^ LIMIT_BITS) - 1

\* The formats %d, %y, %u, %o and %x with their flags.  Zeros on the right, which %-0 would
\* give, are used nowhere.
Formats ==
  {f \in [base : {8, 10, 16}, sign : BOOLEAN, sharp : BOOLEAN, padc : {0, SPACE},
          ladjust : BOOLEAN, width : Widths] :
     (f.sign => f.base # 8) /\ (f.ladjust => f.padc = SPACE)}

VARIABLES
  num, fmt,       \* the number that is printed and how; num = -1 for a text of Strings
  text_in,        \* the text that is read
  radix, signed,  \* how: the argument base, and whether by strtol
  at_char,        \* the place of the character c
  neg, any, acc,  \* local variables of strtol
  phase_n,
  returned, endptr

numVars == <<num, fmt, text_in, radix, signed, at_char, neg, any, acc, phase_n, returned, endptr>>

Plain == [base |-> 10, sign |-> FALSE, sharp |-> FALSE, padc |-> SPACE, ladjust |-> FALSE, width |-> 0]

NumbersTypeOK ==
  /\ num \in -1..(WORD - 1) /\ fmt \in Formats \cup {Plain}
  /\ text_in \in Seq(0..38) /\ radix \in {0, 8, 10, 16} /\ signed \in BOOLEAN
  /\ at_char \in 1..(Len(text_in) + 1)
  /\ neg \in BOOLEAN /\ any \in {-1, 0, 1} /\ acc \in 0..(WORD - 1)
  /\ phase_n \in {"print", "scan", "digits", "done"}
  /\ returned \in -WORD..(WORD - 1) /\ endptr \in 0..(Len(text_in) + 1)

NumbersInit ==
  /\ \/ /\ num = -1 /\ fmt = Plain /\ phase_n = "scan"
        /\ text_in \in Strings /\ radix \in ReadBases /\ signed \in BOOLEAN
     \/ /\ num \in 0..(WORD - 1) /\ fmt \in Formats /\ phase_n = "print"
        /\ text_in = << >> /\ radix = fmt.base /\ signed = fmt.sign
  /\ at_char = 1 /\ neg = FALSE /\ any = 0 /\ acc = 0
  /\ returned = 0 /\ endptr = 0

-----------------------------------------------------------------------------
Negative(n) == n >= WORD \div 2
Negated(n) == (WORD - n) % WORD

\* The digits of n, in the order in which they are printed.
ksprintn(n, base) ==
  LET digits[k \in 0..n] == IF k < base THEN <<k>> ELSE Append(digits[k \div base], k % base)
  IN  digits[n]

Padding(c, k) == [i \in 1..(IF k > 0 THEN k ELSE 0) |-> c]

\* From the label number on: tmp is what is printed besides the padding.
kvprintf_number(n, f) ==
  LET minus == f.sign /\ Negative(n)
      digits == ksprintn(IF minus THEN Negated(n) ELSE n, f.base)
      prefix == IF ~f.sharp \/ n = 0 \/ f.base = 10 THEN << >>
                ELSE IF f.base = 8 THEN <<0>> ELSE <<0, LETTER_X>>
      tmp == Len(digits) + Len(prefix) + (IF minus THEN 1 ELSE 0)
      pad == Padding(f.padc, f.width - tmp)
  IN  (IF ~f.ladjust /\ f.padc # 0 THEN pad ELSE << >>)
        \o (IF minus THEN <<MINUS>> ELSE << >>) \o prefix
        \o (IF ~f.ladjust /\ f.padc = 0 THEN pad ELSE << >>)
        \o digits \o (IF f.ladjust THEN pad ELSE << >>)

kvprintf ==
  /\ phase_n = "print"
  /\ text_in' = kvprintf_number(num, fmt)
  /\ phase_n' = "scan"
  /\ UNCHANGED <<num, fmt, radix, signed, at_char, neg, any, acc, returned, endptr>>

-----------------------------------------------------------------------------
\* The character at a place of the text.
CharAt(i) == IF i <= Len(text_in) THEN text_in[i] ELSE NUL

\* The start of strtol and strtoul: white space, sign, prefix and base.
strtol_start ==
  LET i == CHOOSE k \in 1..(Len(text_in) + 1) :
             CharAt(k) # SPACE /\ \A j \in 1..(k - 1) : CharAt(j) = SPACE
      j == IF CharAt(i) \in {MINUS, PLUS} THEN i + 1 ELSE i
      hex == radix \in {0, 16} /\ CharAt(j) = 0 /\ CharAt(j + 1) = LETTER_X
  IN  /\ phase_n = "scan"
      /\ neg' = (CharAt(i) = MINUS)
      /\ at_char' = IF hex THEN j + 2 ELSE j
      /\ radix' = IF hex THEN 16
                  ELSE IF radix = 0 THEN (IF CharAt(j) = 0 THEN 8 ELSE 10) ELSE radix
      /\ phase_n' = "digits"
      /\ UNCHANGED <<num, fmt, text_in, signed, any, acc, returned, endptr>>

Largest == IF ~signed THEN ULONG_MAX ELSE IF neg THEN LONG_MAX + 1 ELSE LONG_MAX
cutoff == Largest \div radix
cutlim == Largest % radix

\* Faulty variant: the last digit is not looked at.
TooLargeRounded(c) == acc > cutoff

TooLarge(c) == acc > cutoff \/ (acc = cutoff /\ c > cutlim)

\* A pass of the loop.
strtol_digit ==
  LET c == CharAt(at_char)
      over == any < 0 \/ TooLarge(c)
  IN  /\ phase_n = "digits" /\ c < radix
      /\ any' = IF over THEN -1 ELSE 1
      /\ acc' = IF over THEN acc ELSE ((acc * radix) + c) % WORD
      /\ at_char' = at_char + 1
      /\ UNCHANGED <<num, fmt, text_in, radix, signed, neg, phase_n, returned, endptr>>

\* The end: a character that is no digit.
strtol_return ==
  LET a == IF any >= 0 THEN (IF neg THEN Negated(acc) ELSE acc)
           ELSE IF ~signed THEN ULONG_MAX
           ELSE IF neg THEN Negated(LONG_MAX + 1) ELSE LONG_MAX
  IN  /\ phase_n = "digits" /\ CharAt(at_char) >= radix
      /\ returned' = IF signed /\ Negative(a) THEN a - WORD ELSE a
      /\ endptr' = IF any = 0 THEN 1 ELSE at_char
      /\ phase_n' = "done"
      /\ UNCHANGED <<num, fmt, text_in, radix, signed, at_char, neg, any, acc>>

NumbersNext == kvprintf \/ strtol_start \/ strtol_digit \/ strtol_return

NumbersSpec == NumbersInit /\ [][NumbersNext]_numVars

-----------------------------------------------------------------------------
\* A number as strtol or strtoul is to return it: the nearest one within its limits, and
\* strtoul negates modulo the size of a word.
Limited(v, minus) ==
  IF signed
  THEN IF minus THEN (IF v > LONG_MAX + 1 THEN -LONG_MAX - 1 ELSE -v)
       ELSE IF v > LONG_MAX THEN LONG_MAX ELSE v
  ELSE IF v > ULONG_MAX THEN ULONG_MAX ELSE IF minus THEN Negated(v) ELSE v

\* The value of the digits before place e, from place i on, without any limit.
ValueOf(i, e) ==
  LET v[k \in (i - 1)..(e - 1)] == IF k = i - 1 THEN 0 ELSE (v[k - 1] * radix) + text_in[k]
  IN  v[e - 1]

\* strtol and strtoul return the value of all digits that follow sign and prefix, or the
\* limit it exceeds, although they compute in a word and stop adding at the limit; and
\* endptr is the place behind the digits, or the start of a text without any.
ReadExact ==
  phase_n = "done" =>
    IF endptr = 1
    THEN returned = 0 /\ (CharAt(1) = 0 \/ CharAt(1) >= radix)
    ELSE \E i \in 1..(endptr - 1) :
           /\ \A k \in i..(endptr - 1) : text_in[k] < radix
           /\ i = 1 \/ text_in[i - 1] >= radix
           /\ CharAt(endptr) >= radix
           /\ returned = Limited(ValueOf(i, endptr), \E k \in 1..(i - 1) : text_in[k] = MINUS)

\* What kvprintf prints is what strtol reads, in any base, with any flags, as far as the
\* limits allow, and the text has the width that was asked for and no character more than
\* needed.
ReadBack ==
  phase_n = "done" /\ num >= 0 =>
    LET minus == fmt.sign /\ Negative(num)
        size == IF minus THEN Negated(num) ELSE num
    IN  /\ returned = Limited(size, minus)
        /\ Len(text_in) >= fmt.width
        /\ Len(text_in) > fmt.width =>
             /\ SPACE \notin {text_in[k] : k \in DOMAIN text_in}
             /\ ~fmt.sharp /\ ~minus /\ size # 0 => text_in[1] # 0

\* Numbers survive the way to text and back, and texts are read exactly.
NumbersRight == NumbersTypeOK /\ ReadExact /\ ReadBack
=============================================================================
