--------------------------------- MODULE Money ---------------------------------
(***************************************************************************)
(* internal/core/money.go: the decimal string of the API and the int64     *)
(* cents behind it.                                                        *)
(*                                                                         *)
(* A text is a sequence of ASCII codes.  Twelve digits of cents are past   *)
(* TLC's integers, so a number is the sequence of its decimal digits, most *)
(* significant first, without leading zeros: zero is the empty sequence.   *)
(***************************************************************************)
EXTENDS Integers, Sequences, FiniteSetsExt

Dot == 46
Digit == 48..57
isDigits(text) == text # <<>> /\ \A i \in DOMAIN text : text[i] \in Digit

Number(digits) ==
    LET first == Min({i \in DOMAIN digits : digits[i] # 48} \cup {Len(digits) + 1})
    IN  SubSeq(digits, first, Len(digits))

maxAmountLen == 12   \* 9_999_999_999_99

(***************************************************************************)
(* ParseAmount: strings.Cut at the first dot, and units*100 + cents.       *)
(***************************************************************************)
HasDot(text) == \E i \in DOMAIN text : text[i] = Dot
DotAt(text) == Min({i \in DOMAIN text : text[i] = Dot})
Whole(text) == SubSeq(text, 1, DotAt(text) - 1)
Frac(text) == SubSeq(text, DotAt(text) + 1, Len(text))

ParseAmount(text) == Number(Whole(text) \o Frac(text))

IsAmount(text) ==
    /\ HasDot(text)
    /\ Len(Whole(text)) \in 1..10 /\ Len(Frac(text)) = 2
    /\ isDigits(Whole(text)) /\ isDigits(Frac(text))
    /\ Len(ParseAmount(text)) <= maxAmountLen

(***************************************************************************)
(* FormatAmount, of cents that are not negative.                           *)
(***************************************************************************)
Padded(number, width) ==
    [i \in 1..Max({0, width - Len(number)}) |-> 48] \o number

\* mutant: %d.%d
FormatUnpadded(cents) ==
    LET digits == Padded(cents, 3)
        n == Len(digits)
    IN  SubSeq(digits, 1, n - 2) \o <<Dot>> \o Padded(Number(SubSeq(digits, n - 1, n)), 1)

FormatAmount(cents) ==
    LET digits == Padded(cents, 3)
        n == Len(digits)
    IN  SubSeq(digits, 1, n - 2) \o <<Dot>> \o SubSeq(digits, n - 1, n)
=============================================================================
