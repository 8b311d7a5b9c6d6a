------------------------------ MODULE FileMode ------------------------------
(***************************************************************************)
(* The octal permission string of a write_file action.                     *)
(*                                                                         *)
(* Two crates look at the same string: llm-os-common decides whether a     *)
(* plan carrying it is valid, llm-osd converts it when the file is         *)
(* written.  A mode is a sequence of one-character strings, because what   *)
(* the two functions accept is exactly what has to be compared.            *)
(***************************************************************************)
EXTENDS Integers, Sequences, FiniteSets

OctalDigits == {"0", "1", "2", "3", "4", "5", "6", "7"}

Blank == "blank"     \* any white space character

\* str::trim.
Trim(chars) ==
  LET leading  == {i \in DOMAIN chars : \A j \in 1..i : chars[j] = Blank}
      trailing == {i \in DOMAIN chars : \A j \in i..Len(chars) : chars[j] = Blank}
  IN  SubSeq(chars, Cardinality(leading) + 1, Len(chars) - Cardinality(trailing))

\* strip_prefix("0o").unwrap_or(mode): the prefix goes at most once.
StripOctalPrefix(chars) ==
  IF Len(chars) >= 2 /\ chars[1] = "0" /\ chars[2] = "o"
    THEN SubSeq(chars, 3, Len(chars))
    ELSE chars

AllOctal(chars) == \A i \in DOMAIN chars : chars[i] \in OctalDigits

\* A wrong IsOctalMode, which forgets how many digits there must be.
IsOctalModeAnyLength(mode) ==
  AllOctal(StripOctalPrefix(Trim(mode)))

IsOctalMode(mode) ==
  LET digits == StripOctalPrefix(Trim(mode))
  IN  Len(digits) \in {3, 4} /\ AllOctal(digits)

\* The place of digit i, counted from 1 at the right.
Place(digits, i) == Len(digits) - i + 1

\* u32::from_str_radix(digits, 8): one optional sign, at least one digit, and
\* a value below 2^32, which is 4 * 8^10.
FitsU32(digits) ==
  \A i \in DOMAIN digits :
    \/ digits[i] = "0"
    \/ Place(digits, i) <= 10
    \/ Place(digits, i) = 11 /\ digits[i] \in {"1", "2", "3"}

StripSign(chars) ==
  IF chars # <<>> /\ chars[1] = "+" THEN Tail(chars) ELSE chars

ParseModeOk(mode) ==
  LET digits == StripSign(StripOctalPrefix(Trim(mode)))
  IN  digits # <<>> /\ AllOctal(digits) /\ FitsU32(digits)
=============================================================================
