----------------------------- MODULE NumberText -----------------------------
(***************************************************************************)
(* Numbers and text: to_int32() and to_uint32(), which StorageLoop uses to *)
(* find the version of a directory, to_s(), and split() and join().        *)
(*                                                                         *)
(* A text is a sequence of characters: "0" to "9", "-", " " and others.    *)
(***************************************************************************)
EXTENDS Integers, Sequences, SequencesExt, FiniteSetsExt

CONSTANTS NumTexts,   \* the texts to convert
          NumDelims,  \* the delimiters to split at, a set of characters
          NumModulus  \* the number of values of an int32_t

ASSUME NumModulusIsEven == NumModulus \in Nat \ {0} /\ NumModulus % 2 = 0

VARIABLES
  numText,   \* the text; <<>> with numCall = "none" before the call
  numCall,   \* "none", "int", "uint" or "split"
  numResult  \* [ok, value], or [parts]

numvars == <<numText, numCall, numResult>>

NumDigits == <<"0", "1", "2", "3", "4", "5", "6", "7", "8", "9">>
IsDigit(c) == c \in ToSet(NumDigits)
DigitOf(c) == CHOOSE d \in 0 .. 9 : NumDigits[d + 1] = c
-----------------------------------------------------------------------------
StartDigit(text) == text # <<>> /\ IsDigit(text[1])

SkipSpaces(text) == SubSeq(text, Min({i \in DOMAIN text : text[i] # " "} \cup {Len(text) + 1}), Len(text))

\* Mutant: like SignedFlag, but with one bound for both signs.
SignedFlagSame(text) ==
  IF text # <<>> /\ text[1] = "-"
  THEN [sign |-> -1, vmax |-> NumModulus \div 2 - 1, rest |-> Tail(text)]
  ELSE [sign |-> 1, vmax |-> NumModulus \div 2 - 1, rest |-> text]

\* signedFlag() and unsignedFlag(): the sign, the largest value, the rest.
SignedFlag(text) ==
  IF text # <<>> /\ text[1] = "-"
  THEN [sign |-> -1, vmax |-> NumModulus \div 2, rest |-> Tail(text)]
  ELSE [sign |-> 1, vmax |-> NumModulus \div 2 - 1, rest |-> text]
UnsignedFlag(text) == [sign |-> 1, vmax |-> NumModulus - 1, rest |-> text]

\* toInt64() stops in front of the digit that makes the value too large, and
\* gives 0 then; the digit that is left over makes toInt() fail.
ToInt64(text, vmax) ==
  FoldLeft(LAMBDA r, c :
             IF ~IsDigit(c) \/ r.stopped THEN [r EXCEPT !.stopped = TRUE]
             ELSE LET value == r.value * 10 + DigitOf(c)
                  IN IF value > vmax THEN [r EXCEPT !.value = 0, !.stopped = TRUE]
                     ELSE [r EXCEPT !.value = value, !.used = @ + 1],
           [value |-> 0, used |-> 0, stopped |-> FALSE], text)

NotANumber == [ok |-> FALSE, value |-> 0]
ToInteger(text, signed) ==
  LET f == IF signed THEN SignedFlag(SkipSpaces(text)) ELSE UnsignedFlag(SkipSpaces(text))
      r == ToInt64(f.rest, f.vmax)
      rest == SkipSpaces(SubSeq(f.rest, r.used + 1, Len(f.rest)))
  IN IF StartDigit(f.rest) /\ rest = <<>> THEN [ok |-> TRUE, value |-> r.value * f.sign] ELSE NotANumber

ToInt32(text) == ToInteger(text, TRUE)
ToUint32(text) == ToInteger(text, FALSE)
-----------------------------------------------------------------------------
\* to_s(uint32_t): the digits from the last one, reversed.
DigitsOf(u) ==
  LET down[v \in 0 .. u] == <<NumDigits[(v % 10) + 1]>> \o (IF v < 10 THEN <<>> ELSE down[v \div 10])
  IN Reverse(down[u])

\* to_s(int32_t): 0 - u as uint32_t.
Printed(i) == IF i < 0 THEN <<"-">> \o DigitsOf((0 - (i % NumModulus)) % NumModulus) ELSE DigitsOf(i)

\* StringView::split(): every delimiter, and the end, ends a part.
SplitText(text) ==
  IF text = <<>> THEN <<>>
  ELSE FoldLeft(LAMBDA parts, c : IF c \in NumDelims THEN Append(parts, <<>>)
                                  ELSE Append(Front(parts), Append(Last(parts), c)),
                <<<<>>>>, text)

JoinText(parts, sep) ==
  FoldLeft(LAMBDA r, n : r \o (IF n = 1 THEN <<>> ELSE sep) \o parts[n], <<>>, [n \in DOMAIN parts |-> n])
-----------------------------------------------------------------------------
NumInit == numText = <<>> /\ numCall = "none" /\ numResult = NotANumber

ConvertText(text) ==
  /\ numCall = "none"
  /\ numText' = text
  /\ \/ numCall' = "int" /\ numResult' = ToInt32(text)
     \/ numCall' = "uint" /\ numResult' = ToUint32(text)
     \/ numCall' = "split" /\ numResult' = [parts |-> SplitText(text)]

NumNext == \E text \in NumTexts : ConvertText(text)
NumSpec == NumInit /\ [][NumNext]_numvars
-----------------------------------------------------------------------------
Stripped(text) == Reverse(SkipSpaces(Reverse(SkipSpaces(text))))

\* A decimal number: digits, with a minus sign if it is signed.
ValueOf(digits) == MapThenSumSet(LAMBDA i : DigitOf(digits[i]) * 10 ^ (Len(digits) - i), DOMAIN digits)
IsDecimal(t, signed) ==
  LET digits == IF signed /\ t # <<>> /\ t[1] = "-" THEN Tail(t) ELSE t
  IN digits # <<>> /\ \A i \in DOMAIN digits : IsDigit(digits[i])
DecimalOf(t) == IF t[1] = "-" THEN 0 - ValueOf(Tail(t)) ELSE ValueOf(t)

InRange(v, signed) ==
  IF signed THEN v \in 0 - (NumModulus \div 2) .. (NumModulus \div 2) - 1 ELSE v \in 0 .. NumModulus - 1

\* A text is accepted exactly if it is a decimal number, with spaces around,
\* whose value the type can hold, and with that value; printing the value and
\* reading it again gives it back, the smallest int included; and the parts
\* of a text, none of which has a delimiter in it, join to the text.
NumbersExact ==
  LET signed == numCall = "int"
      t == Stripped(numText)
  IN CASE numCall = "none" -> TRUE
       [] numCall \in {"int", "uint"} ->
            /\ numResult.ok <=> IsDecimal(t, signed) /\ InRange(DecimalOf(t), signed)
            /\ numResult.ok => /\ numResult.value = DecimalOf(t)
                               /\ signed => ToInt32(Printed(numResult.value)) = numResult
                               /\ ~signed => ToUint32(Printed(numResult.value)) = numResult
       [] numCall = "split" ->
            /\ \A n \in DOMAIN numResult.parts : ToSet(numResult.parts[n]) \cap NumDelims = {}
            /\ \A d \in NumDelims : ToSet(numText) \cap NumDelims \subseteq {d} =>
                                      JoinText(numResult.parts, <<d>>) = numText
=============================================================================
