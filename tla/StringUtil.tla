----------------------------- MODULE StringUtil -----------------------------
(***************************************************************************)
(* HPS::StringUtil's URL coding and trimming (src/src/util.cc), as         *)
(* operators on strings of bytes: a char is its unsigned value 0..255     *)
(* (the code's casts to uint8_t and its masks make a signed char behave    *)
(* the same way).                                                          *)
(*                                                                         *)
(* The functions are checked against reference definitions on every       *)
(* string of at most MaxLen bytes from Alphabet: the variable str grows    *)
(* one byte at a time, so each reachable state is one argument.            *)
(***************************************************************************)
EXTENDS Naturals, Sequences, SequencesExt

CONSTANTS
  Alphabet,   \* the bytes the arguments are made of
  MaxLen,     \* bound: the longest argument
  DelimSets   \* the delimit arguments given to Trim and TrimLeft

ASSUME Alphabet \subseteq 0..255 /\ MaxLen \in Nat
ASSUME \A d \in DelimSets : d \subseteq 0..255

VARIABLE str

Init == str = <<>>

Next == Len(str) < MaxLen /\ \E c \in Alphabet : str' = Append(str, c)

Spec == Init /\ [][Next]_str

-----------------------------------------------------------------------------
(* The tables.                                                             *)

(* uri_chars: 1 for - . 0-9 = A-Z _ a-z ~ and 0 for every other byte.     *)
UriUnreserved == {45, 46, 61, 95, 126} \cup (48..57) \cup (65..90) \cup (97..122)

(* xdigit_chars: the value of a hex digit, 0 for every other byte.        *)
XdigitValue(c) == CASE c \in 48..57  -> c - 48
                    [] c \in 65..70  -> c - 55
                    [] c \in 97..102 -> c - 87
                    [] OTHER         -> 0

(* isxdigit of <ctype.h> in the C locale.                                  *)
IsXdigit(c) == c \in (48..57) \cup (65..70) \cup (97..102)

(* hexdigits[n] of "0123456789ABCDEF".                                     *)
HexDigit(n) == IF n < 10 THEN 48 + n ELSE 55 + n

-----------------------------------------------------------------------------
(* StringUtil::UrlEncode: unreserved bytes are copied, a space becomes '+' *)
(* when space_as_plus, every other byte becomes '%' and two upper-case hex *)
(* digits.  (The copy that is only made once a byte needs encoding is an   *)
(* allocation detail: the result is the same.)                             *)
EncodeByte(c, space_as_plus) ==
  IF c \in UriUnreserved THEN <<c>>
  ELSE IF c = 32 /\ space_as_plus THEN <<43>>
  ELSE <<37, HexDigit(c \div 16), HexDigit(c % 16)>>

UrlEncode(s, space_as_plus) ==
  FlattenSeq([i \in 1..Len(s) |-> EncodeByte(s[i], space_as_plus)])

(* Mutant: the escape is only decoded when a byte follows it (c + 2 < end *)
(* read as one past the end).                                              *)
RECURSIVE DecodeFromShort(_, _, _)
DecodeFromShort(s, i, space_as_plus) ==
  IF i > Len(s) THEN <<>>
  ELSE IF s[i] = 43 /\ space_as_plus THEN <<32>> \o DecodeFromShort(s, i + 1, space_as_plus)
  ELSE IF s[i] = 37 /\ i + 2 < Len(s) /\ IsXdigit(s[i + 1]) /\ IsXdigit(s[i + 2])
    THEN <<XdigitValue(s[i + 1]) * 16 + XdigitValue(s[i + 2])>>
           \o DecodeFromShort(s, i + 3, space_as_plus)
  ELSE <<s[i]>> \o DecodeFromShort(s, i + 1, space_as_plus)

(* The loop of StringUtil::UrlDecode from byte i on: '+' is a space when   *)
(* space_as_plus; '%' followed by two hex digits inside the string is the *)
(* byte they spell, and the loop skips them; any other byte is copied.     *)
RECURSIVE DecodeFrom(_, _, _)
DecodeFrom(s, i, space_as_plus) ==
  IF i > Len(s) THEN <<>>
  ELSE IF s[i] = 43 /\ space_as_plus THEN <<32>> \o DecodeFrom(s, i + 1, space_as_plus)
  ELSE IF s[i] = 37 /\ i + 2 <= Len(s) /\ IsXdigit(s[i + 1]) /\ IsXdigit(s[i + 2])
    THEN <<XdigitValue(s[i + 1]) * 16 + XdigitValue(s[i + 2])>>
           \o DecodeFrom(s, i + 3, space_as_plus)
  ELSE <<s[i]>> \o DecodeFrom(s, i + 1, space_as_plus)

UrlDecode(s, space_as_plus) == DecodeFrom(s, 1, space_as_plus)

-----------------------------------------------------------------------------
(* Trimming.  find_first_not_of and find_last_not_of, 1-based, with 0 for *)
(* npos.                                                                   *)
FirstNotOf(s, delimit) == SelectInSeq(s, LAMBDA c : c \notin delimit)
LastNotOf(s, delimit)  == SelectLastInSeq(s, LAMBDA c : c \notin delimit)

(* Mutant: substr(begin, end - begin), one byte short.                     *)
TrimOneShort(s, delimit) ==
  IF FirstNotOf(s, delimit) = 0 THEN <<>>
  ELSE SubSeq(s, FirstNotOf(s, delimit), LastNotOf(s, delimit) - 1)

(* StringUtil::Trim: "" when every byte is a delimiter, else               *)
(* substr(begin, end - begin + 1).                                         *)
Trim(s, delimit) ==
  IF FirstNotOf(s, delimit) = 0 THEN <<>>
  ELSE SubSeq(s, FirstNotOf(s, delimit), LastNotOf(s, delimit))

(* StringUtil::TrimLeft: "" when every byte is a delimiter, else           *)
(* substr(begin).                                                          *)
TrimLeft(s, delimit) ==
  IF FirstNotOf(s, delimit) = 0 THEN <<>>
  ELSE SubSeq(s, FirstNotOf(s, delimit), Len(s))

-----------------------------------------------------------------------------
(* Reference definitions.                                                  *)

AllIn(s, D) == \A k \in 1..Len(s) : s[k] \in D

(* Only delimiters before position i and after position j.               *)
Framed(s, i, j, D) ==
  AllIn(SubSeq(s, 1, i - 1), D) /\ AllIn(SubSeq(s, j + 1, Len(s)), D)

(* s with its leading and trailing delimiters removed: an infix s[i..j],   *)
(* framed by delimiters, that is empty or starts and ends with a byte     *)
(* that is not one.                                                        *)
TrimRef(s, D) ==
  {SubSeq(s, p[1], p[2]) : p \in {q \in (1..(Len(s) + 1)) \X (0..Len(s)) :
       /\ q[1] <= q[2] + 1
       /\ Framed(s, q[1], q[2], D)
       /\ q[1] <= q[2] => s[q[1]] \notin D /\ s[q[2]] \notin D}}

(* s with its leading delimiters removed: the suffix after a run of        *)
(* delimiters that does not start with one.                                *)
TrimLeftRef(s, D) ==
  {SubSeq(s, i, Len(s)) : i \in {k \in 1..(Len(s) + 1) :
       /\ AllIn(SubSeq(s, 1, k - 1), D)
       /\ k <= Len(s) => s[k] \notin D}}

-----------------------------------------------------------------------------
(* Properties                                                              *)

(* Decoding what UrlEncode produced gives the string back, with the same   *)
(* space_as_plus on both sides: no byte is left unescaped that UrlDecode  *)
(* would read as a space or as the start of an escape, and every escape   *)
(* UrlEncode writes is one UrlDecode reads, up to the end of the string.   *)
UrlRoundTrip ==
  \A plus \in BOOLEAN : UrlDecode(UrlEncode(str, plus), plus) = str

(* Trim and TrimLeft return exactly the string without its leading (and,   *)
(* for Trim, trailing) delimiters, for every delimiter set: the npos case  *)
(* and the begin/end arithmetic of substr agree with the definition.       *)
TrimMatchesReference ==
  \A D \in DelimSets :
    /\ TrimRef(str, D) = {Trim(str, D)}
    /\ TrimLeftRef(str, D) = {TrimLeft(str, D)}

=============================================================================
