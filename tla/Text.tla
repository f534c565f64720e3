-------------------------------- MODULE Text --------------------------------
(* Strings of the C runtime: bytes ended by a NUL, read as UTF-8 by walking from
   lead byte to lead byte.  Nothing validates them: a socket read may stop inside
   a character, and splitting goes by bytes.  `chars` is what the program means
   by the bytes, changed at each call the way the call is meant. *)
EXTENDS Integers, Sequences, FiniteSets, SequencesExt

CONSTANTS
  Chars,      \* characters, as sequences of bytes
  Width,      \* per byte: how far the walk goes from it
  MaxBytes    \* bound: bytes of a text

Bytes == UNION {ToSet(c) : c \in Chars}
ASSUME TextAssumption ==
  /\ Chars \subseteq Seq(Bytes) \ {<<>>} /\ Width \in [Bytes -> 1 .. 4] /\ MaxBytes \in Nat
  /\ \A c \in Chars : Width[c[1]] = Len(c)

VARIABLES
  text,      \* data, without its NUL
  chars,     \* the characters meant
  mangled    \* a character was cut, or a text split at part of one

textVars == <<text, chars, mangled>>

TextInit == text = <<>> /\ chars = <<>> /\ mangled = FALSE

Pieces == Chars \cup {<<>>}

(* Where the walk is after n characters; Len(s) + 1 is the NUL, and anything
   further is beyond the string.                                             *)
RECURSIVE Walk(_, _, _), BadWalk(_, _, _), CharCount(_, _), EachChar(_, _), Tokens(_, _, _), Substituted(_, _, _)
BadWalk(s, p, n) == IF n = 0 \/ p > Len(s) THEN p ELSE BadWalk(s, p + 1, n - 1)
Walk(s, p, n) == IF n = 0 \/ p > Len(s) THEN p ELSE Walk(s, p + Width[s[p]], n - 1)

Clamped(s, p) == SubSeq(s, p, IF p + Width[s[p]] - 1 > Len(s) THEN Len(s) ELSE p + Width[s[p]] - 1)
CharCount(s, p) == IF p > Len(s) THEN 0 ELSE 1 + CharCount(s, p + Width[s[p]])
NoChar == <<>>
GetChar(s, i) == LET p == Walk(s, 1, i) IN IF p > Len(s) THEN NoChar ELSE Clamped(s, p)
EachChar(s, p) == \* xt_string_next_char until the end
  IF p > Len(s) THEN <<>> ELSE <<Clamped(s, p)>> \o EachChar(s, p + Len(Clamped(s, p)))

Substring(s, a, b) ==
  IF a < 0 \/ Walk(s, 1, a) > Len(s) \/ (b >= 0 /\ b < a) THEN <<>>
  ELSE SubSeq(s, Walk(s, 1, a), IF b < 0 THEN Len(s) ELSE Walk(s, 1, b) - 1)

(* strtok: every byte of the separator ends a field, and no field is empty.  *)
Tokens(s, seps, field) ==
  IF s = <<>> THEN IF field = <<>> THEN <<>> ELSE <<field>>
  ELSE IF Head(s) \notin seps THEN Tokens(Tail(s), seps, Append(field, Head(s)))
  ELSE (IF field = <<>> THEN <<>> ELSE <<field>>) \o Tokens(Tail(s), seps, <<>>)
Split(s, sep) ==
  IF sep = <<>> THEN [i \in 1 .. CharCount(s, 1) |-> GetChar(s, i - 1)] ELSE Tokens(s, ToSet(sep), <<>>)

JoinWith(fields, sep) == FlattenSeq([i \in DOMAIN fields |-> fields[i] \o IF i < Len(fields) THEN sep ELSE <<>>])

Substituted(s, old, new) ==
  IF Len(s) < Len(old) THEN s
  ELSE IF SubSeq(s, 1, Len(old)) = old THEN new \o Substituted(SubSeq(s, Len(old) + 1, Len(s)), old, new)
  ELSE <<Head(s)>> \o Substituted(Tail(s), old, new)

TextConcat(c) ==
  /\ Len(text) + Len(c) <= MaxBytes /\ text' = text \o c /\ chars' = Append(chars, c) /\ UNCHANGED mangled

TextCut(n) ==   \* a read that ended after n bytes
  LET whole == {k \in 0 .. Len(chars) : Len(FlattenSeq(SubSeq(chars, 1, k))) = n} IN
  /\ text' = SubSeq(text, 1, n)
  /\ mangled' = (whole = {})
  /\ chars' = IF whole = {} THEN <<>> ELSE SubSeq(chars, 1, CHOOSE k \in whole : TRUE)

TextSubstring(a, b) ==
  /\ text' = Substring(text, a, b) /\ UNCHANGED mangled
  /\ chars' = IF a < 0 \/ (b >= 0 /\ b < a) THEN <<>>
              ELSE SubSeq(chars, a + 1, IF b < 0 \/ b > Len(chars) THEN Len(chars) ELSE b)

TextReplace(old, new) ==
  /\ old # <<>> /\ text' = Substituted(text, old, new) /\ Len(text') <= MaxBytes
  /\ chars' = Substituted(chars, <<old>>, IF new = <<>> THEN <<>> ELSE <<new>>) /\ UNCHANGED mangled

TextResplit(sep, glue) ==   \* split, and join with another separator
  LET fields == IF sep = <<>> THEN [i \in DOMAIN chars |-> <<chars[i]>>] ELSE Tokens(chars, {sep}, <<>>)
  IN /\ text' = JoinWith(Split(text, sep), glue) /\ Len(text') <= MaxBytes
     /\ chars' = JoinWith(fields, IF glue = <<>> THEN <<>> ELSE <<glue>>)
     /\ mangled' = (Len(sep) > 1)

TextNext ==   \* what the walk meets beyond a cut text is not known: the model stops there
  /\ ~mangled
  /\ \/ \E c \in Chars : TextConcat(c)
     \/ \E n \in 0 .. Len(text) : TextCut(n)
     \/ \E a, b \in -1 .. Len(text) : TextSubstring(a, b)
     \/ \E old, new \in Pieces : TextReplace(old, new) \/ TextResplit(old, new)

(* The bytes are those of the characters the program means, and every way of
   reading them by characters (count, by index, one after the other) agrees with
   that and stays inside the string, unless a character was cut or a text split
   at a separator of several bytes.  Taking one character after the other loses
   no byte and stays inside even then.                                       *)
TextIsItsCharacters ==
  /\ FlattenSeq(EachChar(text, 1)) = text
  /\ ~mangled =>
       /\ text = FlattenSeq(chars) /\ CharCount(text, 1) = Len(chars) /\ EachChar(text, 1) = chars
       /\ \A i \in 0 .. Len(chars) + 1 :
            /\ Walk(text, 1, i) <= Len(text) + 1
            /\ GetChar(text, i) = IF i < Len(chars) THEN chars[i + 1] ELSE NoChar
=============================================================================
