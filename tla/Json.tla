-------------------------------- MODULE Json --------------------------------
(* JSON in the C runtime: a document is serialized, perhaps cut short by the
   channel it goes through, and parsed.  A text is a sequence of lexemes; white
   space is left out.  The parser never reports an error: it answers NULL, and
   what called it goes on from where it stopped. *)
EXTENDS Integers, Sequences, FiniteSets, SequencesExt

CONSTANTS
  Numbers,     \* numerals
  Contents,    \* byte sequences used as strings; "quote" and "nul" are escaped
  JsonBuffer,  \* bytes a parsed string can have (4095 in the code)
  MaxNodes     \* bound: values in a document

ASSUME JsonAssumption == JsonBuffer \in Nat \ {0} /\ MaxNodes \in Nat \ {0} /\ <<>> \in Contents

JsonNull == [k |-> "null"]
Number(n) == [k |-> "number", n |-> n]
String(s) == [k |-> "string", s |-> s]
Array(e) == [k |-> "array", e |-> e]
Dictionary(e) == [k |-> "dict", e |-> e]     \* a set of [key, val]
Leaves == {JsonNull, [k |-> "true"], [k |-> "object"]} \cup {Number(n) : n \in Numbers} \cup {String(s) : s \in Contents}
DictKeys == {Number(n) : n \in Numbers} \cup {String(s) : s \in Contents}

Nothing == [k |-> "nothing"]

VARIABLES
  doc,     \* the document
  sent,    \* what it was serialized from, when it has just been parsed
  whole,   \* whether all of the text arrived
  overran  \* the parser read past the end of the text, and what it answered is made up

jsonVars == <<doc, sent, whole, overran>>

JsonInit == doc \in Leaves /\ sent = Nothing /\ whole = TRUE /\ overran = FALSE

(* A control character that has no letter is written as u and four digits.  The
   parser takes the u for one of the four, so it reads a NUL (strtol meets the u
   first) and leaves the last digit to be read as a character.  "nul" stands for
   all of these characters; a text may be cut before or inside the Digits.     *)
Digits == "000"
Escaped(c) ==
  IF c \in {"\"", "\\"} THEN <<"\\", c>> ELSE IF c = "nul" THEN <<"\\", "u", Digits, "0">> ELSE <<c>>

RECURSIVE Serialize(_), Size(_), Portable(_)
Commas(texts) == FlattenSeq([i \in DOMAIN texts |-> IF i = 1 THEN texts[i] ELSE <<",">> \o texts[i]])
Serialize(v) ==
  CASE v.k = "number" -> <<v.n>>
    [] v.k = "string" -> <<"\"">> \o FlattenSeq([i \in DOMAIN v.s |-> Escaped(v.s[i])]) \o <<"\"">>
    [] v.k = "array"  -> <<"[">> \o Commas([i \in DOMAIN v.e |-> Serialize(v.e[i])]) \o <<"]">>
    [] v.k = "dict"   -> LET entries == SetToSeq(v.e) IN
         <<"{">> \o Commas([i \in DOMAIN entries |-> Serialize(entries[i].key) \o <<":">> \o Serialize(entries[i].val)])
               \o <<"}">>
    [] v.k = "object" -> <<"\"", "object", "\"">>
    [] OTHER -> <<v.k>>

(* Parsers take the text that is left and give a value and what is left after it. *)
Parsed(v, rest) == [v |-> v, rest |-> rest]
Look(p) == IF p = <<>> THEN "end" ELSE Head(p)
UpToNul(s) == IF Contains(s, "nul") THEN SubSeq(s, 1, SelectInSeq(s, LAMBDA c : c = "nul") - 1) ELSE s

RECURSIVE ParseString(_, _), ParseValue(_), ParseEntries(_, _), ParseItems(_, _)
(* A backslash takes the next byte unseen, and a u the Digits that there are: at
   the end of the text the parser steps over its NUL, into what lies behind it. *)
Beyond == <<"beyond">>
CutInEscape(p) == p = <<"\\">> \/ p = <<"\\", "u">>
ParseString(p, buf) ==     \* after the opening quote
  CASE Look(p) \in {"end", "\""} \/ Len(buf) >= JsonBuffer ->
         Parsed(String(UpToNul(buf)), IF Look(p) = "\"" THEN Tail(p) ELSE p)
    [] CutInEscape(p) -> Parsed(Nothing, Beyond)
    [] Look(p) = "\\" /\ ~CutInEscape(p) ->
         IF p[2] = "u" THEN ParseString(SubSeq(p, 4, Len(p)), Append(buf, "nul"))
         ELSE ParseString(Tail(Tail(p)), Append(buf, p[2]))
    [] OTHER -> ParseString(Tail(p), Append(buf, Head(p)))

DictWith(entries, key, val) == {e \in entries : e.key # key} \cup {[key |-> key, val |-> val]}

BadSettled(p, close, v, more) == IF Look(p) = "," THEN more ELSE Parsed(v, IF Look(p) = close THEN Tail(p) ELSE p)
Settled(p, close, v, more) ==   \* after an item: the end of the container, another item, or an error
  IF Look(p) = close THEN Parsed(v, Tail(p)) ELSE IF Look(p) = "," THEN more ELSE Parsed(JsonNull, p)

ParseEntries(p, entries) ==
  IF Look(p) # "\"" THEN Parsed(JsonNull, p)
  ELSE LET key == ParseString(Tail(p), <<>>) IN
       IF Look(key.rest) # ":" THEN Parsed(JsonNull, key.rest)
       ELSE LET val == ParseValue(Tail(key.rest))
                now == DictWith(entries, key.v, val.v)
            IN Settled(val.rest, "}", Dictionary(now), ParseEntries(Tail(val.rest), now))
ParseItems(p, items) ==
  LET val == ParseValue(p)
      now == Append(items, val.v)
  IN Settled(val.rest, "]", Array(now), ParseItems(Tail(val.rest), now))

ParseValue(p) ==
  CASE Look(p) = "\"" -> ParseString(Tail(p), <<>>)
    [] Look(p) \in Numbers -> Parsed(Number(Head(p)), Tail(p))
    [] Look(p) = "{" -> IF Look(Tail(p)) = "}" THEN Parsed(Dictionary({}), Tail(Tail(p))) ELSE ParseEntries(Tail(p), {})
    [] Look(p) = "[" -> IF Look(Tail(p)) = "]" THEN Parsed(Array(<<>>), Tail(Tail(p))) ELSE ParseItems(Tail(p), <<>>)
    [] Look(p) \in {"true", "null"} -> Parsed([k |-> Look(p)], Tail(p))
    [] OTHER -> Parsed(JsonNull, p)

Size(v) ==
  CASE v.k = "array" -> 1 + FoldSeq(LAMBDA w, n : n + Size(w), 0, v.e)
    [] v.k = "dict" -> 1 + FoldSeq(LAMBDA w, n : n + Size(w.val), 0, SetToSeq(v.e))
    [] OTHER -> 1

Becomes(d) == doc' = d /\ Size(d) <= MaxNodes /\ sent' = Nothing /\ whole' = TRUE /\ UNCHANGED overran
DocWrap == Becomes(Array(<<doc>>)) \/ \E key \in DictKeys : Becomes(Dictionary({[key |-> key, val |-> doc]}))
DocEmpty == Becomes(Array(<<>>)) \/ Becomes(Dictionary({}))
DocAdd(v) ==
  \/ doc.k = "array" /\ Becomes(Array(Append(doc.e, v)))
  \/ doc.k = "dict" /\ \E key \in DictKeys : Becomes(Dictionary(DictWith(doc.e, key, v)))

(* What is left of the text after the value is ignored.  Past its end the parser
   may find the end of the value, or of another one, or none: the answer is any
   value (a document of each kind stands for them), and the run stops there.   *)
Anything == Leaves \cup {Array(<<>>), Array(<<JsonNull>>), Dictionary({})}
Exchange(n) ==
  LET text == Serialize(doc)
      got == ParseValue(SubSeq(text, 1, n))
  IN /\ n \in 1 .. Len(text) /\ whole' = (n = Len(text)) /\ sent' = doc
     /\ overran' = (got.rest = Beyond) /\ doc' \in (IF overran' THEN Anything ELSE {got.v})

JsonNext ==
  /\ ~overran
  /\ \/ DocWrap \/ DocEmpty \/ \E v \in Leaves : Becomes(v) \/ DocAdd(v)
     \/ \E n \in 1 .. Len(Serialize(doc)) : Exchange(n)

(* What JSON carries: strings the parser's buffer holds, without a character that
   is written as digits; strings as keys; no instances.                       *)
Portable(v) ==
  CASE v.k = "string" -> Len(v.s) <= JsonBuffer /\ ~Contains(v.s, "nul")
    [] v.k = "array" -> \A i \in DOMAIN v.e : Portable(v.e[i])
    [] v.k = "dict" -> \A e \in v.e : e.key.k = "string" /\ Portable(e.key) /\ Portable(e.val)
    [] OTHER -> v.k # "object"

(* A portable document comes back as it was.  Only a text that was cut can be
   read past its end, behind a backslash or inside an escape, and then nothing is
   said of the answer.  Otherwise a portable array or dictionary whose text was
   cut is never taken for a whole one: the answer is NULL.  (A string that was
   cut is taken as it is.)                                                   *)
DocumentsAreCarried ==
  /\ overran => ~whole
  /\ sent # Nothing /\ Portable(sent) =>
       /\ whole => doc = sent
       /\ ~whole /\ ~overran /\ sent.k \in {"array", "dict"} => doc = JsonNull
=============================================================================
