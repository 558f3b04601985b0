-------------------------------- MODULE Json --------------------------------
(***************************************************************************)
(* The values of src/runtime/vader_json.c, their text (vader_json_parse,   *)
(* vader_json_encode) and their binary form in MongoDB documents (bson_doc *)
(* and bson_decode of src/runtime/vader_mongo.c).                          *)
(*                                                                         *)
(* A text is a sequence of symbols: a punctuation mark, a character of a   *)
(* string, a literal, or a numeral.  Strings are sequences of characters.  *)
(* A double is counted in tenths.                                          *)
(***************************************************************************)
EXTENDS Integers, Sequences, SequencesExt, TLC

CONSTANTS
  DoubleMax,   \* integers are exact up to here; 2^53 in the code
  PrintLimit,  \* tenths from which "%g" prints no fraction; 10^6 in the code
  MaxTenths    \* bound on the numerals

JNull    == [type |-> "null"]
JBool(b) == [type |-> "bool", b |-> b]
JInt(i)  == [type |-> "int", i |-> i]
JDbl(d)  == [type |-> "dbl", d |-> d]
JStr(s)  == [type |-> "str", s |-> s]
JArr(v)  == [type |-> "arr", items |-> v]
JObj(k, v) == [type |-> "obj", keys |-> k, items |-> v]

-----------------------------------------------------------------------------
(* Builders: obj_set replaces the value of a key that is there. *)

ObjSet(o, key, val) ==
  IF key \in ToSet(o.keys)
    THEN [o EXCEPT !.items[SelectInSeq(o.keys, LAMBDA k : k = key)] = val]
    ELSE JObj(Append(o.keys, key), Append(o.items, val))

-----------------------------------------------------------------------------
(* Encoding *)

Escaped == [c \in {"\"", "\\", "NL", "CR", "TAB"} |->
              CASE c = "\"" -> "\"" [] c = "\\" -> "\\" [] c = "NL" -> "n"
                [] c = "CR" -> "r"  [] c = "TAB" -> "t"]

(* Mutant of StrText: backslashes are not escaped. *)
StrTextQuotesOnly(s) ==
  <<"\"">> \o FlattenSeq([i \in 1 .. Len(s) |->
                IF s[i] = "\"" THEN <<"\\", "\"">> ELSE <<s[i]>>])
           \o <<"\"">>

(* sb_json_str *)
StrText(s) ==
  <<"\"">> \o FlattenSeq([i \in 1 .. Len(s) |->
                IF s[i] \in DOMAIN Escaped THEN <<"\\", Escaped[s[i]]>> ELSE <<s[i]>>])
           \o <<"\"">>

(* A numeral: tenths, and whether it is written with a decimal point. *)
Numerals == {k \in [tenths : 0 .. MaxTenths, point : BOOLEAN] : k.point \/ k.tenths % 10 = 0}

Written(k) == IF k.point THEN ToString(k.tenths \div 10) \o "." \o ToString(k.tenths % 10)
                         ELSE ToString(k.tenths \div 10)

NumeralOf == [s \in {Written(k) : k \in Numerals} |-> CHOOSE k \in Numerals : Written(k) = s]

(* "%lld" *)
IntText(i) == Written([tenths |-> 10 * i, point |-> FALSE])

(* "%g": digits beyond the precision are lost, a whole number has no point. *)
DblText(d) ==
  LET printed == IF d < PrintLimit THEN d ELSE 10 * ((d + 5) \div 10)
  IN Written([tenths |-> printed, point |-> printed % 10 # 0])

Commas(parts) ==
  FlattenSeq([i \in 1 .. Len(parts) |-> IF i = 1 THEN parts[i] ELSE <<",">> \o parts[i]])

RECURSIVE Encode(_)
Encode(v) ==
  CASE v.type = "null" -> <<"null">>
    [] v.type = "bool" -> IF v.b THEN <<"true">> ELSE <<"false">>
    [] v.type = "int"  -> <<IntText(v.i)>>
    [] v.type = "dbl"  -> <<DblText(v.d)>>
    [] v.type = "str"  -> StrText(v.s)
    [] v.type = "arr"  ->
         <<"[">> \o Commas([i \in 1 .. Len(v.items) |-> Encode(v.items[i])]) \o <<"]">>
    [] v.type = "obj"  ->
         <<"{">> \o Commas([i \in 1 .. Len(v.items) |->
                      StrText(v.keys[i]) \o <<":">> \o Encode(v.items[i])]) \o <<"}">>

-----------------------------------------------------------------------------
(* Parsing: what is read, and the position after it.  The parser is lenient: *)
(* it takes a comma, a colon or a closing mark when there is one and goes on *)
(* when there is none.                                                       *)

At(t, p) == IF p <= Len(t) THEN t[p] ELSE "NUL"

RECURSIVE Skip(_, _)
Skip(t, p) == IF At(t, p) \in {"SP", "NL", "CR", "TAB"} THEN Skip(t, p + 1) ELSE p

Unescaped(e) ==
  CASE e = "n" -> "NL" [] e = "t" -> "TAB" [] e = "r" -> "CR"
    [] e = "b" -> "BS" [] e = "f" -> "FF"  [] OTHER -> e

(* jparse_str, from the character after the opening quote; \uXXXX is left *)
(* out: its four digits are characters of the string here.               *)
RECURSIVE ParseChars(_, _, _)
ParseChars(t, p, out) ==
  CASE At(t, p) = "NUL" -> [v |-> out, p |-> p]
    [] At(t, p) = "\""  -> [v |-> out, p |-> p + 1]
    [] At(t, p) = "\\"  -> ParseChars(t, p + 2, Append(out, Unescaped(At(t, p + 1))))
    [] OTHER            -> ParseChars(t, p + 1, Append(out, At(t, p)))

(* A number goes through a double, even without a point. *)
Rounded(n) == IF n <= DoubleMax \/ n % 2 = 0 THEN n ELSE 4 * ((n + 1) \div 4)

Number(c) == LET k == NumeralOf[c]
             IN IF k.point THEN JDbl(k.tenths) ELSE JInt(Rounded(k.tenths \div 10))

RECURSIVE ParseVal(_, _), ParseItems(_, _, _), ParseFields(_, _, _)

(* jparse_val *)
ParseVal(t, p0) ==
  LET p == Skip(t, p0)
      c == At(t, p)
  IN CASE c = "{" -> IF At(t, Skip(t, p + 1)) = "}"
                       THEN [v |-> JObj(<<>>, <<>>), p |-> Skip(t, p + 1) + 1]
                       ELSE ParseFields(t, p + 1, JObj(<<>>, <<>>))
       [] c = "[" -> IF At(t, Skip(t, p + 1)) = "]"
                       THEN [v |-> JArr(<<>>), p |-> Skip(t, p + 1) + 1]
                       ELSE ParseItems(t, p + 1, <<>>)
       [] c = "\"" -> LET r == ParseChars(t, p + 1, <<>>) IN [v |-> JStr(r.v), p |-> r.p]
       [] c = "true"  -> [v |-> JBool(TRUE), p |-> p + 1]
       [] c = "false" -> [v |-> JBool(FALSE), p |-> p + 1]
       [] c = "null"  -> [v |-> JNull, p |-> p + 1]
       [] c \in DOMAIN NumeralOf -> [v |-> Number(c), p |-> p + 1]
       [] OTHER       -> [v |-> JInt(0), p |-> p]

ParseItems(t, p, items) ==
  LET r  == ParseVal(t, p)
      p2 == Skip(t, r.p)
      v  == Append(items, r.v)
  IN CASE At(t, p2) = "," -> ParseItems(t, p2 + 1, v)
       [] At(t, p2) = "]" -> [v |-> JArr(v), p |-> p2 + 1]
       [] OTHER           -> [v |-> JArr(v), p |-> p2]

(* A key that comes twice is there twice. *)
ParseFields(t, p, o) ==
  LET key == ParseChars(t, Skip(t, p) + 1, <<>>)
      p2  == Skip(t, key.p)
      r   == ParseVal(t, IF At(t, p2) = ":" THEN p2 + 1 ELSE p2)
      p3  == Skip(t, r.p)
      o2  == JObj(Append(o.keys, key.v), Append(o.items, r.v))
  IN CASE At(t, p3) = "," -> ParseFields(t, p3 + 1, o2)
       [] At(t, p3) = "}" -> [v |-> o2, p |-> p3 + 1]
       [] OTHER           -> [v |-> o2, p |-> p3]

Parse(t) == ParseVal(t, 1).v

-----------------------------------------------------------------------------
(* BSON: a document is the sequence of its elements, an array one whose    *)
(* keys are the indices.                                                   *)

BsonType == [null |-> 10, dbl |-> 1, str |-> 2, obj |-> 3, arr |-> 4, bool |-> 8, int |-> 18]

RECURSIVE BsonDoc(_)

(* bson_elem *)
BsonElem(key, v) ==
  [key |-> key, type |-> BsonType[v.type],
   val |-> CASE v.type = "dbl"  -> v.d [] v.type = "str" -> v.s
             [] v.type = "bool" -> v.b [] v.type = "int" -> v.i
             [] v.type \in {"obj", "arr"} -> BsonDoc(v)
             [] OTHER -> <<>>]

(* bson_doc *)
BsonDoc(v) ==
  [i \in 1 .. Len(v.items) |-> BsonElem(IF v.type = "arr" THEN i ELSE v.keys[i], v.items[i])]

RECURSIVE BsonDecode(_, _)

(* decode_elem: an ObjectId becomes its digits, a date its milliseconds, *)
(* null (and what the driver does not know) the empty string.            *)
DecodeVal(e) ==
  CASE e.type = 1  -> JDbl(e.val)
    [] e.type = 2  -> JStr(e.val)
    [] e.type = 3  -> BsonDecode(e.val, FALSE)
    [] e.type = 4  -> BsonDecode(e.val, TRUE)
    [] e.type = 7  -> JStr(e.val)
    [] e.type = 8  -> JBool(e.val)
    [] e.type \in {9, 16, 18} -> JInt(e.val)
    [] OTHER -> JStr(<<>>)

(* bson_decode: the elements go through vader_json_set and vader_json_add. *)
BsonDecode(doc, asArr) ==
  IF asArr THEN JArr([i \in 1 .. Len(doc) |-> DecodeVal(doc[i])])
           ELSE FoldLeft(LAMBDA o, e : ObjSet(o, e.key, DecodeVal(e)), JObj(<<>>, <<>>), doc)

=============================================================================
