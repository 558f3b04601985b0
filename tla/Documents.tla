------------------------------ MODULE Documents ------------------------------
(***************************************************************************)
(* The documents of std/mongo: what Database leaves open, given by the     *)
(* JSON runtime, and what it makes of them.                                *)
(***************************************************************************)
EXTENDS Database, Json

(* The argument of vader_mongo_insert: a text, parsed; then bson_doc. *)
TextToBson(t) == BsonDoc(Parse(t))

(* An element of a batch: bson_decode. *)
BsonToJson(doc) == BsonDecode(doc, FALSE)

-----------------------------------------------------------------------------
(* The text of a document without its _id. *)
Shown(doc) == Encode(JObj(Tail(doc.keys), Tail(doc.items)))

(* Whether the runtime has the precision for a numeral. *)
Exact(k) == IF k.point THEN k.tenths < PrintLimit ELSE k.tenths <= 10 * DoubleMax

(* What a symbol of a text becomes on its way: null is stored as null and  *)
(* read as "", a number loses the point in front of a fraction that is 0,  *)
(* and beyond the precision any number may come out.                       *)
Becomes(c) ==
  CASE c = "null" -> <<"\"", "\"">>
    [] c \in DOMAIN NumeralOf ->
         LET k == NumeralOf[c]
         IN <<IF ~Exact(k) THEN "any" ELSE Written([k EXCEPT !.point = @ /\ k.tenths % 10 # 0])>>
    [] OTHER -> <<c>>

ComesFrom(shown, text) ==
  LET expected == FlattenSeq([i \in 1 .. Len(text) |-> Becomes(text[i])])
  IN /\ Len(shown) = Len(expected)
     /\ \A i \in 1 .. Len(shown) : expected[i] \in {shown[i], "any"}

(* Documents survive the way from JSON text into a collection and back:    *)
(* what find returns is, encoded, a text that was inserted, symbol for     *)
(* symbol but for null and for the point of a whole number.                *)
DocumentsIntact ==
  kind = "mongo" /\ op = "find" =>
     \A i \in 1 .. Len(rows) : \E t \in posted : ComesFrom(Shown(rows[i]), t)
=============================================================================
