-------------------------------- MODULE Json --------------------------------
(***************************************************************************)
(* JsonParser (FrameWork/JsonParser/Json.h): a recursive-descent parser    *)
(* that trusts its input.  A text is a sequence of symbols, the iterator   *)
(* it a position in it, Len(t) + 1 the end.  Positions only grow, and the  *)
(* code that would read or step past the end is undefined; here it leaves  *)
(* a position beyond the end, so Defined tells it from the final position. *)
(*                                                                         *)
(* The code prints nothing: Text, the texts of a value, is the reference   *)
(* the parser is compared with.                                            *)
(***************************************************************************)
EXTENDS Naturals, SequencesExt

CONSTANTS
    Values,     \* bound: the values whose texts are parsed
    Gaps        \* bound: what stands between the symbols of a text

VARIABLES
    value,      \* what the text says
    text,
    cut,        \* how much of the text the parser is given
    parsed      \* final position and object; <<>> before the call

vars == <<value, text, cut, parsed>>

Quote == "\""
Backslash == "\\"
Digits == {"0", "1"}
Blanks == {" ", "\t", "\n"}
True == <<"t", "r", "u", "e">>
False == <<"f", "a", "l", "s", "e">>
NullData == <<"n", "u", "l", "l">>

\* JsonObject(_type)
JsonObject(type) == [type |-> type, data |-> <<>>, arrayData |-> <<>>, atributes |-> <<>>]
Simple(type, data) == [JsonObject(type) EXCEPT !.data = data]
ArrayOf(items) == [JsonObject("Array") EXCEPT !.arrayData = items]
ObjectOf(fields) == [JsonObject("Object") EXCEPT !.atributes = fields]

-----------------------------------------------------------------------------
(* The reference: how JSON writes a value, without blanks in front.  A     *)
(* quote and a backslash in a string have a backslash before them.         *)
RECURSIVE Text(_, _)
Text(v, gap) ==
    LET List(parts) == gap \o FlattenSeq([i \in DOMAIN parts |->
            IF i = 1 THEN parts[i] ELSE gap \o <<",">> \o gap \o parts[i]]) \o gap
        keys == SetToSeq(DOMAIN v.atributes)
        Escaped(c) == IF c \in {Quote, Backslash} THEN <<Backslash, c>> ELSE <<c>>
        Quoted(s) == <<Quote>> \o FlattenSeq([i \in DOMAIN s |-> Escaped(s[i])])
                         \o <<Quote>>
    IN CASE v.type = "String" -> Quoted(v.data)
         [] v.type = "Array" ->
              <<"[">> \o List([i \in DOMAIN v.arrayData |-> Text(v.arrayData[i], gap)])
                  \o <<"]">>
         [] v.type = "Object" ->
              <<"{">> \o List([i \in DOMAIN keys |->
                             Quoted(keys[i]) \o gap \o <<":">> \o gap
                                 \o Text(v.atributes[keys[i]], gap)]) \o <<"}">>
         [] OTHER -> v.data

-----------------------------------------------------------------------------
(* The parser.                                                             *)

Symbol(t, it) == IF it \in DOMAIN t THEN t[it] ELSE ""

\* the first position from it on whose symbol is not in S; the end if none
PassOver(t, it, S) ==
    IF it > Len(t) THEN it
    ELSE CHOOSE j \in it..Len(t) + 1 : /\ Symbol(t, j) \notin S
                                       /\ \A k \in it..j - 1 : t[k] \in S

\* mutant: tabs are not skipped
SkipOnlySpaces(t, it) == PassOver(t, it, {" ", "\n"})
MoveToNextSymbol(t, it) == PassOver(t, it, Blanks)

\* mutant: the end of the text closes a string
ReadStringToEnd(t, it) ==
    LET from == IF Symbol(t, it) = Quote THEN it + 1 ELSE it
        close == PassOver(t, from, ToSet(t) \ {Quote})
    IN [it |-> IF close > Len(t) THEN close ELSE close + 1,
        data |-> SubSeq(t, from, close - 1)]

\* the first symbol is passed over if it is a quote, and so is the last
ReadString(t, it) ==
    LET from == IF Symbol(t, it) = Quote THEN it + 1 ELSE it
        close == PassOver(t, from, ToSet(t) \ {Quote})
    IN [it |-> close + 1, data |-> SubSeq(t, from, close - 1)]

\* getObjectType: what the next symbol announces; "" where nothing is returned
ObjectType(t, it) ==
    LET c == Symbol(t, it)
    IN CASE c = Quote -> "String" [] c = "{" -> "Object" [] c = "[" -> "Array"
         [] c \in {"t", "f"} -> "Boolean" [] c = "n" -> "Null"
         [] c \in Digits -> "Number" [] OTHER -> ""
AfterType(t, it) == IF Symbol(t, it) \in {Quote, "{", "["} THEN it + 1 ELSE it

ParseBoolean(o, t, it) ==
    CASE Symbol(t, it) = "t" -> [it |-> it + 4, o |-> [o EXCEPT !.data = True]]
      [] Symbol(t, it) = "f" -> [it |-> it + 5, o |-> [o EXCEPT !.data = False]]
      [] OTHER -> [it |-> it + 4, o |-> o]

ParseNumber(o, t, it) ==
    LET stop == PassOver(t, it, Digits)
    IN [it |-> stop, o |-> [o EXCEPT !.data = @ \o SubSeq(t, it, stop - 1)]]

RECURSIVE ParseObject(_, _, _), ParseArray(_, _, _), Parse(_, _, _)

\* one field: key, ':' (not looked at), value; a key that is there already
\* has the new value parsed into the old one
ParseObject(o, t, it) ==
    IF it > Len(t) THEN [it |-> it, o |-> o]
    ELSE LET key == ReadString(t, it)
             at == MoveToNextSymbol(t, MoveToNextSymbol(t, key.it) + 1)
             old == IF key.data \in DOMAIN o.atributes THEN o.atributes[key.data]
                    ELSE JsonObject(ObjectType(t, at))
             new == Parse(old, t, AfterType(t, at))
             next == MoveToNextSymbol(t, new.it)
             longer == [o EXCEPT !.atributes =
                 [k \in DOMAIN @ \cup {key.data} |-> IF k = key.data THEN new.o ELSE @[k]]]
         IN IF Symbol(t, next) = ","
            THEN ParseObject(longer, t, MoveToNextSymbol(t, next + 1))
            ELSE [it |-> next + 1, o |-> longer]

ParseArray(o, t, it) ==
    IF it > Len(t) THEN [it |-> it, o |-> o]
    ELSE LET at == MoveToNextSymbol(t, it)
             new == Parse(JsonObject(ObjectType(t, at)), t, AfterType(t, at))
             next == MoveToNextSymbol(t, new.it)
             longer == [o EXCEPT !.arrayData = Append(@, new.o)]
         IN IF Symbol(t, next) = ","
            THEN ParseArray(longer, t, MoveToNextSymbol(t, next + 1))
            ELSE [it |-> next + 1, o |-> longer]

\* JsonObject::parse: blanks are skipped whatever the type
Parse(o, t, from) ==
    LET it == MoveToNextSymbol(t, from)
        r == ReadString(t, it)
    IN CASE o.type = "Object" -> ParseObject(o, t, it)
         [] o.type = "Array" -> ParseArray(o, t, it)
         [] o.type = "String" -> [it |-> r.it, o |-> [o EXCEPT !.data = r.data]]
         [] o.type = "Boolean" -> ParseBoolean(o, t, it)
         [] o.type = "Number" -> ParseNumber(o, t, it)
         [] o.type = "Null" -> [it |-> it + 4, o |-> [o EXCEPT !.data = NullData]]
         [] OTHER -> [it |-> Len(t) + 2, o |-> o]

\* JsonParser::parse
ParseText(t) == Parse(JsonObject(ObjectType(t, 1)), t, AfterType(t, 1))
Defined(r, t) == r.it <= Len(t) + 1

-----------------------------------------------------------------------------
Init ==
    /\ value \in Values
    /\ \E gap \in Gaps : text = Text(value, gap)
    /\ cut \in 0..Len(text)
    /\ parsed = <<>>

ParseGiven ==
    /\ parsed = <<>>
    /\ parsed' = ParseText(SubSeq(text, 1, cut))
    /\ UNCHANGED <<value, text, cut>>

Spec == Init /\ [][ParseGiven]_vars

-----------------------------------------------------------------------------
Done == parsed # <<>>

\* what the parser can read: strings that are not empty, do not begin with a
\* blank (keys may do both) and need no escape, numbers that are digits only,
\* lists and objects that are not empty
NoEscape(s) == ToSet(s) \cap {Quote, Backslash} = {}
RECURSIVE Readable(_)
Readable(v) ==
    CASE v.type = "String" ->
           v.data # <<>> /\ v.data[1] \notin Blanks /\ NoEscape(v.data)
      [] v.type = "Number" -> ToSet(v.data) \subseteq Digits
      [] v.type = "Array" ->
           /\ v.arrayData # <<>>
           /\ \A i \in DOMAIN v.arrayData : Readable(v.arrayData[i])
      [] v.type = "Object" ->
           /\ v.atributes # <<>>
           /\ \A k \in DOMAIN v.atributes : NoEscape(k) /\ Readable(v.atributes[k])
      [] OTHER -> TRUE

\* JSON also allows a carriage return between symbols
Plain == Readable(value) /\ "\r" \notin ToSet(text)

(* Parsing a text gives the value it says and takes the whole text, if it  *)
(* is a plain one: spaces, tabs and newlines between the symbols, and in   *)
(* strings the symbols that mean something outside them, do not matter.    *)
(* No other text is sure to be read as JSON says: an escaped quote ends    *)
(* the string, a carriage return is taken for a symbol, and for a sign or  *)
(* the end of an empty list getObjectType returns nothing.                 *)
ReadsBack == Done /\ cut = Len(text) =>
    (Plain <=> parsed.o = value /\ parsed.it = Len(text) + 1)

InitialPart(o, v) ==
    \/ o = v
    \/ o.type = "Number" /\ v.type = "Number" /\ IsPrefix(o.data, v.data)
    \/ o.type = "Array" /\ v.type = "Array" /\ IsPrefix(o.arrayData, v.arrayData)
    \/ /\ o.type = "Object" /\ v.type = "Object"
       /\ \A k \in DOMAIN o.atributes : /\ k \in DOMAIN v.atributes
                                        /\ o.atributes[k] = v.atributes[k]

(* A plain text that breaks off makes the parser run past its end, or      *)
(* gives an initial part of the value: a number's first digits, a list's   *)
(* first elements, never an element or a field that the whole text does    *)
(* not say.                                                                *)
NothingInvented == Plain /\ Done /\ Defined(parsed, SubSeq(text, 1, cut)) =>
    InitialPart(parsed.o, value)
=============================================================================
