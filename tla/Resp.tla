-------------------------------- MODULE Resp --------------------------------
(***************************************************************************)
(* The tester's RESP2 values, their encoding and their decoding            *)
(* (redis-tester/internal/resp).  A connection carries a sequence of       *)
(* symbols: the marks + - : $ * CR LF, numerals, and opaque bytes.  A      *)
(* numeral stands for its characters, and the length of a text counts      *)
(* symbols, so that a bulk string is read by its length, not by its end.   *)
(***************************************************************************)
EXTENDS Integers, Sequences, SequencesExt, FiniteSetsExt, TLC

CONSTANTS
  Symbols,   \* what a connection carries
  MaxInt,    \* the largest number an int holds
  Spelled,   \* the other ways to write a number that Atoi takes: +3, 03, -0
  MaxDepth   \* how deep values nest at most: 1 for a value that is no array

CRLF == <<"CR", "LF">>

\* Of a value's fields only the one its type calls for is set.
Value(type, text, elems) == [type |-> type, text |-> text, elems |-> elems]
Simple(text)  == Value("+", text, <<>>)
Error(text)   == Value("-", text, <<>>)
Integer(n)    == Value(":", <<ToString(n)>>, <<>>)
Bulk(text)    == Value("$", text, <<>>)
Array(values) == Value("*", <<>>, values)
Nil           == Value("nil", <<>>, <<>>)
NilArray      == Value("nilarray", <<>>, <<>>)
RDBFile       == Value("rdb", <<"REDIS", "EOF">>, <<>>)

\* The array of bulk strings a command is sent as.
Command(words) == Array([i \in DOMAIN words |-> Bulk(<<words[i]>>)])

\* strconv.Atoi: a number that overflows an int is none.
Ints     == -MaxInt - 1 .. MaxInt
Numerals == {ToString(n) : n \in Ints}
Number   == [s \in Numerals \cup DOMAIN Spelled |->
               IF s \in Numerals THEN CHOOSE n \in Ints : ToString(n) = s ELSE Spelled[s]]
IsNumber(text) == Len(text) = 1 /\ text[1] \in DOMAIN Number
Atoi(text)     == Number[text[1]]

ASSUME RespAssumption ==
  /\ MaxDepth \in Nat \ {0} /\ MaxInt \in Nat \ {0}
  /\ {"+", "-", ":", "$", "*", "CR", "LF"} \subseteq Symbols /\ Numerals \subseteq Symbols
  /\ DOMAIN Spelled \subseteq Symbols /\ \A s \in DOMAIN Spelled : Spelled[s] \in Ints

\* Different numbers are written differently.
ASSUME NumeralsAssumption ==
  \A m, n \in Ints : ToString(m) = ToString(n) => m = n

\* The values that nest up to d deep; no length overflows an int.
Types == {"+", "-", ":", "$", "*", "nil", "nilarray", "rdb"}
ValuesTo[d \in 0 .. MaxDepth] ==
  IF d = 0 THEN {}
  ELSE {v \in [type : Types, text : Seq(Symbols), elems : Seq(ValuesTo[d - 1])] :
          /\ v.type \in {"$", "rdb"} => Len(v.text) <= MaxInt
          /\ v.type = "*" => Len(v.elems) <= MaxInt}
Values == ValuesTo[MaxDepth]

\* encode.go, given the encodings of the elements.  It encodes no integer:
\* encodeInteger reads the number off v.String(), which is empty, and panics.
Encoded(v, elements) ==
  CASE v.type \in {"+", "-"} -> <<v.type>> \o v.text \o CRLF
    [] v.type = "$"        -> <<"$", ToString(Len(v.text))>> \o CRLF \o v.text \o CRLF
    [] v.type = "*"        -> <<"*", ToString(Len(v.elems))>> \o CRLF \o FlattenSeq(elements)
    [] v.type = "nil"      -> <<"$", ToString(-1)>> \o CRLF
    [] v.type = "nilarray" -> <<"*", ToString(-1)>> \o CRLF
    [] v.type = "rdb"      -> <<"$", ToString(Len(v.text))>> \o CRLF \o v.text

\* What a program writes: the same, and an integer with a ":%d" of its own.
WrittenOf(v, elements) ==
  IF v.type = ":" THEN <<":">> \o v.text \o CRLF ELSE Encoded(v, elements)
WrittenTo[d \in 0 .. MaxDepth] ==
  IF d = 0 THEN <<>>
  ELSE [v \in ValuesTo[d] |->
          WrittenOf(v, [i \in DOMAIN v.elems |-> WrittenTo[d - 1][v.elems[i]]])]

\* Nothing else is ever written so.
Written(v) == IF v \in Values THEN WrittenTo[MaxDepth][v] ELSE <<>>

WrittenAll(values) == FlattenSeq([i \in DOMAIN values |-> Written(values[i])])

-----------------------------------------------------------------------------
(* Decoding.  A decoder reads s from position i on: it returns a value and *)
(* the position after it, or finds the input incomplete, or invalid.       *)

Decoded(value, next) == [res |-> "value", value |-> value, next |-> next]
Incomplete == [res |-> "incomplete", value |-> Nil, next |-> 0]
Invalid    == [res |-> "invalid", value |-> Nil, next |-> 0]

\* readUntilCRLF: where the line that starts at i ends, 0 if it does not yet.
LineEnd(s, i) ==
  IF \E j \in i .. Len(s) - 1 : SubSeq(s, j, j + 1) = CRLF
  THEN CHOOSE j \in i .. Len(s) - 1 :
         /\ SubSeq(s, j, j + 1) = CRLF
         /\ \A h \in i .. j - 1 : SubSeq(s, h, h + 1) # CRLF
  ELSE 0
Line(s, i) == SubSeq(s, i, LineEnd(s, i) - 1)

\* decodeSimpleString, decodeError.
DecodeText(type, s, i) ==
  IF LineEnd(s, i) = 0 THEN Incomplete
  ELSE Decoded(Value(type, Line(s, i), <<>>), LineEnd(s, i) + 2)

DecodeInteger(s, i) ==
  CASE LineEnd(s, i) = 0 -> Incomplete
    [] LineEnd(s, i) # 0 /\ ~IsNumber(Line(s, i)) -> Invalid
    [] OTHER -> Decoded(Integer(Atoi(Line(s, i))), LineEnd(s, i) + 2)

\* readCRLF and what precedes it: the value counts once its CRLF is there.
Closed(value, s, i) ==
  LET end == SubSeq(s, i, Min({i + 1, Len(s)}))
  IN  CASE end = CRLF -> Decoded(value, i + 2)
        [] end # CRLF /\ IsPrefix(end, CRLF) -> Incomplete
        [] OTHER -> Invalid

\* Wrong: takes the text up to the next CRLF and ignores the length.
DecodeBulkLine(s, i) ==
  LET start == LineEnd(s, i) + 2 IN
  CASE LineEnd(s, i) = 0 -> Incomplete
    [] LineEnd(s, i) # 0 /\ ~IsNumber(Line(s, i)) -> Invalid
    [] OTHER ->
         CASE Atoi(Line(s, i)) = -1 -> Decoded(Nil, start)
           [] Atoi(Line(s, i)) < -1 -> Invalid
           [] OTHER -> DecodeText("$", s, start)

\* decodeBulkStringOrNil.
DecodeBulk(s, i) ==
  LET start == LineEnd(s, i) + 2
      length == Atoi(Line(s, i))
  IN  CASE LineEnd(s, i) = 0 -> Incomplete
        [] LineEnd(s, i) # 0 /\ ~IsNumber(Line(s, i)) -> Invalid
        [] OTHER ->
             CASE length = -1 -> Decoded(Nil, start)
               [] length < -1 -> Invalid
               [] length >= 0 /\ Len(s) < start + length - 1 -> Incomplete
               [] OTHER -> Closed(Bulk(SubSeq(s, start, start + length - 1)), s, start + length)

\* decodeArray's loop: r holds the elements read so far, and the decoder "at"
\* reads one more.  (What is used more than once is bound by a set, not a LET,
\* so that TLC evaluates it once under ENABLED too.)
WithElement(r, d) ==
  IF d.res = "value" THEN Decoded(Array(Append(r.value.elems, d.value)), d.next) ELSE d
ReadElement(r, at) ==
  IF r.res = "value" THEN CHOOSE x \in {WithElement(r, d) : d \in {at[r.next]}} : TRUE ELSE r
ElementsRead(start, length, at) ==
  LET Of[n \in 0 .. length] ==
        IF n = 0 THEN Decoded(Array(<<>>), start)
        ELSE CHOOSE x \in {ReadElement(r, at) : r \in {Of[n - 1]}} : TRUE
  IN  Of
DecodeElements(start, length, at) == ElementsRead(start, length, at)[length]

DecodeArray(s, i, at) ==
  LET start == LineEnd(s, i) + 2
      length == Atoi(Line(s, i))
  IN  CASE LineEnd(s, i) = 0 -> Incomplete
        [] LineEnd(s, i) # 0 /\ ~IsNumber(Line(s, i)) -> Invalid
        [] OTHER ->
             CASE length = -1 -> Decoded(NilArray, start)
               [] length < -1 -> Invalid
               [] OTHER -> DecodeElements(start, length, at)

\* doDecodeValue, whose elements the decoder "at" reads.
DecodeAt(s, i, at) ==
  CASE i > Len(s) -> Incomplete
    [] i <= Len(s) /\ s[i] \in {"+", "-"} -> DecodeText(s[i], s, i + 1)
    [] i <= Len(s) /\ s[i] = ":" -> DecodeInteger(s, i + 1)
    [] i <= Len(s) /\ s[i] = "$" -> DecodeBulk(s, i + 1)
    [] i <= Len(s) /\ s[i] = "*" -> DecodeArray(s, i + 1, at)
    [] OTHER -> Invalid

\* The decoders, by the depth they go down to.
Decoders(s) ==
  LET To[d \in 0 .. MaxDepth] ==
        IF d = 0 THEN [i \in 1 .. Len(s) + 1 |-> Invalid]
        ELSE [i \in 1 .. Len(s) + 1 |-> DecodeAt(s, i, To[d - 1])]
  IN  To
Decode(s) == Decoders(s)[MaxDepth][1]

\* An RDB file is a bulk string that no CRLF ends.
DecodeFullResyncRDBFile(s) ==
  LET start == LineEnd(s, 2) + 2
      length == Atoi(Line(s, 2))
  IN  CASE s = <<>> -> Incomplete
        [] s # <<>> /\ s[1] # "$" -> Invalid
        [] s # <<>> /\ s[1] = "$" /\ LineEnd(s, 2) = 0 -> Incomplete
        [] OTHER ->
             CASE ~IsNumber(Line(s, 2)) -> Invalid
               [] IsNumber(Line(s, 2)) /\ length < 1 -> Invalid
               [] IsNumber(Line(s, 2)) /\ length >= 1 /\ Len(s) < start + length - 1 -> Incomplete
               [] OTHER -> Decoded(Value("rdb", SubSeq(s, start, start + length - 1), <<>>),
                                   start + length)

-----------------------------------------------------------------------------
(* What a value may be read from: at each place the symbols that may stand *)
(* there.  A text is read as it is, a number however Atoi lets it be       *)
(* written.                                                                *)

Only(text) == [i \in DOMAIN text |-> {text[i]}]
Spellings(n) == {s \in DOMAIN Number : Number[s] = n}
Counted(mark, n) == <<{mark}, Spellings(n), {"CR"}, {"LF"}>>

FormOf(v, forms) ==
  CASE v.type \in {"+", "-"} -> Only(<<v.type>> \o v.text \o CRLF)
    [] v.type = ":"        -> Counted(":", Atoi(v.text))
    [] v.type = "$"        -> Counted("$", Len(v.text)) \o Only(v.text \o CRLF)
    [] v.type = "*"        -> Counted("*", Len(v.elems)) \o FlattenSeq(forms)
    [] v.type = "nil"      -> Counted("$", -1)
    [] v.type = "nilarray" -> Counted("*", -1)
    [] v.type = "rdb"      -> Counted("$", Len(v.text)) \o Only(v.text)
FormTo[d \in 0 .. MaxDepth] ==
  IF d = 0 THEN <<>>
  ELSE [v \in ValuesTo[d] |->
          FormOf(v, [i \in DOMAIN v.elems |-> FormTo[d - 1][v.elems[i]]])]
Form(v) == IF v \in Values THEN FormTo[MaxDepth][v] ELSE <<>>
FormAll(values) == FlattenSeq([i \in DOMAIN values |-> Form(values[i])])

Matches(s, form) == Len(s) = Len(form) /\ \A i \in 1 .. Len(s) : s[i] \in form[i]
=============================================================================
