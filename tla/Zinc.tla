-------------------------------- MODULE Zinc --------------------------------
(* The scalars of the library, what they print as in Zinc, and the part of   *)
(* the Zinc reader that reads scalars and tags.                              *)
(*                                                                           *)
(* A text is a sequence of symbols.  A symbol is one character that means    *)
(* something to the reader, or a run of characters that the reader takes in  *)
(* one go: a word, a group of digits, the name of a city.  Words that stand  *)
(* next to one another are one name, as they are for the reader.             *)
EXTENDS Naturals, Sequences, FiniteSets, SequencesExt, Selection

CONSTANT Words   \* the lower case words that texts are made of

Keyword == {"ver", "not", "and", "or", "true", "false", "e"}
Lower == Words \union Keyword
Upper == {"N", "M", "R", "T", "F", "Z", "C", "Bin", "NaN", "INF"}
OneDigit == {"0", "2", "3", "5"}
TwoDigits == {"00", "02", "05", "10", "11", "23"}
Zeros == "0000000000000"   \* the thirteen decimals that %.13e prints of a whole number
Digits == OneDigit \union TwoDigits \union {"005", "2010", Zeros}
Zones == {"UTC", "New_York", "GMT"}

Tick == "backtick"   \* the quote of a Uri
Signs == {"\"", "\\", "\n", "\r", "\t", " ", ",", ":", "-", "+", ".", "_", "%", "/", "$",
          "(", ")", "@", "~", "<", ">", "=", "!", Tick}

\* A word is no other symbol, and none is what the reader sees behind the text.
ASSUME WordsAssumption ==
  /\ Words \subseteq STRING
  /\ Words \intersect (Upper \union Digits \union Zones \union Signs \union {"eof"}) = {}

\* The character classes of the reader.
IdStart == Lower
Alpha == Lower \union Upper
Id == Alpha \union Digits \union {"_"}
UnitChar == Alpha \union {"%", "_", "/", "$"}
TzChar == Id \union Zones \union {"-", "+"}
RefChar == Id \union {":", "-", ".", "~"}

-----------------------------------------------------------------------------
(* Values.  text is the content, more what some kinds have beside it: the    *)
(* unit of a Num, the display string of a Ref, the longitude of a Coord, the *)
(* zone and the printed offset of a DateTime.                                *)
Value(kind, text, more) == [kind |-> kind, text |-> text, more |-> more]
Empty == Value("empty", <<>>, <<>>)
Marker == Value("marker", <<>>, <<>>)
Bool(b) == Value("bool", IF b THEN <<"T">> ELSE <<"F">>, <<>>)
Num(text, unit) == Value("num", text, unit)
Str(text) == Value("str", text, <<>>)
Ref(text, dis) == Value("ref", text, dis)
Uri(text) == Value("uri", text, <<>>)
Bin(text) == Value("bin", text, <<>>)
Coord(lat, lng) == Value("coord", <<lat>>, <<lng>>)
Date(y, m, d) == Value("date", <<y, m, d>>, <<>>)
Time(h, m, s, ms) == Value("time", <<h, m, s, ms>>, <<>>)
DateTime(date, time, zone, offset) ==
  Value("datetime", date.text \o time.text, zone \o <<offset>>)

\* The == of values: two refs to one record are the same whatever they are
\* displayed as.
Same(v, w) ==
  IF v.kind = "ref" THEN w.kind = "ref" /\ v.text = w.text ELSE v = w

\* The offset TimeZone(name) takes from a name: what follows GMT in it.
ZoneOffset(zone) == IF zone = <<"GMT", "+", "2">> THEN "+2" ELSE "0"

\* Coord keeps whole millionths: a product with 1000000 that falls below the
\* next whole number is cut off.
Millionths(degrees) == IF degrees = "1.001" THEN "1.000999" ELSE degrees
Degrees == {"0.0", "37.5", "1.001", "1.000999"}

Control == {"ctl", "\n", "\r", "\t"}   \* characters below the blank

\* What the constructors take.  A group of digits in a number is one symbol.
IsText(s) == s \in Seq(STRING) /\ "eof" \notin Range(s)
Unlimited == {<<"NaN">>, <<"INF">>, <<"-", "INF">>}

\* What sprintf prints of a double: six digits of what is above 1 or below -1,
\* with an exponent from a million on; six of what is 0.001 at least; thirteen
\* decimals and an exponent of the rest.
Signed == {<<>>, <<"-">>}
Leading == OneDigit \ {"0"}
Decimals == {"2", "3", "5", "02", "05", "11", "23"}
Fractions == {<<>>} \union {<<".", f>> : f \in Decimals}
NumberText(sign, d, fraction, exponent) == sign \o <<d>> \o fraction \o exponent
Ordinary ==
  {NumberText(sign, d, f, <<>>) :
     sign \in Signed, d \in Leading \union {"10", "11", "23", "2010"}, f \in Fractions}
Large ==
  {NumberText(sign, d, f, <<"e", "+", x>>) :
     sign \in Signed, d \in Leading, f \in Fractions, x \in {"10", "11", "23"}}
BelowOne == {NumberText(<<>>, "0", <<".", f>>, <<>>) : f \in Decimals \union {"005"}}
Small ==
  {NumberText(sign, d, <<".", Zeros>>, <<"e", "-", x>>) :
     sign \in Signed, d \in Leading, x \in {"05", "10", "11", "23"}}
Numerals == Ordinary \union Large \union BelowOne \union Small
Zero == NumberText(<<>>, "0", <<".", Zeros>>, <<"e", "+", "00">>)

\* A double is the numeral that is printed for it, or a little above or below
\* that number: digits beyond those that are printed.
Beyond == {"above", "below"}
NumTexts == Numerals \union {Zero} \union {Append(n, b) : n \in Numerals, b \in Beyond}
Rounded(t) == IF t[Len(t)] \in Beyond THEN Front(t) ELSE t
DateTexts == {"2010"} \X TwoDigits \X TwoDigits
TimeTexts == TwoDigits \X TwoDigits \X TwoDigits \X {"000", "005"}
ZoneNames == {<<"UTC">>, <<"New_York">>, <<"GMT">>, <<"GMT", "+", "2">>}
Offsets == {"0", "+2", "-5"}

IsValue(v) ==
  /\ v = Value(v.kind, v.text, v.more)
  /\ \/ v \in {Empty, Marker, Bool(TRUE), Bool(FALSE)}
     \/ v.kind = "num" /\ v.text \in NumTexts \union Unlimited /\ v.more \in Seq(UnitChar)
     \/ v.kind = "str" /\ IsText(v.text) /\ v.more = <<>>
     \/ v.kind = "ref" /\ v.text \in Seq(RefChar) /\ IsText(v.more)
     \/ v.kind = "uri" /\ IsText(v.text) /\ v.more = <<>>
     \/ v.kind = "bin" /\ IsText(v.text) /\ "/" \in Range(v.text) /\ v.more = <<>>
     \/ v.kind = "coord" /\ \E lat, lng \in Degrees : v = Coord(lat, lng)
     \/ v.kind = "date" /\ v.text \in DateTexts /\ v.more = <<>>
     \/ v.kind = "time" /\ v.text \in TimeTexts /\ v.more = <<>>
     \/ /\ v.kind = "datetime" 
        /\ \E date \in DateTexts, time \in TimeTexts : v.text = date \o time
        /\ \E zone \in ZoneNames, offset \in Offsets : v.more = zone \o <<offset>>

-----------------------------------------------------------------------------
\* Str::to_zinc escapes quotes, backslashes and control characters.
Escaped(c) ==
  IF c = "\n" THEN <<"\\", "n">>
  ELSE IF c = "\r" THEN <<"\\", "r">>
  ELSE IF c = "\t" THEN <<"\\", "t">>
  ELSE IF c \in {"\"", "\\"} THEN <<"\\", c>>
  ELSE IF c = "ctl" THEN <<"\\", "u", "ctl">>
  ELSE <<c>>

Quoted(s) == <<"\"">> \o FlattenSeq([i \in 1..Len(s) |-> Escaped(s[i])]) \o <<"\"">>

UriText(s) ==
  <<Tick>> \o FlattenSeq([i \in 1..Len(s) |->
      IF s[i] = Tick THEN <<"\\", Tick>> ELSE <<s[i]>>]) \o <<Tick>>

NumText(v) == IF v.text \in Unlimited THEN v.text ELSE Rounded(v.text) \o v.more
RefText(v) ==
  <<"@">> \o v.text \o IF v.more = <<>> THEN <<>> ELSE <<" ">> \o Quoted(v.more)
BinText(v) == <<"Bin", "(">> \o v.text \o <<")">>
CoordText(v) == <<"C", "(">> \o v.text \o <<",">> \o v.more \o <<")">>
DateText(t) == <<t[1], "-", t[2], "-", t[3]>>
TimeText(t) ==
  <<t[1], ":", t[2], ":", t[3]>> \o IF t[4] = "000" THEN <<>> ELSE <<".", t[4]>>

OffsetText(offset) ==
  CASE offset = "0" -> <<"Z">>
    [] offset = "+2" -> <<"+", "02", ":", "00">>
    [] offset = "-5" -> <<"-", "05", ":", "00">>

Zone(v) == SubSeq(v.more, 1, Len(v.more) - 1)
Offset(v) == v.more[Len(v.more)]
DateTimeText(v) ==
  DateText(v.text) \o <<"T">> \o TimeText(SubSeq(v.text, 4, 7)) \o OffsetText(Offset(v)) \o <<" ">> \o Zone(v)

\* to_zinc raises for what a Uri or a Bin cannot hold.
UriWritable(v) == Range(v.text) \intersect Control = {}
BinWritable(v) == ")" \notin Range(v.text)
Writable(v) ==
  /\ v.kind = "uri" => UriWritable(v)
  /\ v.kind = "bin" => BinWritable(v)

ToZinc(v) ==
  CASE v.kind = "empty" -> <<>>
    [] v.kind = "marker" -> <<"M">>
    [] v.kind = "bool" -> v.text
    [] v.kind = "num" -> NumText(v)
    [] v.kind = "str" -> Quoted(v.text)
    [] v.kind = "ref" -> RefText(v)
    [] v.kind = "uri" -> UriText(v.text)
    [] v.kind = "bin" -> BinText(v)
    [] v.kind = "coord" -> CoordText(v)
    [] v.kind = "date" -> DateText(v.text)
    [] v.kind = "time" -> TimeText(v.text)
    [] v.kind = "datetime" -> DateTimeText(v)

-----------------------------------------------------------------------------
(* The reader.  Every operator takes the text from the current character on  *)
(* and gives what it read and the text behind it, or how it failed: "raise"  *)
(* for an exception, "crash" for a null pointer that is followed.            *)
Got(v, rest) == [out |-> "ok", val |-> v, rest |-> rest]
Fail(how) == [out |-> how, val |-> Empty, rest |-> <<>>]
Raise == Fail("raise")

Cur(t) == IF t = <<>> THEN "eof" ELSE t[1]
Peek(t) == IF Len(t) < 2 THEN "eof" ELSE t[2]
Drop(t, n) == SubSeq(t, n + 1, Len(t))

\* The length of the longest run of symbols of a class at the head of t.
Run(t, Class) == Min({n \in 0..Len(t) : n = Len(t) \/ t[n + 1] \notin Class})

SkipSpace(t) == Drop(t, Run(t, {" ", "\t"}))

\* read_id: the name at the head of t, empty where the code raises.
Name(t) == IF Cur(t) \in IdStart THEN SubSeq(t, 1, Run(t, Id)) ELSE <<>>

-----------------------------------------------------------------------------
(* Literals in quotes, from behind the opening one: a loop that takes a      *)
(* character or an escape sequence at a time.                                *)
Taken(r, s, n) == [out |-> "more", val |-> r.val \o s, rest |-> Drop(r.rest, n)]

Unescaped(c) == IF c = "n" THEN "\n" ELSE IF c = "r" THEN "\r" ELSE IF c = "t" THEN "\t" ELSE c

\* read_esc_char
EscapedChar(r) ==
  IF Peek(r.rest) \in {"n", "r", "t", "\"", "$", "\\"} THEN Taken(r, <<Unescaped(Peek(r.rest))>>, 2)
  ELSE IF Peek(r.rest) = "u" /\ Cur(Drop(r.rest, 2)) = "ctl" THEN Taken(r, <<"ctl">>, 3)
  ELSE Raise

\* The loop of read_uri_val.  A character escaped that has a meaning in a URI
\* keeps its backslash.
UriEscape(r) ==
  IF Peek(r.rest) \in {":", "/", "?", "#", "[", "]", "@", "\\", "&", "=", ";"}
  THEN Taken(r, SubSeq(r.rest, 1, 2), 2)
  ELSE IF Peek(r.rest) = Tick THEN Taken(r, <<Tick>>, 2)
  ELSE IF Peek(r.rest) = "u" THEN EscapedChar(r)
  ELSE Raise

\* One turn of either loop.
Turn(r, quote) ==
  IF r.out # "more" THEN r
  ELSE IF Cur(r.rest) \in {"eof", "\n", "\r"} THEN Raise
  ELSE IF Cur(r.rest) = quote THEN Got(r.val, Drop(r.rest, 1))
  ELSE IF Cur(r.rest) # "\\" THEN Taken(r, <<Cur(r.rest)>>, 1)
  ELSE IF quote = Tick THEN UriEscape(r)
  ELSE EscapedChar(r)

Turns(t, quote, n) ==
  LET after[k \in 0..n] ==
        IF k = 0 THEN [out |-> "more", val |-> <<>>, rest |-> t] ELSE Turn(after[k - 1], quote)
  IN  after[n]

\* A turn takes a character at least.
Unquoted(t, quote) == Turns(t, quote, Len(t) + 1)

StrVal(t) ==
  LET str == Unquoted(t, "\"") IN IF str.out = "ok" THEN Got(Str(str.val), str.rest) ELSE str
UriVal(t) ==
  LET uri == Unquoted(t, Tick) IN IF uri.out = "ok" THEN Got(Uri(uri.val), uri.rest) ELSE uri

\* A Ref with the display string that may stand behind its id.
RefWithDis(id, t) ==
  LET dis == Unquoted(Drop(t, 1), "\"")
  IN  IF Cur(t) # "\"" THEN Got(Ref(id, <<>>), t)
      ELSE IF dis.out = "ok" THEN Got(Ref(id, dis.val), dis.rest)
      ELSE dis

RefVal(t) ==
  LET n == Run(t, RefChar)
  IN  IF t = <<>> THEN Raise ELSE RefWithDis(SubSeq(t, 1, n), SkipSpace(Drop(t, n)))

-----------------------------------------------------------------------------
(* Words.                                                                    *)

\* What read_bin_val and read_coord_val read: up to the closing parenthesis.
Content(t) ==
  LET text == Drop(t, 1)
      n == Run(text, Range(text) \ {")", "\n", "\r"})
  IN  IF t = <<>> \/ Cur(Drop(text, n)) # ")" THEN Raise
      ELSE Got(SubSeq(text, 1, n), Drop(text, n + 1))

BinVal(t) ==
  LET bin == Content(t)
  IN  IF bin.out = "ok" /\ "/" \in Range(bin.val) THEN Got(Bin(bin.val), bin.rest) ELSE Raise

CoordVal(t) ==
  LET in == Content(t)
  IN  IF /\ in.out = "ok" /\ Len(in.val) = 3 /\ in.val[2] = ","
         /\ {in.val[1], in.val[3]} \subseteq Degrees
      THEN Got(Coord(Millionths(in.val[1]), Millionths(in.val[3])), in.rest)
      ELSE Raise

\* The values that words stand for in a filter and elsewhere.
FilterWord(w, rest) ==
  IF w \in {<<"true">>, <<"false">>} THEN Got(Bool(w = <<"true">>), rest)
  ELSE IF w \in Unlimited THEN Got(Num(w, <<>>), rest)
  ELSE Raise

Word(w, rest) ==
  IF w = <<"N">> THEN Got(Empty, rest)
  ELSE IF w = <<"M">> THEN Got(Marker, rest)
  ELSE IF w = <<"R">> THEN Got(Str(<<"_remove_">>), rest)
  ELSE IF w \in {<<"T">>, <<"F">>} THEN Got(Bool(w = <<"T">>), rest)
  ELSE IF w = <<"Bin">> THEN BinVal(rest)
  ELSE IF w = <<"C">> THEN CoordVal(rest)
  ELSE IF w \in Unlimited THEN Got(Num(w, <<>>), rest)
  ELSE Raise

WordVal(t, filter) ==
  LET n == 1 + Run(Drop(t, 1), Alpha)
  IN  IF filter THEN FilterWord(SubSeq(t, 1, n), Drop(t, n)) ELSE Word(SubSeq(t, 1, n), Drop(t, n))

-----------------------------------------------------------------------------
(* Numbers, dates and times.                                                 *)

\* The numeric part of read_num_val.  An exponent is looked for only behind a
\* character that the loop has taken: never behind a lone digit.
InLoop(t, i) ==
  /\ t[i] \in Digits \union {".", "_"}
  /\ t[i] \in OneDigit => i > 1 /\ t[i - 1] # "e"

Goes(t, i) ==
  \/ t[i] \in Digits \union {".", "_"}
  \/ t[i] = "e" /\ InLoop(t, i - 1) /\ Peek(Drop(t, i - 1)) \in Digits \union {"+", "-"}
  \/ t[i] \in {"+", "-"} /\ i > 2 /\ t[i - 1] = "e"

Numeral(t) ==
  LET n == Min({i \in 1..Len(t) : i = Len(t) \/ ~Goes(t, i + 1)})
  IN  [val |-> Selected(t, {i \in 1..n : t[i] # "_"}), rest |-> Drop(t, n)]

\* read_two_digits, a separator behind them.
TwoDigitsThen(t, sep) == Cur(t) \in TwoDigits /\ Peek(t) = sep

\* The time of day behind an hour: ":mm:ss" and, at times, the milliseconds.
TimeVal(hour, t) ==
  LET hms == <<hour, t[2], t[4]>>
      rest == Drop(t, 4)
  IN  IF ~(Cur(t) = ":" /\ TwoDigitsThen(Drop(t, 1), ":") /\ Cur(Drop(t, 3)) \in TwoDigits) THEN Raise
      ELSE IF Cur(rest) # "." THEN Got(hms \o <<"000">>, rest)
      ELSE IF Peek(rest) = "005" THEN Got(hms \o <<"005">>, Drop(rest, 2))
      ELSE Raise

\* Faulty: where the text ends, the time is one of UTC.
IsUtcOrEnd(t) == Cur(t) \in {"Z", "eof"}
IsUtc(t) == Cur(t) = "Z"

IsOffset(t) ==
  /\ Cur(t) \in {"+", "-"} /\ Peek(t) \in {"02", "05"}
  /\ Cur(Drop(t, 2)) = ":" /\ Cur(Drop(t, 3)) = "00"

\* A DateTime without a time follows a null pointer.
InZone(date, time, zone, rest) ==
  IF time = <<>> THEN Fail("crash")
  ELSE Got(Value("datetime", date \o time, zone \o <<ZoneOffset(zone)>>), rest)

\* The zone behind a time: the offset is read and then left aside, the zone's
\* own offset taken instead.
ZoneVal(date, time, t) ==
  LET utc == IsUtc(t)
      rest == IF utc THEN Drop(t, 1) ELSE Drop(t, 4)
      zone == SubSeq(rest, 2, 1 + Run(Drop(rest, 1), TzChar))
      named == Cur(rest) = " " /\ (utc => Peek(rest) \in Upper \union Zones)
  IN  IF ~utc /\ ~IsOffset(t) THEN Raise
      ELSE IF ~utc /\ Cur(rest) # " " THEN Raise
      ELSE IF ~named THEN InZone(date, time, <<"UTC">>, rest)
      ELSE IF zone = <<>> THEN Raise
      ELSE InZone(date, time, zone, Drop(rest, 1 + Len(zone)))

\* A date from the dash behind the year on, a time with it when a T follows.
DateVal(year, t) ==
  LET date == <<year, t[2], t[4]>>
      rest == Drop(t, 4)
      time == TimeVal(Peek(rest), Drop(rest, 2))
  IN  IF ~(TwoDigitsThen(Drop(t, 1), "-") /\ Cur(Drop(t, 3)) \in TwoDigits) THEN Raise
      ELSE IF Cur(rest) # "T" THEN Got(Value("date", date, <<>>), rest)
      ELSE IF Peek(rest) \notin TwoDigits THEN Raise
      ELSE IF Cur(Drop(rest, 2)) # ":" THEN ZoneVal(date, <<>>, Drop(rest, 2))
      ELSE IF time.out # "ok" THEN time
      ELSE ZoneVal(date, time.val, time.rest)

\* What lexical_cast<double> takes.
IsNumeral(s) ==
  LET digits == IF s[1] = "-" THEN Tail(s) ELSE s
  IN  digits # <<>> /\ digits[1] \in Digits /\ digits[Len(digits)] \in Digits

\* A year, an hour or a number with its unit.
Numbered(n) ==
  LET unit == Run(n.rest, UnitChar)
      time == TimeVal(n.val[1], n.rest)
  IN  IF ~IsNumeral(n.val) THEN Raise
      ELSE IF Cur(n.rest) = "-" THEN
        IF n.val = <<"2010">> THEN DateVal(n.val[1], n.rest) ELSE Raise
      ELSE IF Cur(n.rest) # ":" THEN Got(Num(n.val, SubSeq(n.rest, 1, unit)), Drop(n.rest, unit))
      ELSE IF n.val \notin {<<d>> : d \in TwoDigits} \/ time.out # "ok" THEN Raise
      ELSE Got(Value("time", time.val, <<>>), time.rest)

NumVal(t) == Numbered(Numeral(t))

ReadVal(t, filter) ==
  IF Cur(t) \in Digits THEN NumVal(t)
  ELSE IF Cur(t) \in Alpha THEN WordVal(t, filter)
  ELSE IF Cur(t) = "@" THEN RefVal(Drop(t, 1))
  ELSE IF Cur(t) = "\"" THEN StrVal(Drop(t, 1))
  ELSE IF Cur(t) = Tick THEN UriVal(Drop(t, 1))
  ELSE IF Cur(t) # "-" THEN Raise
  ELSE IF Peek(t) = "INF" THEN WordVal(t, filter) ELSE NumVal(t)
=============================================================================
