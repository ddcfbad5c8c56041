------------------------------ MODULE Filters ------------------------------
(* Filters: built by a program and printed, or typed by a user, sent as text, *)
(* read by the server and applied to its records, whose refs a path of        *)
(* several names follows.                                                    *)
EXTENDS Zinc, TLC

CONSTANTS
  Databases,   \* records a server may have: functions from ids to dicts
  Ascending,   \* texts of numbers, dates and Bools, smaller ones first
  Alphabetic,  \* texts of refs, in the order of strings
  Paths,       \* the sequences of names that filters follow
  Asked,       \* the conditions that filters are made of
  MaxAsked     \* how many a filter may have

VARIABLES
  recs,        \* the records of the server
  phase,       \* how far the filter has got
  filter,      \* what is asked for
  size,        \* how many conditions it has
  text,        \* what is sent
  got,         \* what the server reads
  rows         \* the records it answers with

vars == <<recs, phase, filter, size, text, got, rows>>

-----------------------------------------------------------------------------
(* Paths.                                                                    *)
Joined(names) ==
  FlattenSeq([i \in 1..Len(names) |-> (IF i = 1 THEN <<>> ELSE <<"-", ">">>) \o names[i]])

\* The next dash of a path behind its first s symbols, 0 when there is none.
Dash(path, s) ==
  LET i == SelectInSeq(Drop(path, s), LAMBDA c : c = "-") IN IF i = 0 THEN 0 ELSE s + i - 1

\* Path::make gives substr the position of the dash where it takes a length:
\* the first and the last name come out right, those between run on.
RECURSIVE NamesFrom(_, _)
NamesFrom(path, s) ==
  LET dash == Dash(path, s)
  IN  IF dash = 0 THEN <<Drop(path, s)>>
      ELSE <<SubSeq(path, s + 1, Min({s + dash, Len(path)}))>> \o NamesFrom(path, dash + 2)

PathNames(path) == NamesFrom(path, 0)

-----------------------------------------------------------------------------
(* Filters: conditions on a path, joined by and and or.                      *)
Leaf(op, path, val) == [type |-> "leaf", op |-> op, path |-> path, val |-> val]
Has(path) == Leaf("has", path, Empty)
Missing(path) == Leaf("missing", path, Empty)
Compound(op, a, b) == [type |-> "compound", op |-> op, a |-> a, b |-> b]
Comparisons == {"==", "!=", "<", "<=", ">", ">="}
Symbols == ("==" :> <<"=", "=">>) @@ ("!=" :> <<"!", "=">>) @@ ("<" :> <<"<">>)
           @@ ("<=" :> <<"<", "=">>) @@ (">" :> <<">">>) @@ (">=" :> <<">", "=">>)

\* Faulty: no parentheses.
RECURSIVE FilterTextFlat(_)
FilterTextFlat(f) ==
  CASE f.type = "compound" ->
         FilterTextFlat(f.a) \o <<" ", f.op, " ">> \o FilterTextFlat(f.b)
    [] f.op = "has" -> f.path
    [] f.op = "missing" -> <<"not">> \o f.path
    [] OTHER -> f.path \o Symbols[f.op] \o ToZinc(f.val)

\* Filter::str
RECURSIVE FilterText(_)
FilterText(f) ==
  LET Operand(g) == IF g.type = "compound" THEN <<"(">> \o FilterText(g) \o <<")">>
                    ELSE FilterText(g)
  IN  CASE f.type = "compound" -> Operand(f.a) \o <<" ", f.op, " ">> \o Operand(f.b)
        [] f.op = "has" -> f.path
        [] f.op = "missing" -> <<"not">> \o f.path
        [] OTHER -> f.path \o Symbols[f.op] \o ToZinc(f.val)

-----------------------------------------------------------------------------
(* The reader.                                                               *)
\* What follows when r was read; a failure goes on as it is.
Then(r, More(_)) == IF r.out = "ok" THEN More(r) ELSE r

\* read_filter_path.  One of the two characters of an arrow is enough for it
\* to go on, so a path of several names is not to be followed by " >".
RECURSIVE PathRest(_, _)
PathRest(t, path) ==
  LET name == Name(Drop(t, 2))
  IN  CASE ~(Cur(t) = "-" \/ Peek(t) = ">") -> Got(path, t)
        [] name = <<>> -> Raise
        [] OTHER -> PathRest(Drop(t, 2 + Len(name)), path \o <<"-", ">">> \o name)

ReadPath(t) ==
  LET name == Name(t)
      rest == Drop(t, Len(name))
  IN  CASE name = <<>> -> Raise
        [] Cur(rest) = "-" /\ Peek(rest) = ">" -> PathRest(rest, name)
        [] OTHER -> Got(name, rest)

\* The comparison at the head of t, the longer ones before the shorter ones.
Comparison(t) ==
  LET at == {op \in Comparisons : IsPrefix(Symbols[op], t)}
  IN  CHOOSE op \in at : \A other \in at : Len(Symbols[op]) >= Len(Symbols[other])

\* read_filter_or, read_filter_and, read_filter_parens and read_filter_atomic:
\* level 1 is or, level 2 and, level 3 a condition or a parenthesis.
RECURSIVE ReadLevel(_, _)

\* What may follow the first operand of a level.
ReadSecond(first, t, level) ==
  LET keyword == IF level = 1 THEN "or" ELSE "and"
      Both(second) == Got(Compound(keyword, first, second.val), second.rest)
  IN  CASE Cur(t) # keyword -> Got(first, t)
        [] Name(t) # <<keyword>> -> Raise
        [] OTHER -> Then(ReadLevel(SkipSpace(Drop(t, 1)), level), Both)

\* What may follow a path: the name that not is about, or a value to compare.
ReadCondition(path, t) ==
  LET NotThere(missing) == Got(Missing(missing.val), missing.rest)
      op == Comparison(t)
      Compared(val) == Got(Leaf(op, path, val.val), val.rest)
  IN  CASE path = <<"not">> -> Then(ReadPath(t), NotThere)
        [] \A c \in Comparisons : ~IsPrefix(Symbols[c], t) -> Got(Has(path), t)
        [] OTHER -> Then(ReadVal(SkipSpace(Drop(t, Len(Symbols[op]))), TRUE), Compared)

ReadLevel(t, level) ==
  LET here == SkipSpace(t)
      First(first) == ReadSecond(first.val, SkipSpace(first.rest), level)
      Closed(inner) == IF Cur(inner.rest) = ")" THEN Got(inner.val, Drop(inner.rest, 1))
                       ELSE Raise
      Condition(path) == ReadCondition(path.val, SkipSpace(path.rest))
  IN  CASE level < 3 -> Then(ReadLevel(t, level + 1), First)
        [] Cur(here) = "(" -> Then(ReadLevel(SkipSpace(Drop(here, 1)), 1), Closed)
        [] OTHER -> Then(ReadPath(here), Condition)

ReadFilter(t) ==
  LET Whole(f) == IF SkipSpace(f.rest) # <<>> THEN Raise ELSE f
  IN  Then(ReadLevel(SkipSpace(t), 1), Whole)

-----------------------------------------------------------------------------
(* Evaluation.                                                               *)
Get(d, n) == IF n \in DOMAIN d THEN d[n] ELSE Empty
Rank(v) ==
  SelectInSeq(IF v.kind = "ref" THEN Alphabetic ELSE Ascending, LAMBDA a : a = v.text)
Longitude(v) == SelectInSeq(Ascending, LAMBDA a : a = v.more)
NaN == <<"NaN">>

\* Faulty: greater is what is not less.
NotLess(v, w) == v.kind = w.kind /\ ~(Rank(v) < Rank(w))

\* The < and > of values.  Units do not count, NaN has no order, nor have
\* markers; a coord is less when its latitude is and its longitude is greater.
Less(v, w) ==
  /\ v.kind = w.kind /\ v.kind # "marker" /\ NaN \notin {v.text, w.text}
  /\ Rank(v) < Rank(w)
  /\ v.kind = "coord" => Longitude(v) > Longitude(w)

Greater(v, w) ==
  /\ v.kind = w.kind /\ v.kind # "marker" /\ NaN \notin {v.text, w.text}
  /\ Rank(v) > Rank(w)
  /\ v.kind = "coord" => Longitude(v) > Longitude(w)

\* do_include of the eight conditions; v is the value of the record.
DoInclude(f, v) ==
  LET sameType == v # Empty /\ v.kind = f.val.kind
  IN  CASE f.op = "has" -> v # Empty
        [] f.op = "missing" -> v = Empty
        [] f.op = "==" -> v # Empty /\ Same(f.val, v)
        [] f.op = "!=" -> v # Empty /\ ~Same(f.val, v)
        [] f.op = "<" -> sameType /\ Less(v, f.val)
        [] f.op = "<=" -> sameType /\ (Same(f.val, v) \/ Less(v, f.val))
        [] f.op = ">" -> sameType /\ Greater(v, f.val)
        [] f.op = ">=" -> sameType /\ (Same(f.val, v) \/ Greater(v, f.val))

\* PathFilter::include: a name that leads to no ref ends the path with nothing;
\* PathImpl::find raises for a ref to no record.
Resolve(names, d) ==
  LET Step(r, name) ==
        CASE r.out # "ok" \/ r.val.kind # "ref" -> [r EXCEPT !.val = Empty]
          [] r.val.text \notin DOMAIN recs -> Raise
          [] OTHER -> Got(Get(recs[r.val.text], name), <<>>)
  IN  FoldLeft(Step, Got(Get(d, names[1]), <<>>), Tail(names))

Verdict(b) == IF b THEN "yes" ELSE "no"

\* Faulty: both operands are always looked at.
RECURSIVE IncludeBoth(_, _)
IncludeBoth(f, d) ==
  LET a == IncludeBoth(f.a, d)
      b == IncludeBoth(f.b, d)
      r == Resolve(PathNames(f.path), d)
  IN  CASE f.type = "leaf" -> IF r.out = "ok" THEN Verdict(DoInclude(f, r.val)) ELSE "raise"
        [] "raise" \in {a, b} -> "raise"
        [] f.op = "and" -> Verdict("no" \notin {a, b})
        [] OTHER -> Verdict("yes" \in {a, b})

\* Filter::include: the second operand is looked at only when it decides.
RECURSIVE Include(_, _)
Include(f, d) ==
  IF f.type = "leaf"
  THEN LET r == Resolve(PathNames(f.path), d)
       IN  IF r.out = "ok" THEN Verdict(DoInclude(f, r.val)) ELSE "raise"
  ELSE LET first == Include(f.a, d)
       IN  IF first = (IF f.op = "and" THEN "yes" ELSE "no") THEN Include(f.b, d) ELSE first

-----------------------------------------------------------------------------
(* What a user types: parentheses only where they are needed, and blanks      *)
(* between any two signs that may have them.                                 *)
RECURSIVE Typed(_, _)
Typed(f, blank) ==
  LET Operand(g) == IF g.type = "compound" /\ g.op = "or" /\ f.op = "and"
                    THEN <<"(">> \o blank \o Typed(g, blank) \o blank \o <<")">>
                    ELSE Typed(g, blank)
  IN  CASE f.type = "compound" -> Operand(f.a) \o <<" ">> \o blank \o <<f.op, " ">> \o Operand(f.b)
        [] f.op = "has" -> f.path
        [] f.op = "missing" -> <<"not", " ">> \o f.path
        [] OTHER -> f.path \o blank \o Symbols[f.op] \o blank \o
                    IF f.val.kind # "bool" THEN ToZinc(f.val)
                    ELSE IF f.val = Bool(TRUE) THEN <<"true">> ELSE <<"false">>

Blanks == {<<>>, <<" ">>, <<" ", "\t">>}

RECURSIVE Leaves(_)
Leaves(f) == IF f.type = "leaf" THEN {f} ELSE Leaves(f.a) \union Leaves(f.b)

\* Literals that a filter reads as values print them; a Bool is printed as T or
\* F and read as true or false, the other kinds are not known to filters.
Literal(v) == v.kind \in {"empty", "num", "str", "ref", "uri", "date", "time"}

\* A Num comes back with the digits that are printed of it.
AsRead(v) ==
  IF v.kind = "num" /\ v.text \notin Unlimited THEN Num(Rounded(v.text), v.more) ELSE v

Init ==
  /\ recs \in Databases
  /\ phase = "ask" /\ filter \in Asked /\ size = 1
  /\ text = <<>> /\ got = filter /\ rows = {}

\* Filter::AND and Filter::OR, with a further condition on either side.
Join(op, condition) ==
  /\ phase = "ask" /\ size < MaxAsked
  /\ filter' \in {Compound(op, filter, condition), Compound(op, condition, filter)}
  /\ size' = size + 1
  /\ UNCHANGED <<recs, phase, text, got, rows>>

Encode ==
  /\ phase = "ask" /\ phase' = "printed" /\ text' = FilterText(filter)
  /\ UNCHANGED <<recs, filter, size, got, rows>>

Type(blank) ==
  /\ phase = "ask" /\ phase' = "typed" /\ text' = Typed(filter, blank)
  /\ \A l \in Leaves(filter) : Literal(l.val) \/ l.val.kind = "bool"
  \* Bound: the numbers a user types have no more digits than are printed.
  /\ \A l \in Leaves(filter) : AsRead(l.val) = l.val
  /\ UNCHANGED <<recs, filter, size, got, rows>>

\* Filter::make, by the program that printed the filter or by on_read_all.
Read ==
  /\ phase \in {"printed", "typed"}
  /\ \E r \in {ReadFilter(text)} :
         IF r.out = "ok" THEN got' = r.val /\ phase' = IF phase = "typed" THEN "read" ELSE "back"
         ELSE got' = got /\ phase' = IF phase = "typed" THEN "unread" ELSE "raised"
  /\ UNCHANGED <<recs, filter, size, text, rows>>

\* Server::on_read_all: one record that raises spoils the answer.
Select ==
  /\ phase = "read"
  /\ IF \E id \in DOMAIN recs : Include(got, recs[id]) = "raise"
     THEN phase' = "refused" /\ rows' = rows
     ELSE phase' = "selected" /\ rows' = {id \in DOMAIN recs : Include(got, recs[id]) = "yes"}
  /\ UNCHANGED <<recs, filter, size, text, got>>

Next ==
  \/ \E op \in {"and", "or"}, condition \in Asked : Join(op, condition)
  \/ Encode
  \/ \E blank \in Blanks : Type(blank)
  \/ Read
  \/ Select

Spec == Init /\ [][Next]_vars

-----------------------------------------------------------------------------
(* What is promised.                                                         *)
\* not is printed without a blank behind it, and so becomes part of the name.
RECURSIVE Printed(_)
Printed(f) ==
  CASE f.type = "compound" -> Compound(f.op, Printed(f.a), Printed(f.b))
    [] f.op = "missing" -> Has(<<"not">> \o f.path)
    [] OTHER -> [f EXCEPT !.val = AsRead(f.val)]

\* A printed filter reads back as the same tree, whatever its nesting: as it
\* was, or with its nots and the digits of its numbers as they are printed.
\* Only one with a literal that filters do not have is not read at all.
PrintsBack ==
  /\ phase = "back" => got \in {filter, Printed(filter)}
  /\ phase = "raised" => \E l \in Leaves(filter) : ~Literal(l.val)

\* What a path means: the names one after the other, each a ref that leads on.
Names(path) == CHOOSE names \in Paths : Joined(names) = path

RECURSIVE Follow(_, _)
Follow(names, d) ==
  LET v == Get(d, names[1])
  IN  CASE Len(names) = 1 -> Got(v, <<>>)
        [] v.kind # "ref" -> Got(Empty, <<>>)
        [] v.text \notin DOMAIN recs -> Raise
        [] OTHER -> Follow(Tail(names), recs[v.text])

\* What a filter means for a record.  A ref that leads nowhere leads to nothing.
RECURSIVE Matches(_, _)
Matches(f, d) ==
  CASE f.type = "leaf" -> DoInclude(f, Follow(Names(f.path), d).val)
    [] f.op = "and" -> Matches(f.a, d) /\ Matches(f.b, d)
    [] OTHER -> Matches(f.a, d) \/ Matches(f.b, d)

\* A ref that leads nowhere has to be followed to tell what a filter means: what
\* stands left of it does not decide.
RECURSIVE LeadsNowhere(_, _)
LeadsNowhere(f, d) ==
  IF f.type = "leaf" THEN Follow(Names(f.path), d).out # "ok"
  ELSE \/ LeadsNowhere(f.a, d)
       \/ Matches(f.a, d) = (f.op = "and") /\ LeadsNowhere(f.b, d)

\* What the server answers to a typed filter, with as few parentheses as
\* precedence allows and any blanks, are the records the user meant: reading,
\* paths of up to two names and evaluation work together.  The whole answer is
\* refused only for a ref that leads nowhere.  Left out: a blank before > behind
\* a path of two names, which may be refused.
SelectsMeant ==
  LET short == \A l \in Leaves(filter) : Len(Names(l.path)) <= 2
      arrow == \E i \in 1..Len(text) - 1 : text[i] = " " /\ text[i + 1] = ">"
      behindPath == \E l \in Leaves(filter) : l.op \in {">", ">="} /\ Len(Names(l.path)) > 1
  IN  /\ phase = "selected" /\ short => rows = {id \in DOMAIN recs : Matches(filter, recs[id])}
      /\ phase = "refused" /\ short => \E id \in DOMAIN recs : LeadsNowhere(filter, recs[id])
      /\ phase = "unread" => arrow /\ behindPath

\* Values that have an order among them: no markers or coords, numbers with
\* one unit and no NaN.
Ordered(v, w) ==
  /\ v.kind = w.kind /\ v.kind \notin {"empty", "marker", "coord"}
  /\ v.kind = "num" => v.more = w.more /\ NaN \notin {v.text, w.text}

\* Among values that have an order a record is below, at or above the literal,
\* one of the three, and <=, >= and != are what they should be beside them.
OrderDecides ==
  \A l \in Leaves(filter), id \in DOMAIN recs : \A n \in DOMAIN recs[id] :
    LET v == recs[id][n]
        Holds(op) == DoInclude(Leaf(op, l.path, l.val), v)
    IN  Ordered(v, l.val) =>
          /\ Cardinality({op \in {"<", "==", ">"} : Holds(op)}) = 1
          /\ Holds("<=") = ~Holds(">") /\ Holds(">=") = ~Holds("<") /\ Holds("!=") = ~Holds("==")
=============================================================================
