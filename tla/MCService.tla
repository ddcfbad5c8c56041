----------------------------- MODULE MCService ------------------------------
(***************************************************************************)
(* Service with the records of two sites.                                  *)
(***************************************************************************)
EXTENDS Service

MCSites == <<"A", "B">>

By(auth, cred, method) ==
    [auth : auth, cred : cred, method : method, zinc : {TRUE},
     wellFormed : {TRUE}, tail : {FALSE}]

(* Requests in order by every route, and some with one thing wrong *)
MCTransports ==
    LET plain == By({FALSE}, {FALSE}, {"GET", "POST"})
        authentic == By({TRUE}, {TRUE}, {"POST"})
    IN plain \cup authentic \cup By({TRUE}, {FALSE}, {"GET"})
       \cup By({FALSE}, {FALSE}, {"PUT"})
       \cup {[t EXCEPT !.wellFormed = FALSE] : t \in plain \cup authentic}
       \cup {[t EXCEPT !.zinc = FALSE] : t \in authentic}
       \cup {[t EXCEPT !.tail = TRUE] : t \in plain \cup authentic}

(* A site, an equip, two points, and an id that no record has *)
CalledIds == {<<"A">>, <<"A", "AHU1">>, <<"B", "AHU2", "ZoneSP">>,
              <<"B", "Meter", "KW">>, <<"Z">>}

CalledFilters == {Tagged("site"), Tagged("point"), Tagged("navNoChildren"),
                  TaggedUnder("equip", "siteRef", <<"B">>), BadFilter}

(* The called ids and the path that no project has *)
SampleIds == CalledIds \cup {Uri}

(* A level, two that are none, and two that the text of the message does not *)
(* reach                                                                     *)
SampleLevels == {1, 0, 18, 21, -1}

MCParameters(op) ==
    {EMPTY} \cup
    CASE op = "nav" -> {OneRow([navId |-> <<"Z">>])}
      [] op = "read" ->
            {OneRow([id |-> id]) : id \in SampleIds}
            \cup {OneRow([filter |-> f]) : f \in {Tagged("site"), BadFilter}}
            \cup {OneRow([filter |-> Tagged("equip"), limit |-> n]) :
                     n \in {1, -1, -2, -(SizeMax + 1)}}
      [] op = "pointWrite" ->
            UNION {{OneRow([id |-> id]), OneRow([id |-> id, level |-> 17])}
                   \cup {OneRow([id |-> id, level |-> level, who |-> who]) :
                            level \in SampleLevels, who \in {"w", ""}} :
                   id \in SampleIds}
      [] op = "hisRead" ->
            UNION {{OneRow([id |-> id]), OneRow([id |-> id, range |-> "today"])} :
                   id \in SampleIds}
      [] op = "invokeAction" ->
            {[EMPTY EXCEPT !.meta = [id |-> id, action |-> "a"]] : id \in SampleIds}
      [] op \in {"", "unknown", "about", "ops", "formats", "hisWrite"} -> {}

MCCalls ==
    {ReadByIdCall(id, checked) : id \in CalledIds, checked \in BOOLEAN}
    \cup {ReadByIdsCall(ids, checked) :
            ids \in SeqOf(CalledIds, 2), checked \in BOOLEAN}
    \cup {ReadAllCall(f, limit) : f \in CalledFilters, limit \in {0, 1, 3, SizeMax}}
    \cup {ReadCall(f, checked) : f \in CalledFilters, checked \in BOOLEAN}
=============================================================================
