------------------------------ MODULE Service -------------------------------
(***************************************************************************)
(* One connection to the server: a request is routed, its parameters are   *)
(* read, the status 200 goes out, the operation runs and its outcome is    *)
(* written.  The requests come from the toolkit's own client, which was    *)
(* made for one base address and one set of credentials, or from anything  *)
(* else that speaks HTTP.  Connections share nothing here: the records are *)
(* constant, and what is shared is in Watches and LazyTables.              *)
(*                                                                         *)
(* Paths below /auth go to the handler that wants credentials, all others  *)
(* to the open one.                                                        *)
(***************************************************************************)
EXTENDS ProjOps

CONSTANTS
    Transports,     \* the ways in which other programs send a request
    Parameters(_),  \* operation -> the grids that they send with it
    Calls           \* the calls that the program using the client makes

ASSUME TransportsAssumption ==
    Transports \subseteq [auth : BOOLEAN, cred : BOOLEAN, method : STRING,
                          zinc : BOOLEAN, wellFormed : BOOLEAN, tail : BOOLEAN]

(* A grid has a sequence of rows.  Of the numbers that a row may have under *)
(* limit, those are sent whose double can be told from its neighbours.      *)
ASSUME ParametersAssumption ==
    \A op \in OpNames : \A g \in Parameters(op) :
        /\ Len(g.rows) \in Nat /\ g.rows = [i \in 1..Len(g.rows) |-> g.rows[i]]
        /\ \A i \in DOMAIN g.rows : HasCell(g.rows[i], "limit") =>
              g.rows[i]["limit"] \in -(SizeMax + 1)..SizeMax

(* The limits that arrive as they were sent: a Num is written with six      *)
(* digits (num.cpp:43), and the largest size_t as -1.                       *)
Limits == {n \in 0..SizeMax : n < 1000000 \/ n = SizeMax}

(* A call passes the parameters its method has; the others are dummies. *)
ASSUME CallsAssumption ==
    /\ Calls \subseteq [m : {"read_by_id", "read_by_ids", "read_all", "read"},
                        ids : Seq(Seq(STRING)),
                        filter : [tag : STRING, via : STRING, to : Seq(STRING)],
                        limit : Limits, checked : BOOLEAN]
    /\ \A c \in Calls : c.m = "read_by_id" => Len(c.ids) = 1

VARIABLES
    client,     \* [auth, cred]: base address and credentials of the client
    opened,     \* whether Client::open has succeeded
    phase,      \* how far the request has come, "down" if the process ended
    call,       \* the client's call that the request is for, or NoCall
    req,        \* the request: its transport, its operation and its grid
    res,        \* the response: its status, 0 for none, and its body
    effect,     \* what the request has done to the project
    found       \* <<node, child>> for the children that nav has answered

vars == <<client, opened, phase, call, req, res, effect, found>>

NoCall == [m |-> "none"]
OpenCall == [m |-> "open"]

Request(transport, op, grid) == [by |-> transport, op |-> op, grid |-> grid]
GetRoot(cl) == Request([auth |-> cl.auth, cred |-> cl.cred, method |-> "GET",
                        zinc |-> TRUE, wellFormed |-> TRUE, tail |-> FALSE],
                       "", EMPTY)
Post(cl, grid) == Request([auth |-> cl.auth, cred |-> cl.cred, method |-> "POST",
                           zinc |-> TRUE, wellFormed |-> TRUE, tail |-> FALSE],
                          "read", grid)

(* Bodies: nothing, a text or page, the grid of an outcome, an error grid *)
Empty == [kind |-> "empty", rows |-> <<>>]
Text == [kind |-> "text", rows |-> <<>>]
ErrGrid == [kind |-> "err", rows |-> <<>>]
GridBody(rows) == [kind |-> "grid", rows |-> rows]
NoResponse == [status |-> 0, body |-> Empty]

Init == /\ client \in [auth : BOOLEAN, cred : BOOLEAN]
        /\ opened = FALSE
        /\ phase = "idle"
        /\ call = NoCall
        /\ req = GetRoot(client)
        /\ res = NoResponse
        /\ effect = "none"
        /\ found = {}
-----------------------------------------------------------------------------
(* Sending *)

Send(c, r) == /\ phase = "idle"
              /\ phase' = "route"
              /\ call' = c
              /\ req' = r
              /\ UNCHANGED <<client, opened, res, effect, found>>

(* Client::open, which asks for the root of its base address *)
Open == ~opened /\ Send(OpenCall, GetRoot(client))

ClientCall == opened /\ found = {} /\ \E c \in Calls : Send(c, Post(client, RequestGrid(c)))

(* Other programs send whatever parameters they like, and ask nav for the   *)
(* children of what it has shown them.                                      *)
Shown == {p[2] : p \in found}

Asked(op) == Parameters(op) \cup
             (IF op = "nav" THEN {OneRow([navId |-> id]) : id \in Shown} ELSE {})

(* A query has one row at most and no meta. *)
Fits(t, g) == t.method = "GET" => Len(g.rows) <= 1 /\ g.meta = NoCells

(* Only nav follows up on what was shown: the others come before it.        *)
OtherRequest ==
    \E t \in Transports, op \in OpNames \cup {"", "unknown"} :
        /\ op = "nav" \/ found = {}
        /\ \E g \in Asked(op) : Fits(t, g) /\ Send(NoCall, Request(t, op, g))
-----------------------------------------------------------------------------
(* Serving *)

Answer(status, body) == /\ res' = [status |-> status, body |-> body]
                        /\ phase' = "answered"
                        /\ UNCHANGED <<client, opened, call, req, effect, found>>

Proceed(next) == /\ phase' = next
                 /\ UNCHANGED <<client, opened, call, req, res, effect, found>>

(* The open handler cuts the name of the operation with the slash behind it, *)
(* so that nothing has the name when something follows.                      *)
Known == req.op \in OpNames /\ (req.by.auth \/ ~req.by.tail)

(* HaystackRequestHandler and AuthRequestHandler *)
Route ==
    /\ phase = "route"
    /\ \/ req.by.auth /\ ~req.by.cred /\ Answer(401, Text)
       \/ /\ req.by.auth => req.by.cred
          /\ \/ req.op = "" /\ Answer(302, Empty)
             \/ req.op # "" /\ ~Known /\ Answer(404, Text)
             \/ Known /\ Proceed("parse")

(* An exception that leaves the handler before anything is sent: the auth    *)
(* handler reports it, the open one drops the connection.                    *)
FailBeforeSend == IF req.by.auth THEN Answer(500, Text) ELSE Answer(0, Empty)

(* The status goes out before the operation runs. *)
SendStatus == /\ res' = [status |-> 200, body |-> Empty]
              /\ phase' = "serve"
              /\ UNCHANGED <<client, opened, call, req, effect, found>>

(* Values that are not Zinc count as strings, but the name of a parameter    *)
(* has to be that of a tag.                                                  *)
GetToGrid == /\ phase = "parse" /\ req.by.method = "GET"
             /\ IF req.by.wellFormed THEN SendStatus ELSE FailBeforeSend

PostToGrid == /\ phase = "parse" /\ req.by.method = "POST"
              /\ IF ~req.by.zinc THEN Answer(406, Empty)
                 ELSE IF req.by.wellFormed THEN SendStatus ELSE FailBeforeSend

(* Returns without sending: the client waits until the connection ends. *)
OtherMethod == /\ phase = "parse" /\ req.by.method \notin {"GET", "POST"}
               /\ Answer(0, Empty)

Finish(outcome, body) == /\ res' = [status |-> res.status, body |-> body]
                         /\ effect' = outcome.effect
                         /\ phase' = "answered"
                         /\ UNCHANGED <<client, opened, call, req, found>>

(* The process ends, and nobody is told of what it did. *)
GoDown(outcome) == /\ effect' = outcome.effect
                   /\ phase' = "down"
                   /\ UNCHANGED <<client, opened, call, req, res, found>>

(* Faulty variant: no exception is caught. *)
ServeUncaught ==
    /\ phase = "serve"
    /\ \E outcome \in Outcomes(req.op, req.grid) :
          \/ outcome.kind = "grid" /\ Finish(outcome, GridBody(outcome.rows))
          \/ outcome.kind \in {"error", "exception"} /\ Finish(outcome, Empty)
          \/ outcome.kind = "end" /\ GoDown(outcome)

(* Only a runtime_error becomes an error grid; any other exception leaves    *)
(* the answer that has begun without a body.                                 *)
Serve ==
    /\ phase = "serve"
    /\ \E outcome \in Outcomes(req.op, req.grid) :
          \/ outcome.kind = "grid" /\ Finish(outcome, GridBody(outcome.rows))
          \/ outcome.kind = "error" /\ Finish(outcome, ErrGrid)
          \/ outcome.kind = "exception" /\ Finish(outcome, Empty)
          \/ outcome.kind = "end" /\ GoDown(outcome)
-----------------------------------------------------------------------------
(* Receiving *)

Accepted == res.status \in {200, 302}

(* What Client::call returns or raises for the response *)
Received == IF Accepted /\ res.body.kind = "grid" THEN Rows(res.body.rows) ELSE Raised

ChildrenShown == IF req.op = "nav" /\ res.body.kind = "grid"
                 THEN {<<NavId(req.grid), child>> : child \in ToSet(res.body.rows)}
                 ELSE {}

Receive == /\ phase = "answered"
           /\ opened' = (opened \/ (call = OpenCall /\ Accepted))
           /\ found' = found \cup ChildrenShown
           /\ phase' = "idle"
           /\ call' = NoCall
           /\ req' = GetRoot(client)
           /\ res' = NoResponse
           /\ effect' = "none"
           /\ UNCHANGED client

Next == \/ Open \/ ClientCall \/ OtherRequest
        \/ Route \/ GetToGrid \/ PostToGrid \/ OtherMethod \/ Serve
        \/ Receive

Spec == Init /\ [][Next]_vars
-----------------------------------------------------------------------------
(* Properties *)

Answered == phase = "answered"

(* Calls whose answer the code gives otherwise than the interface has it:   *)
(* proj.hpp:47 "If not found then return null", where the client raises,    *)
(* and proj.hpp:62 "each id not found has a row where every cell is null",  *)
(* where both raise; and a list without ids, which the server refuses as a  *)
(* request without rows.                                                    *)
Unsettled(c) ==
    \/ c.m = "read_by_id" /\ ~c.checked /\ c.ids[1] \notin Ids
    \/ c.m = "read_by_ids" /\ (c.ids = <<>> \/ ~(ToSet(c.ids) \subseteq Ids))

(* Server and client implement one interface, Proj: once it is open, a call *)
(* on the client gives what the same call gives on the server, whatever the *)
(* base address.  Of a call that is not settled it is only said that the    *)
(* client gives no record that was not asked for.                           *)
WireAgrees ==
    Answered /\ call \in Calls =>
        LET result == OnClient(call, Received)
        IN \/ result = OnServer(call)
           \/ Unsettled(call) /\ ToSet(result.rows) \subseteq ToSet(call.ids) \cup {NoId}

(* The request has a filter that does not read. *)
AsksBadFilter(g) ==
    g.rows # <<>> /\ HasCell(g.rows[1], "filter") /\ g.rows[1]["filter"] = BadFilter

(* The point may be written, or the level is beyond the text of a message. *)
ReadsBeyond(g) ==
    g.rows # <<>> /\ \/ Has(ValToId(g.rows[1]["id"]), "writable")
                     \/ HasCell(g.rows[1], "level") /\ g.rows[1]["level"] \notin 0..20

(* Whoever sends a request learns how it ended, by a status or an error     *)
(* grid.  A 200 without a body comes of an unknown id in a read by ids, of  *)
(* a filter that is none, or of about without a host name; no response comes *)
(* of a request to the open handler that cannot be read, or of a method that *)
(* is neither GET nor POST; and the process ends only in a pointWrite that  *)
(* reads beyond one of the two literals.                                    *)
ErrorsAreTold ==
    /\ Answered =>
        /\ res.status = 200 /\ res.body = Empty =>
              \/ req.op = "about"
              \/ /\ req.op = "read"
                 /\ AsksBadFilter(req.grid) \/ ~(ToSet(ReadIds(req.grid.rows)) \subseteq Ids)
        /\ res.status = 0 =>
              \/ ~req.by.auth /\ ~req.by.wellFormed
              \/ req.by.method \notin {"GET", "POST"}
    /\ phase = "down" => req.op = "pointWrite" /\ ReadsBeyond(req.grid)

(* All or nothing: a request that has written a point or run an action is   *)
(* answered with a grid, so that an error answer means nothing was done.    *)
RefusedChangesNothing ==
    Answered /\ effect # "none" => res.status = 200 /\ res.body.kind = "grid"

(* A read by filter answers with matching records, in the order of the map, *)
(* and leaves records out only when it has as many as were asked for.       *)
EnoughRows ==
    Answered /\ req.op = "read" /\ res.body.kind = "grid" =>
        LET row == req.grid.rows[1]
            rows == res.body.rows
        IN HasCell(row, "filter") =>
              /\ IsPrefix(rows, Matches(row["filter"]))
              /\ rows = Matches(row["filter"]) \/ Len(rows) >= Limit(row)

(* Navigation shows a tree: no record is a child of two nodes, and going on *)
(* from the root until nothing new is shown finds every record.             *)
NavIsTree ==
    phase = "idle" =>
    /\ \A p, q \in found : p[2] = q[2] => p[1] = q[1]
    /\ (\A node \in Shown \cup {Root} : ToSet(OnNav(node).rows) \subseteq Shown)
          => Shown = Ids
=============================================================================
