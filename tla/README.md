# A verification of haystack-cpp

haystack-cpp is a C++ implementation of Project Haystack: a library of tagged
values, grids, Zinc and filters (`src/src`, `src/include`), a REST server on
Poco's HTTP server (`src/http_server`) and a client (`src/http_client`). This
directory holds TLA+ specifications of it, the TLC configurations that check
them, and theorems that the TLA+ proof system checks. File names below are
relative to the root of the repository; where a file name is unique
its directory is left out.

Contents: [the system](#the-system), [the modules](#the-modules),
[the runs](#the-runs), [the proofs](#the-proofs),
[what the code does otherwise than it says](#what-the-code-does-otherwise-than-it-says),
[what is not modelled](#what-is-not-modelled), [the plan](#the-plan).

## The system

### Components, state and operations

| component | state it keeps | operations that change it |
|---|---|---|
| watch registry, `TestProj` (testproj.cpp, server.cpp) | `m_watches`: id -> `TestWatch`, behind a read/write lock `m_lock` | `watch_open`, `watch`, `watches`, `on_timer` |
| `TestWatch` (testproj.cpp:424-555) | `m_ids`, `m_is_open`, `m_lease`; no lock | `sub`, `unsub`, `poll_changes`, `poll_refresh`, `close` |
| lazily built data (op.cpp, testproj.cpp) | static `m_ops_map`, `m_about`, `ops_grid`, `gv`; no lock | `StdOps::ops_map`, `TestProj::op`, `on_about`, `OpsOp::on_service` |
| request dispatch (op.cpp:35-161, haystack_server.cpp:94-177) | none of its own; the response stream | `Op::on_service`, request handlers, authentication |
| read, nav, point write, history operations (op.cpp, server.cpp, testproj.cpp) | `m_recs`, constant after the constructor; `m_arrays` of point writes | `read`, `readAll`, `nav`, `pointWrite`, `hisRead`, `hisWrite`, `invokeAction` |
| server lifecycle (haystack_server.cpp:296-329) | thread pool, socket queue, the project object | start, stop |
| client (client.cpp) | the connection's settings | `call`, one function per operation |
| dates, times, ranges (date.cpp, time.cpp, datetime.cpp, datetimerange.cpp, timezone.cpp) | immutable, but for the cached `m_millis` of `DateTime` | `inc_days`, `dec_days`, `make`, `millis`, the named ranges |
| dicts, grids, rows, columns (dict.cpp, grid.cpp, row.cpp, col.cpp) | a grid while it is built | `add`, `add_col`, `add_row`, `Grid::make` |
| Zinc reader and writer (zincreader.cpp, zincwriter.cpp) | two characters of lookahead; the grid read so far | `read_grid`, `read_val`, `read_filter`, `write_grid` |
| filters (filter.cpp) | immutable trees | `make`, `str`, `include` |
| values (bool, num, str, ref, uri, bin, marker, coord) | immutable | `to_zinc`, `==`, `<`, `>` |
| history (server.cpp:137-183, testproj.cpp:243-262) | the items while they are made | `his_read`, `on_his_read` |

### How they interact

Up to `maxThreads` (16) Poco worker threads take connections from a queue
(`maxQueued` 100) and run `HaystackRequestHandler`, which finds an `Op` by name
(`TestProj::op`, on the table that the first request builds) and calls
`Op::on_service`. The operation calls back into the one `TestProj` that all
workers share. A `Poco::Timer` thread runs `TestProj::on_timer` once a minute.
So workers and timer share `m_watches`, the `TestWatch` objects inside it and
everything built on first use. Of these only `m_watches` has a lock, and one of
its readers writes it.

Every request and every answer is a grid in Zinc. `Op::on_service` reads the
request with the Zinc reader and writes the answer with the writer; the client
does the reverse. A filter travels as a Str in such a grid, is read by the
filter part of the same reader, and is applied record by record; a path in it
goes through the project's table of records.

### What is hard

* The timer drops its read lock between choosing what to erase and erasing it,
  and then erases without checking that it finds anything.
* `m_is_open` and `m_lease` are read and written one by one by the timer and by
  handlers, in the same order, with nothing that ties the two together.
* `on_watch` inserts into the map under the read lock and leaves a null behind.
* `m_ids` is changed by two kinds of loop that erase while they iterate, and a
  failed `sub` leaves its effects in place.
* Static tables are published before they are filled.
* The calendar has to be stepped over month, year and century, and ranges are
  made from the machine's date for some other zone.
* The status line of an answer goes out before the operation runs.
* A text may hold anything the format itself uses, and may break off anywhere.
* A filter's path follows refs that may lead nowhere, and an operand that raises
  counts only when it is looked at.
* An instant is computed from fields, an offset, the machine's zone and its
  summer time, kept in some copies and computed again in others.

`PROJECT.json` lists these hazards line by line, with the properties that are
about them.

### What makes each component correct

* Registry: what the timer erases is there; what it erases is garbage; all
  garbage is erased some day; a dropped watch stays dropped; nothing a client
  sends ends the process.
* `TestWatch`: `sub` adds, `unsub` removes, `poll` finds what is subscribed and
  renews the lease, `close` gives the watch up.
* Lazy data: what a thread reads is whole; what is left once the threads are
  done is whole; nothing that is still shown is deleted.
* Dates: a step moves by exactly one day over all calendar boundaries, forward
  and back are inverse; ranges tile the time line and hold the current instant.
* Dispatch: whoever sends a request learns how it ended; an error means that
  nothing was done.
* Reads: a read by filter leaves nothing out below its limit, navigation is a
  tree that reaches every record. Client: what it returns is what the server
  returns.
* History: items lie within the range asked for, in order, and the loop ends.
* Grids: a row holds the tags of its record, a column has one place. Zinc:
  reading what was written returns it, and a text that broke off is never taken
  for a different grid.
* Filters: what is printed reads back, and what a user types selects what the
  user meant.

## The modules

| module | models | uses |
|---|---|---|
| `WatchRegistry` | what the registry promises: the life of a watch (abstract) | |
| `Selection` | what a loop over a vector selects | |
| `Subscription` | what the two erasing loops of `TestWatch` do, in closed form | `Selection` |
| `EraseLoop` | one such loop, iteration by iteration on the storage of the vector | `Subscription` |
| `Watches` | `TestProj`'s registry, `TestWatch`, the four watch operations, `on_timer` | `Subscription`, implements `WatchRegistry` |
| `WatchesProofs` | theorems about `Watches`, and that it implements `WatchRegistry` | `Watches`, `OperatorProofs` |
| `LazyTables` | `ops_map`, `TestProj::op`, `on_about`, `OpsOp` | |
| `LazyTablesProofs` | theorems about `LazyTables` | `LazyTables` |
| `Calendar` | `Date`'s leap years, lengths of months and steps by a day; day numbers as reference | |
| `OperatorProofs` | the operators that components share: what the rules of the calendar count, what loops over a vector select and erase, sequences put end to end | `Calendar`, `Subscription` |
| `DayLoop` | `Date::inc_days` and `dec_days` | `Calendar` |
| `DateRange` | the named ranges of `DateTimeRange`, while the clock runs | `Calendar` |
| `SmallProofs` | theorems about `DayLoop`, `DateRange` and `EraseLoop` | those, `OperatorProofs` |
| `Records` | the demo project's records and the filters evaluated on them | `Selection` |
| `ProjOps` | read, nav, pointWrite, hisRead, hisWrite, invokeAction on a request grid; the reading part of `Proj` on both sides | `Records` |
| `HisRead` | the zone of the machine, `DateTime`, the range of a history read and the loop of `on_his_read` | |
| `HisReadProofs` | theorems about `HisRead` | `HisRead` |
| `Zinc` | values, their Zinc text, and the reader's part for values | |
| `Grids` | `Dict`, `Grid`, `Row`, `ZincWriter`, `ZincReader::read_grid`, over a connection that may break | `Zinc` |
| `ZincProofs` | lemmas about `Zinc`: what the reader makes of what the writer prints, kind by kind | `Zinc`, `OperatorProofs` |
| `GridsProofs` | theorems about `Grids` | `Grids`, `ZincProofs` |
| `Filters` | filters built, printed, typed, read and applied to records | `Zinc` |
| `Service` | one connection: routing, parsing, status, operation, answer; the client and other senders | `ProjOps` |
| `ServiceProofs` | theorems about `Service` | `Service`, `OperatorProofs` |
| `MCWatches`, `MCLazyTables`, `MCDateRange`, `MCService`, `MCGrids`, `MCFilters`, `MCHisRead` | the values that the runs give to constants | |

`PROJECT.json` maps each definition to its lines of code. An operator whose
comment begins "Faulty variant" is a wrong form of the definition that follows
it; nothing uses it. Replacing the definition by it must break a property,
which is how we know that the property says something about the code.

### `Watches`

A worker thread is at a program point `pc[p]` with the request `req[p]`; it is
about to perform, or performing, the access of that point. The timer has its
own program point `tpc` and the locals of `on_timer`: the entries still to be
visited (`todo`, any order: a map's iterator and insertions during the scan),
the watch looked at (`at`), the local `lease` (`loaded`) and the local vector
of what to delete (`del`). `m_watches[w]` is "absent", "null" or "watch": the
null is what `m_watches[id]` leaves when the id is not there.

| action | code |
|---|---|
| `Lookup`, `List`, `NewWatch` | the start of WatchSub/Unsub/Poll/List (op.cpp:344-450), up to the registry |
| `OnWatchOpen` | `on_watch_open` under the write lock, and the conversion of the rows |
| `OnWatch` | `on_watch` (testproj.cpp:190) and `Server::watch`'s null check |
| `OnWatches` | `on_watches` and the loop of watchList |
| `SubAssign`, `SubScan`, `SubOpen`, `Renew` | `TestWatch::sub`, split where another thread can see the difference |
| `Unsub`, `Close` | `TestWatch::unsub`, `close` |
| `PollRefresh`, `Renew` | `TestWatch::poll_changes` and `poll_refresh` |
| `TimerFires` ... `TimerErase` | `on_timer`, one action per access to shared state |
| `Race` | two accesses to one container, one of them writing, end the process |

Undefined behaviour is a choice: the accesses happen as if alone or the process
ends (`up = FALSE`); a null or past-the-end dereference ends it. The lock is
modelled by who is inside (`Readers`, `TimerReads`); a write section is one
action, guarded by nobody being inside.

The lease is counted in periods of the timer: 300 s and 60 s become 5 and 1.
Since all leases are multiples of 60 nothing is lost. A lease starts as
`numeric_limits<int>::min()`, of which the code only uses the sign: `MinLease`.

Clients name ids they have been told (`told`) and ids that never existed
(`Strays`). Requests that are refused before they touch shared state are left
out, as is what the answers hold beyond the id.

`Life` is the refinement mapping to `WatchRegistry`: a watch is unborn,
registered, marked (in `del`) or gone. `WatchRegistry` promises that a watch is
registered once, can be marked only after it has held a lease, that a sweep
drops everything marked together, and that nothing dropped comes back.

### `EraseLoop` and `Subscription`

Both loops of `TestWatch` take `end()` once, erase inside and go on with the
same iterator. `EraseLoop` runs this on the storage: erasing moves the rest
down and leaves the last slot. `Subscription` gives the result in closed form:
a position is erased if a victim is there and the one before it was not erased
(`Erased`), and what is left is the selection of the others (`Selected`, of
`Selection`, where a filter applied to all records is the same operator).
`LoopAgrees` says that loop and closed form agree, for any length by
`SmallProofs`, and `Watches` uses the closed form where no other thread can
tell.

### `LazyTables`

Objects are numbered in the order of creation and 0 is null. Each thread is at
a program point of `on_service` -> `op` -> `ops_map`, then of `about` or `ops`;
other operations end at the lookup. `Race` is as above. `HostNameMayFail`
allows `DNS::hostName()` to throw. The table has three operations instead of
those of the code, about first and ops last as there, and about has two tags
instead of six.

### `Calendar`, `DayLoop`, `DateRange`

`Calendar` has the code's rules (`isLeapYear`, the tables, the loop bodies) and,
independent of them, the number of a day with its own leap rule. `DayLoop` runs
the two loops; `DateRange` has one variable clock and the ranges as functions
of its date. An offset is one number of hours per zone, as in timezone.cpp.

### `Records`, `ProjOps`, `Service`

`Service` is one connection. `phase` follows a request: "route" (the factory,
the two handlers and authentication), "parse" (`get_to_grid`, `post_to_grid`),
"serve" (the status 200 is out, the operation runs), "answered". Each connection
is served by itself: the records never change, and what connections share is the
subject of `Watches` and `LazyTables`.

| action | code |
|---|---|
| `Open`, `ClientCall` | `Client::open`, `Client::call` (client.cpp:63-137) |
| `OtherRequest` | any other program: `Transports` are methods, handlers, credentials, content types, malformed parameters, names with something behind |
| `Route` | haystack_server.cpp:94-199 |
| `GetToGrid`, `PostToGrid`, `OtherMethod` | op.cpp:38-54, 116-161 |
| `Serve` | op.cpp:55-81 around the operation |
| `Receive` | the end of `Client::call`; the connection is free again |

`ProjOps` gives each operation its possible `Outcomes`: a grid (of which the ids
of the rows are kept), a `runtime_error` or another exception, and what was done
to the project. It is a set because a host name may not be found, because the
checks of a history read compare instants, which `HisRead` has, and because a
point write reads beyond the end of a literal (`PointWriteArray`, `BadLevel`): it may
find something, and the request goes on, or end the process (`Die`, the phase
"down"). What Poco does with an exception that leaves a handler is external
(`FailBeforeSend`, and in `Serve` the answer that ends without a body).

The same definitions serve to say what a call on the server object returns
(`OnServer`) and what the client makes of a response (`OnClient`), as both are
`Proj`. The `size_t` of a limit is converted as g++ for x86-64 does it. Requests
are well-typed: a cell called "id" holds a ref or a uri. A filter that cannot be
read raises what is no `runtime_error`: `Filter::make` catches and rethrows its
exception by value (filter.cpp:35), which slices it.

### `HisRead`

Times are quarters of an hour since 1970, the step of `on_his_read`. A machine
has a standard offset and a set of instants of summer time. `DEFAULT` is what
currentTZ (timezone.cpp:52) makes of the clock at the start of the process, so a
behaviour chooses when the process `started` and when it is asked (`now`).
`DateTime` has its fields as one number, its zone, the offset, and the instant
it keeps (`m_millis`): `Computed` is what `millis` works out, `Asked` a value
that keeps it, `Copy` the copy constructor, which takes the offset from the zone
and the instant from the original.

| action | code |
|---|---|
| `Request` | `Server::his_read` up to `on_his_read` (server.cpp:137-168), with the checks on the record, and `DateTimeRange::make` |
| `Step` | one round of the loop of `on_his_read` (testproj.cpp:250-259) |
| `Finish` | the end of the loop, and the checks behind it (server.cpp:170-182) |

`DateTime::make` tells milliseconds from seconds by a comparison with the
address of a function (datetime.cpp:26). Which way it goes depends on how the
program is loaded: that is the variable `pie`.

### `Zinc`

A text is a sequence of symbols: a character the reader acts on, or a run of
characters it takes in one go (a word, a pair of digits, the name of a city).
The first half of the module has the values and `ToZinc`, with what each kind
refuses to print (`Writable`); the second half reads a value from the head of a
text and gives the value and the rest, or says how it failed: an exception, or
a null pointer that is dereferenced. A conversion does what the code's does: a
coordinate loses what the product with a million cuts off (`Millionths`), a
number loses what is behind its sixth digit (`Rounded`), and one with an exponent
is printed as it is and may not read back. The loops of
the reader are the length of a run of characters of a class (`Run`), and for
text in quotes one turn after another (`Turn`, `Turns`), a character or an
escape at a time.

`IsValue` says what the constructors take: any text of symbols in a Str, a Uri,
the display string of a Ref and, with a slash in it, a Bin; in a Num any numeral
that is printed, or a number a little above or below it (`Beyond`), with any unit
of characters that a unit is made of; the dates, times, zones and offsets that the
symbols can write.
`ValuesAssumption` asks it of the values that `Grids` is given, and
`OrderAssumption` that names are names of tags.

### `Grids`

| action | code |
|---|---|
| `AddMeta`, `AddCol`, `AddColMeta`, `AddRow` | a program building a grid by hand (grid.cpp) |
| `MakeGrid`, `MakeError` | `Grid::make` from dicts, `Grid::make_err` |
| `Write` | `ZincWriter::grid_to_string` (zincwriter.cpp) |
| `Cut` | the connection ends after some symbol |
| `ReadVer`, `ReadMetaEnd` | `read_ver` and the end of the first line of `ZincReader::read_grid` (zincreader.cpp:41-130) |
| `ReadTag` | one turn of `read_meta`, in the meta of the grid or of a column |
| `ReadCol`, `ReadColEnd` | the name of a column, and the comma or the end of the line behind its meta |
| `ReadCell`, `ReadEnd` | a cell and the comma behind it, or the end of its row; the end of the grid |

`got` is the grid the reader has so far and `cells` the row it is in the middle
of, so that the properties speak of the reader between any two cells. `Made`
adds columns and rows one at a time, as the loops of `Grid::make` do.

### `Filters`

| action | code |
|---|---|
| `Join` | `Filter::AND`, `Filter::OR` (filter.cpp:94-103) |
| `Encode` | `Filter::str` |
| `Type` | a user types the filter, with as few parentheses as precedence allows, and blanks |
| `Read` | `Filter::make` and `ZincReader::read_filter` |
| `Select` | the filtering of `Server::on_read_all` |

`Matches` is the reference, as the documentation of filters has it: paths as
sequences of names, and a path that leads nowhere has no value. `LeadsNowhere`
says which filters have to follow such a path, and may therefore be refused.
`Include` is the code, on the names that `Path::make` cuts out of the text. Numbers
are printed as in Zinc, so what reads back has the digits that were printed
(`AsRead`); typed numbers have no more. Refs are ordered as strings
(`Alphabetic`).

## The runs

All bounds are constants of the .cfg. `CHECK_DEADLOCK FALSE` is set throughout:
a process that has crashed, a loop that has ended and a clock at its bound stop.

| run | checks | bounds and why they are enough |
|---|---|---|
| `watch_core` | `TypeOK`, `EraseFinds`, refinement of `WatchRegistry` | two clients send everything there is about one watch and one stray id while the timer ticks; the properties speak of one watch and at most two threads that interfere with the timer. Workers are symmetric (safety only) |
| `watch_survives` | `OnlyStaleIdsKill` | two well-behaved clients (own watch, no closing, one unknown id per request), two records of which one has no `kind`, any number of ticks |
| `watch_live` | `OpenOutlivesTicks`, `ClosedIsCollected`, `RequestsFinish` and the refinement of `WatchRegistry` under `FairSpec` | two clients and two watches, so that one sweep may erase two; lease 2, so that a lease can be used up or renewed before it is |
| `erase_loop` | `LoopAgrees`, `OneIdIsRemoved` | every vector of up to 5 of 3 ids, every set of victims: runs of three neighbours and a victim in the last slot occur |
| `lazy_tables` | `TypeOK`, `TableSettles`, `AboutAllOrNothing`, `GridIsWhole`, `KeptGridLives` | two threads; each race takes two |
| `day_loop` | `StepsCount`, `ThereAndBack` | every date of 1899, 1900, 2000 and 2016, up to 32 days both ways: every kind of boundary |
| `date_range` | `RangesTile`, `RangesAdvance`, `NowIsInRange` | seven stretches of 25 days, over the ends of years, of months and of February in four kinds of year; a zone five hours from the machine's, so that the days of the two differ for five hours of each |
| `service` | `WireAgrees`, `ErrorsAreTold`, `RefusedChangesNothing`, `EnoughRows`, `NavIsTree` | the records of two of the four sites, as a filter that forgets the site shows with two; ids of each kind of record, an unknown one and a uri; lists of up to two ids; limits below, at and above the number of rows and none, and below zero; levels that are one, that are none, and that lie before and behind the text of the message; every operation over every way of sending. Navigation goes on until all is shown; other requests are sent before it, as they do not depend on it |
| `grids` | `WireKeepsGrid`, `CutIsPrefix`, `NeverCrashes`, `RowsAreRecords`, `ColsByName` | up to two columns and two rows, over values that hold each separator and quote; every value of every kind in a grid of one cell; grids of up to two dicts out of four; the text cut at every symbol. Separators depend on being first, last or alone, which two columns and rows have |
| `filters` | `PrintsBack`, `SelectsMeant`, `OrderDecides` | trees of up to three conditions in every shape, so that each operator stands under each other on either side; eleven conditions over every comparison and paths of up to three names, one with a number of more digits than are printed; two sets of records, of which one has a ref that leads nowhere; three ways of spacing |
| `history` | `InsideRange`, `KeptMillis`, `QuarterHours`, `HistoryEnds` | six machines: on, east and west of Greenwich, half an hour off, with summer time starting or ending in the range; three hours of the day for the start and the request, so that the local day differs from that of UTC; every form of a range, forward, empty and backward |
| `bad_lookup` | `ServerSurvives` | as `watch_core`; TLC ends with the counterexample |

What they show:

* `EraseFinds`: `m_watches.erase(m_watches.find(...))` at testproj.cpp:398 is
  sound, although the lock is given up after marking, because only the timer
  erases and each watch is marked at most once. `RegistrySpec`: the same from
  the outside.
* `OnlyStaleIdsKill`: the unguarded vector and the unchecked `find` of
  `poll_refresh` do no harm to clients that keep to one connection per watch
  and send at most one unknown id; the one remaining way to end the process is
  an id that the registry has dropped. For arbitrary clients it does not hold
  (`bad_lookup`): an unsub for an unknown id, or a poll after a refused sub, is
  enough.
* `OpenOutlivesTicks`: a watch that is open between two ticks, is not closed and is
  polled before its lease runs out is never dropped. (A tick that was under way
  when it was opened may drop it, see below.) What happens to a watch that is
  polled too late is not promised; this code leaves it open.
* `ClosedIsCollected`: with requests coming to an end, a watch that is closed
  and has lease left is collected. `RequestsFinish`: every request is answered,
  and `watch_open` gets its write lock if lookups leave a gap.
* `LoopAgrees`, `OneIdIsRemoved`: the erasing loop is exact for one id and no
  duplicates, and that is all.
* `TableSettles`: the table that remains is whole, however many threads built
  tables over one another. `AboutAllOrNothing`: the about record that remains is
  whole or empty. `GridIsWhole`: the grid of operations is whole when only one
  table was ever made, and `KeptGridLives`: the grid that is kept is not one of
  those that are deleted.
* `StepsCount`, `ThereAndBack`, `RangesTile`, `RangesAdvance`: the calendar.
  `NowIsInRange`: a current range holds now while it is the same day in the zone as
  on the machine. Otherwise it may not, see below.
* `WireAgrees`: an open client gives what the server gives. For three kinds of call
  (`Unsettled`: an unknown id, unchecked or in a list, and a list without ids)
  where the code does not do what `proj.hpp` says, the property only says that the
  client gives no record that was not asked for.
* `ErrorsAreTold`: the only answers without a body are those for unknown ids, for
  a filter that cannot be read, and for about without a host name; the only
  requests without an answer are those to the open handler that cannot be read,
  and methods other than GET and POST; and only a pointWrite that reads beyond a
  literal can end the process (`ReadsBeyond`).
* `RefusedChangesNothing`: an error answer means that no point was written and
  no action run. `EnoughRows`: a limit never leaves out rows below it.
* `NavIsTree`: from the root, navigation reaches every record by one way.
* `WireKeepsGrid`: what the writer prints the reader takes for the same grid,
  whatever mixture of empty cells, short rows, quotes and tags; `Faithful` names
  the values for which it does not hold. `CutIsPrefix`: a text that broke off is
  refused, or read as the same grid without its last rows. `NeverCrashes`: the
  null date and time at zincreader.cpp:422 are never reached with a null by what
  a writer prints, unless a Uri in it has a backslash: the writer does not
  escape it (uri.cpp:44), the reader takes the quote behind it for a part of
  the Uri, and reads on in the middle of what follows.
* `RowsAreRecords`, `ColsByName`: each row of `Grid::make` has the tags of its
  dict, in the order of the columns, and `==` between row and dict says so.
* `PrintsBack`: the parentheses of `Filter::str` are enough for any nesting: what
  reads back is the filter as it was, or with its `not`s and the digits of its
  numbers as they are printed; only literals unknown to filters do not read.
* `SelectsMeant`: reading, paths of up to two names and evaluation together
  select what the user meant, and an answer is refused only if a ref that
  matters leads nowhere. `OrderDecides`: the six comparisons of a filter agree
  with one another on all values that have an order.
* `InsideRange`: on any machine, the items ascend, behind the start and no further
  than the end, so the checks behind the loop never refuse. `KeptMillis`: the
  instant a `DateTime` keeps is the one it would compute. `QuarterHours`: on a
  machine whose clock is plain, every quarter of an hour inside the range is
  answered, and nothing else but, at most, the end. `HistoryEnds`: the loop comes
  to its end everywhere.

### Fairness

`FairSpec` assumes that threads which can run do run: weak fairness of each
handler and of the timer. `OnWatchOpen` has strong fairness: it waits for a
write lock, a pthread rwlock favours readers and so the lock may be free only
now and then; the timer leaves it alone for a minute between two ticks, so
the timer alone cannot keep `watch_open` out. Whether readers can is left open:
`RequestsFinish` promises `watch_open` an answer only if lookups leave gaps for
good. No fairness is assumed of clients; a client may stop at any time.

`FairSpec` of `HisRead` is weak fairness of `Step \/ Finish`: the loop runs in one
handler, waits for nothing, and goes on as long as the handler has a processor.
Requests are not fair.

## The proofs

`tlapm` checks every leaf. The theorems hold for any number of threads, watches,
records, sites and requests, any positive lease, any length of a subscription, any
start date, whatever other programs send with their requests; what a theorem
assumes beyond that it says in its statement. Every invariant of the passing runs
is proved but `NeverCrashes` and those of `Filters`, and so are all action
properties; of the temporal properties the refinement and `OpenOutlivesTicks`.

### Induction over numbers

The library's induction theorems take a predicate as a parameter, which the
provers cannot fill in. `OperatorProofs` therefore has induction for a set of
numbers (`Induction`), by way of the least number outside the set (`WFMin` of
WellFoundedInduction). What a recursive function computes is shown with it in
two lemmas: one that unfolds the definition once, for every argument
(`CollectedSteps`, `IncDaysSteps`), and one that says what one more element or
day adds (`CollectedOneMore`, `IncDaysOneMore`). `Grids` and `Zinc` have their
loops as recursive functions for that reason; the reader of `Filters` recurs
over trees, with RECURSIVE operators, which remain out of reach.

### `OperatorProofs`

For every date:

* `BackUndoesForward`, `ForwardUndoesBack`: the bodies of `dec_days` and
  `inc_days` undo one another.

The lemmas `NextDayCounts` and `PrevDayCounts` say that the steps move to the
next and the previous day number; they split on the day within a month, the end
of a month and the end of a year. The arithmetic of leap years is in `LeapStep`:
the leap days before year `y + 1` are those before year `y` and one if `y` is a
leap year. `IncDaysCount` and `DecDaysCount` take this to any number of steps;
`IncDaysStepFirst` and `DecDaysStepFirst` say that a step may as well be taken
first as last.

For every sequence: `SelectedElements` (a selection has the elements at the
selected places and no other), `CollectedPlaces` (each comes from a place of its
own, in order, so that a selection from distinct elements has distinct
elements), `ErasedPlaces` and `RemainingType` (what the erasing loop erases and
leaves), `OneIdErased` (a single victim in a sequence without duplicates is
erased and all others stay). `FlattenedElements`, `FlattenedOneMore` and
`FlattenedFirst` are about sequences put end to end, from either end.

### `WatchesProofs`

From `LeaseAssumption`, `RequestsAssumption` and `DistinctAssumption`:

* `TypesHold`: `Spec => []StateTypeOK`; `AllTypesHold`: `Spec => []TypeOK`.
* `EraseAlwaysFinds`: `Spec => []EraseFinds`.
* `WatchesImplementRegistry`: `Spec => RegistrySpec`.
* `ConsiderateClientsSurvive`: if all requests are `Considerate`,
  `Spec => []OnlyStaleIdsKill`.
* `OpenWatchesStay`: `Spec => OpenOutlivesTicks`.

`EraseFinds` is not inductive: it says nothing of a timer in the middle of its
scan, and a scan is where `del` grows. The invariant is `Inv == StateTypeOK /\
TimerInv /\ EraseFinds`. `TimerInv` ties the locals of the timer to the
registry: what is marked has been visited, so it is no longer in `todo`; what is
being looked at is in the registry, not in `todo` and not yet in `del`; the
lease about to be stored was positive, so that the store never marks and the
same visit cannot mark a watch twice; `del` is empty while the timer sleeps and
`todo` outside the scan. The proof has one lemma per action or group of actions;
the handlers leave the timer's variables and every "watch" entry alone, the
exceptions being the two that write the registry. `AllTypesHold` adds the type
of the subscriptions, from what `Selection` leaves of a sequence.

For the refinement each action is a step of `WatchRegistry` under the mapping
`Life`, or changes nothing there. `TimerInv` is what the timer's steps need: a
mark is put on a registered watch, and the last erase of a scan drops what was
marked. The handlers need `DrawnInv`, as `Life` tells a watch that is born but
not in the map from one that is gone by whether a worker is inserting it: a uuid
that is registered has been drawn and is not being inserted, the one being
inserted is being inserted by one worker, and a worker past its lookup holds one
that is drawn. Without it an insertion could bring a dropped watch back. All
steps that leave lives alone are covered by one lemma, `LivesKept`.

`OnlyStaleIdsKill` says that nothing else ends the process, so its invariant,
`OwnersInv`, has to exclude every other way. `OwnInv`: a watch is in the hands
of one worker, the one that drew its uuid, which is why no two threads are ever
inside one subscription; a lookup finds a watch of the own client or a stray id.
`IdsInv`: no subscription has duplicates, so that an unsub of one id never
overruns (`OneIdErased`); an unknown id is in one only while the sub that
brought it looks for it, alone and not as the last, so that the scan does not
read past the end and no poll meets it. What `Considerate` demands is what
`IdsInv` cannot do without: each clause of it excludes one of the requests that
the section below lists.

`OpenWatchesStay` is an invariant for each watch from the moment on at which the
timer sleeps and the watch is in the registry: it stays there, unmarked, and the
timer is not about to mark it (`StaysOpen`). A step keeps this if the watch is in
use (`InUse`: open, with lease left), since the second test of `on_timer` marks only
what it has seen closed; that it is in use at every step is the premise of the
property, which names no request. A tick that was under way when the watch was
opened may have passed that test before: that is why the property starts with a
sleeping timer.

### `LazyTablesProofs`

From `OpNamesAssumption` and `OrderAssumption` (the operations are distinct and
"ops" comes last, as in op.cpp:593-607):

* `TypesHold`: `Spec => []TypeOK`.
* `TableAlwaysSettles`: `Spec => []TableSettles`.
* `AboutNeverPartial`: `Spec => []AboutAllOrNothing`.
* `GridAlwaysWhole`: `Spec => []GridIsWhole`.
* `KeptGridAlwaysLives`: `Spec => []KeptGridLives`.

Each of the four properties speaks of threads that are done, or of one table;
the invariant says what holds while they work. `PointsInv`: at each program
point the thread's counter and the object it refers to are good for what comes
next. `TableInv`: a table that is not whole has a worker that has put into it
everything up to its counter, because whoever publishes a table begins with the
first operation. `AboutInv`: the same of a record and its tags. `GridInv`: a
grid not yet kept or deleted belongs to one thread. `OneTableInv`: with one
table there is one worker filling it, in order, so whoever found the last entry
has found all of them.

### `SmallProofs`

Of `DayLoop`, from `YearsAssumption`:

* `StepsAlwaysCount`: `DaySpec => []StepsCount`.
* `AlwaysThereAndBack`: `DaySpec => []ThereAndBack`.

`DayInv` has the types, `DayNumber(start) + days > 0` so that going back never
leaves year 0, and `StepsCount`, which is inductive beside them. `ThereAndBack`
speaks of the end of the loop; its invariant, `WayBack`, says at each step that
as many steps back from `cur` as have been made lead to the start. One more
step forward is undone by the first step back.

Of `DateRange`, from `StartsAssumption` (the clock starts in the year 1 or later) and
`OffsetsAssumption`:

* `RangesAlwaysTile`: `Spec => []RangesTile`.
* `NowAlwaysInRange`: `Spec => []NowIsInRange`.
* `RangesAlwaysAdvance`: `Spec => RangesAdvance`.

The invariant `ClockInv` only says that the clock shows a date and an hour; the
work is in three lemmas about a date. `Spans`: each range is a pair of day
numbers, the previous one ending the day before the current one begins.
`SpansHold`: the date's own number lies between the two. `SpansAdvance`: the next
date has the same pairs, or begins the next one.

Of `EraseLoop`, from `MaxLenAssumption` (any bound):

* `AlwaysAgrees`: `EraseSpec => []LoopAgrees`.
* `AlwaysRemovesOne`: `EraseSpec => []OneIdIsRemoved`.

Both speak of the end of the loop. The invariant, `LoopInv`, says where the
iterator stands among the elements given: erasing moves them down and the
iterator on, so it has passed its own steps and one element more for each erased
one (`Passed`). What is in front of it in the storage is the selection of those
passed (`StorageInv`), and behind the new end the last element stands repeated.
`HitsInv` is about that tail: the iterator can run over the last element more
than once, and erases `end()` exactly if that is a victim and something was
erased before it.

### `ServiceProofs`

For whatever grids other programs send (`Parameters`), with the one limit that a
number in a cell "limit" is a `size_t` or the negative of one. From
`SitesAssumption` (the names of the sites are the keys of a map, so they are
distinct), `SizeMaxAssumption` and `CallsAssumption` (the parameters of the
client's calls have the types that its functions declare, and read by id takes one
id):

* `RefusalsChangeNothing`: `Spec => []RefusedChangesNothing`.
* `ErrorsAlwaysTold`: `Spec => []ErrorsAreTold`.
* `NavAlwaysTree`: `Spec => []NavIsTree`.
* `AlwaysEnoughRows`: `Spec => []EnoughRows`.
* `WireAlwaysAgrees`: `Spec => []WireAgrees`.

For the first two the invariant adds `ProgressInv`: nothing has been done until
the operation has run, and while it runs the status is out and the operation
exists. The work is in lemmas about the operations: `EffectMeansGrid` (one that has an
effect ends with a grid), `ThrowCauses` (which of them throw what `on_service` does
not catch), and `EndCauses` with `WriteOutcomes` (which of them may end the
process: a point write that reads beyond a literal, and no other).

The other three relate an answer to what was asked, and `AllInv` adds what that
takes. `AnswerInv`: a grid that is an answer is one of the outcomes of the
operation on the request. `LimitInv`: the limit of a request can be counted to,
because a `size_t` comes back from the cell that carries it (`SizeSurvives`).
`ClientInv`: an open client has the credentials it needs, so that each of its
calls passes `Route` and parsing and gets the outcome of `read`, whatever else
happened on the connection. `NavInv`: whatever was shown under a node is an edge
of the project. With it `NavIsTree` is a fact about the records for any number of
sites: `RecsShape` says which records there are, `IdDecides` that an id names one
of them (ids of different sites differ in their first name), `OnlyParent` that a
record is selected by the filter of one node, `AllReached` that each lies at most
three steps below the root. `ClipPrefix` is the loop of `on_read_all`: it breaks
off only with one more than the limit.

### `HisReadProofs`

From `MachinesAssumption`, `InstantsAssumption` and `FormsAssumption`:

* `ItemsLieInside`: `Spec => []InsideRange`.
* `InstantsStayTrue`: `Spec => []KeptMillis`.
* `QuartersAnswered`: `Spec => []QuarterHours`.

`InsideRange` is not inductive: it does not say where the loop stands. The
invariant has three parts. `ReadTypeOK`: every timestamp is `Sound`, that is, its
offset is that of its zone, as the last copy left it, and what it keeps is what
it would compute; so `millis` is one formula everywhere (`MillisOfSound`).
`InOrder`: the items ascend strictly inside the range. `LoopStands`: the
timestamp of the loop is the start itself or behind it, and behind every item.
The step rests on `MadeIsNotEarlier`: what `DateTime::make` and `millis` add to
an instant is summer time and the machine's offset once with and once without
its sign, which is never negative, so that each round goes forward. That it
does so only from instants after the epoch, because milliseconds may be taken
for seconds, is why `FormsAssumption` keeps ranges out of the first days of 1970.

`InOrder` says strictly inside, which is more than the property asks: the code
leaves out the end.

`QuarterHours` needs the other half of that formula, `MadeInstant`: on a plain
machine nothing is added. `Quarters` says that every quarter of an hour between
the start and the timestamp of the loop is an item (`Covered`), that the
timestamp has not gone past the end, and that what the loop has made has the
offset of the machine.

### `GridsProofs`

From `OrderAssumption` and `ValuesAssumption`, for any names, values, dicts and
bounds:

* `ColsAlwaysByName`: `Spec => []ColsByName`.
* `RowsAlwaysRecords`: `Spec => []RowsAreRecords`.

`ColsByName` is about two grids. The writer's grows by `WithCol`, guarded by
`CanAddCol`, or is made of dicts at once (`Made`); the reader's takes names from
a text of which nothing is assumed here. `HasCols` is what both keep: columns
are records, with the name of a tag each, and no two have the same.

For `RowsAreRecords` the invariant `Shapes` says of a grid made of dicts that it
is `Made(made)`; the rest is what that is. `WithColsAre`: the columns are the
names that come up, each once. `TagNamesAre`: the tags of a dict come up in
`TagNames`, whatever the order of the map. `WithRecordsAre`: there is a row for
each dict that is not empty, in order (`Full`, by `Selected`), and its cells are
the dict's, in the order of the columns (`CellsOf`). `RowOfRecord` then compares
row and dict as the code's `==` do: two functions that agree are the same dict
if they have as many tags, and the row has one for every column.

* `ValuesReadBack`: for every value that is `IsValue`, `Writable` and
  `Faithful`, and every text that may stand behind a value in a grid (`Ends`),
  the reader takes what the writer prints for that value and has left what
  follows it (`ReadBack`).

The hypotheses are those of `WireKeepsGrid`: `Writable` is what the writer does
not refuse, and what `Faithful` excludes, above all numbers of more digits than are
printed, is in the list below. Each kind has its
lemma in `ZincProofs`.

* `WireAlwaysKeepsGrid`: `Spec => []WireKeepsGrid`.
* `CutAlwaysPrefix`: `Spec => []CutIsPrefix`.

Neither property says anything of a reader in the middle of a text. The invariant
of both, `Wire`, does: `Reading` says for each phase what the reader has made and
what is left of the text. `AtMeta`, `AtCol`, `AtColMeta`, `AtRow` and `AtCell`
name the place: so many tags, columns, rows and cells of the grid that was written
are in `got` and `cells`, and the text is what the writer prints for the others
(`TagsLeft`, `ColsLeft`, `RowsLeft`, `CellsLeft`). The other conjuncts of `Wire`
carry what that rests on: the grid is one a program can build (`IsGrid`: names and
values are names and values, columns differ, rows stand only below columns), and
once the text is written all its values are `Writable`.

`Reading` has a parameter, the text that stands behind what it describes: none for
a whole text. A text that was cut off in its rows is the text of the grid with its
first rows (`FirstOf`) and behind it the part of a line, one without a line end
(`NoLine`, `TextIsCut`). So the same lemmas lead the reader through the whole
rows, and then it is in the part: `Torn`. From there it cannot come to an end, as
every row, and each of the first two lines, ends with a line end, and what a step
of the reader leaves is always an end of the text it was given (`EndOf`,
`Leaves`, `ReadLeaves` in `ZincProofs`), in which there is no line end either; so
`Torn` stays until the reader refuses the text (`TornStays`). `Broken` is the
three cases together: refused, torn, or reading the first rows with a part behind
them. It is what `Wire` says of every text that was cut off, and what is read in
its third case is a grid with the first rows of the one that was written
(`FirstOfIsPrefix`).

Half of the argument is about texts: what is left behind one part is the next
part and what is left behind that (`AfterFacts`, `CommasLeftFacts`,
`TagsLeftFacts`, `RowsLeftFacts`), and each part ends where the next begins. The
text of every value begins with a symbol that is neither a blank nor a separator
(`ValuesOpen`), so the reader skips nothing that belongs to a value and takes no
full cell for an empty one. Each part is followed by a blank, a comma or a line
end (`Follows`), which no name and no value goes on with. The other half has a
lemma for each action of the reader, from `VersionIsRead` to `EndIsRead`: from a
place the step leads to the next place. No place is one of the phases `raised`
and `crashed`, so that the theorem includes that no such text is refused.

### `ZincProofs`

A text is a sequence over the symbols of all classes (`Symbol`). `RunFacts` and
`RunConcat` say what the loops over a class of symbols take: a first part whose
symbols are all of the class, if what follows is not. `EndsFacts` supplies that
for every class at once, so that words, refs, units and the names of zones are
each read to their end.

* Strings and URIs (`StrReadsBack`, `UriReadsBack`): the loop in a quoted text
  is a chain of turns (`TurnsSteps`); each symbol is printed as something that
  one turn takes back for it (`StandsFor`), and the text is taken whole by
  induction over its symbols (`UnquotedIs`).
* Numbers (`NumReadsBack`): a Num that is `Faithful` is one of the numerals that
  are printed (`RoundedIs`: what rounds to itself has no digits beyond them), and
  `Printable` is their form (`PrintableParts`, `PrintableEnds`). The loop over a
  number goes on at a symbol for one of three reasons (`GoesOn`). A text of which
  this holds at every place is taken whole (`NumeralIs`), and each form that the
  writer prints is such a text (`NumTextIs`), but for a digit followed by an
  exponent at once.
* Dates and times (`DateReadsBack`, `TimeReadsBack`, `DateTimeReadsBack`): the
  reader decides by what stands at fixed places behind a year, and takes
  milliseconds, offset and zone if they are there.

`ReadLeaves` is about any text, printed by the writer or not: whatever the reader
makes of it, what it leaves is an end of it. A cut text needs this, as what is
left of a value in it is seldom a value.

### Only model-checked

* Liveness (fairness and ENABLED are beyond the prover): `ClosedIsCollected`,
  `RequestsFinish`, `HistoryEnds`.
* `PrintsBack`, `SelectsMeant`: reader and evaluation of a filter are recursive
  over texts and trees, with RECURSIVE operators. `OrderDecides` is not, but its
  module is.
* `NeverCrashes`: within reach, as nothing in `Zinc` or `Grids` is RECURSIVE, but
  it speaks also of values that are not `Faithful`, for which the reader loses
  its place, and of the part of a value that a cut leaves. `WireAlwaysKeepsGrid`
  includes it for whole texts with `Faithful` values.

## What the code does otherwise than it says

The worst of these has a run that TLC ends with a counterexample: `bad_lookup`. A
request and a tick are enough: `m_watches[id]` at testproj.cpp:196 leaves a null
behind for an unknown watch id, and the next tick dereferences it
(testproj.cpp:373); op.cpp:381 says of this lookup "silently ignore failure".

The actions of the modules show the following too, without a run of their own:

* `TimerLoad`: a lease that has run out is exactly 0, the timer tests `< 0`, and
  so the watch stays for good (testproj.cpp:381).
* `TimerRecheck`, `TimerMark`: a tick that overlaps the sub of a new watch erases
  it while it is open (testproj.cpp:385).
* `SubScan`, `PollRefresh`: a refused sub leaves unknown ids, which the next poll
  dereferences (testproj.cpp:515).
* `TimerStore`: a poll that renews a lease between `TimerLoad` and `TimerStore`
  is undone (testproj.cpp:377).
* `TimerMark`, `Close`: a watch closed with lease 0 is never dropped
  (testproj.cpp:385); watch.hpp:70 says "Close the watch and free up any state
  resources."
* `SubAssign`: a second sub replaces the subscription (testproj.cpp:453);
  watch.hpp:43 says "Add a list of records to the subscription list".
* `Erased`: an unsub of two neighbours leaves the second (testproj.cpp:491).
* `PollRefresh`: a poll of a site or an equip throws, for want of a `kind`
  (testproj.cpp:517).
* `OnWatches`: watchList also shows watches closed or not open yet
  (testproj.cpp:182); server.cpp:78 says "List the open watches."
* `FindOp`: an operation that exists is not found, and 404 answered, while
  another worker fills the table (op.cpp:591); server.hpp:51 says "All methods on
  HServer must be thread safe."
* `OnReadAll`: one row more than the limit (server.cpp:245); proj.hpp:102 says
  "Clip number of results by "limit" parameter."
* `Unsettled`: on the client an unchecked read of an unknown id raises
  (server.cpp:41, client.cpp:146); proj.hpp:47 says "If not found then return
  null", and of `read_by_ids` proj.hpp:62 says "each id not found has a row where
  every cell is null", where server and client raise.
* `BadLevel`: the message for a level that is none adds the level to the address
  of the text (server.cpp:120), so a level that is not between 0 and the length of
  the text reads beyond it. It comes from the request as it is (op.cpp:481).
* `PointWriteArray`: `"" + (i + 1)` adds to the address of an empty text as well,
  so every answer of a point write reads up to 17 characters behind it
  (testproj.cpp:223).
* `GetToGrid`, `PostToGrid`: a request that cannot be read gets no error grid, and
  from the open handler no answer at all (op.cpp:146, 160).
* `Known`: with anything behind its name an operation is not found by the open
  handler, whose cut keeps the slash (haystack_server.cpp:113).
* `NewAbout`, `FillAbout`: about is answered without its tags while another
  worker adds them, and for good if the host name cannot be found
  (testproj.cpp:88).
* `GridSet`, `StaticView`: of two first requests for ops, one writes a view of a
  grid that the other has deleted, and the static view may be of that grid
  (op.cpp:212).
* `Current`: "today" is the machine's day in every zone (datetimerange.cpp:100), so
  for some hours of the day the current range of another zone does not hold now;
  datetimerange.hpp:89 makes the zone the "context for date based ranges".
* `Going`: an item that would fall on the end of a range is left out
  (testproj.cpp:250); server.hpp:210 says "The items must be exclusive of start
  and inclusive of end time."
* `Computed`: the sign of an offset is lost, `millis` adds it east and west of
  Greenwich (datetime.cpp:139-148), so the instants of the items of a machine to
  the east lie apart by more than a quarter of an hour. A machine in summer time
  has steps of an hour and a quarter, as `mktime` is told that there is none.
* `DefaultHours`: the machine's offset is a day off when its clock is on another
  day than UTC at the start, and ignores half hours (timezone.cpp:67).
* `Make`: `std::numeric_limits<time_t>::max` is not called (datetime.cpp:26): where
  code lies high in memory milliseconds are taken for seconds, and a history has
  no items.
* `PathNames`: of a path of three names the middle one is cut wrongly, as `substr`
  gets a position for a length (filter.cpp:132).
* `FilterText`: a `not` is printed without a blank and reads as the name of a tag.
* `Resolve`: a ref to a record that is not there raises, and with it the whole
  answer; filter.hpp:121-124 says "or ref is not found return null", by which the
  record would only not match.
* `PathRest`: `>` behind a blank and a path of several names is refused
  (zincreader.cpp:706).
* `Rounded`: a number is printed with six digits (num.cpp:43, 56), so 1234567 is
  printed 1.23457e+06 and comes back as another number, and a filter that is
  printed compares with another.
* `Faithful`: 5e+10 is printed so and does not read back; a unit that begins with
  an underscore, the unit of a NaN or of an infinity, a coordinate with a last
  digit that a product cuts, a uri with a backslash, a bin of several lines and a
  datetime with another offset than its zone has come back otherwise.
* `OnReadAll`: a filter that cannot be read is answered with status 200 and no
  body (filter.cpp:35).

## What is not modelled

* The values a poll makes up and the values of history items, which are made up
  too.
* Server lifecycle: `main` starts and stops Poco's server. Whether handlers still
  run when `stop()` returns is decided in Poco, and this code keeps no state
  about it.
* Display strings of values, iterators, the typed getters of `Dict`, and headers
  that only declare.
* Characters that the reader treats alike stand for one another in `Zinc`; the
  escapes of control characters other than line ends are one symbol.
* Lost or repeated requests on the wire: the server keeps no session beyond the
  watches, so a repeated request is one more request, which clients here may
  send. Nothing is persisted: a restart is a new `Init`.
* Credentials are right or wrong; how the client encodes them is left to Poco.
* `TestProj::ops`, which nothing calls, and the watches of the client, whose
  code only throws.
* The tests and build files.

## The plan

Done: the watch registry with its timer and watches (the only state that lives
longer than a request), the lazily built data that all workers share, the
calendar, the path of a request and its operations with the client, the history
read with the clock of the machine, grids and their text, filters.

Proved: what `The proofs` lists. Next: `NeverCrashes`, from an account of what the
reader takes of a text that is no value; and `OrderDecides`, once the comparisons
stand in a module without the reader of filters.

Left unmodelled: the text of a dict on its own (`Dict::to_zinc`, `read_tags`),
which tests use and the server does not.
