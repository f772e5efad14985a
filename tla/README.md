# A TLA+ model of d20_web_server

This directory holds a formal model of the web server in this repository: TLA+
modules translated from the C++ sources, TLC configurations that model-check them
on small instances, and TLAPS proofs of their main properties for every instance.
`PROJECT.json` lists the components, the runs, the source lines behind each
definition, the hazards and the findings.

## The system

The server is one process. `main` parses a configuration, builds a `PathRouter`,
opens an acceptor and lets `max(4, hardware_concurrency)` threads run one
`io_service`. Each connection is a `Session`; each request gets a fresh handler
from the router and the `HandlerFactory`.

| Component | State | Operations | Interacts with |
|---|---|---|---|
| `NginxConfigParser` | statement stack, token automaton | `Parse`, `ParseToken` | `ServerConfig` |
| `ServerConfig` | port, routes | `load_from_nginx_config` | `PathRouter`, `Server` |
| `Server` | acceptor, next session | `start_accept`, `handle_accept` | creates and starts `Session`s |
| thread pool | one thread each | `io_service.run()` | runs every completion handler |
| `Session` | `socket_`, `data_`, `buffer_`, its `shared_ptr` count | `start`, `handle_read`, `handle_write` | HTTP helpers, `HttpRequest`, router, handler |
| `HttpRequest`, HTTP helpers | a parsed request | `parse`, `get_header`, `is_valid`, `detect_http_request`, `check_malformed_request` | `Session`, handlers |
| `PathRouter`, `HandlerFactory` | routes; the one static `MockFilesystem` | `match_handler`, `create_handler` | handlers |
| `CrudHandler` | none of its own, the shared store | `handle_request` and one function per method | `MockFilesystem` |
| `MockFilesystem` | `data_`, map of maps, no lock | exists, read, write, delete, list, next id | every thread |
| `FileHandler`, `EchoHandler`, `HealthHandler`, `SleepHandler`, `NotFoundHandler` | none | `handle_request` | files, the clock |
| `Logger` | sinks | log functions | everybody |

What is hard here is concurrency without locks. Three places carry it:

* the **store**: every `CrudHandler` call on it stands alone, and handlers make two or
  more calls (check then act) while other threads make theirs;
* the **session**: its handlers form a chain (a read completes, a write is started, the
  write completes, a read is started), and nothing but that chain keeps two threads out
  of one session. `handle_read` starts the write *before* its last line;
* the **pool**: accepts, reads and writes of all connections share one queue and a few
  threads, and a handler may block its thread for seconds.

And what is hard without concurrency: four small languages that are read by hand, the
configuration file, the request, the query and the path of a file. The text decides, per
request and on a worker thread, whether there is an answer or an exception that ends the
process.

For each component, what makes it correct:

* store and CRUD handler: requests behave as if served one at a time, unless another has
  changed in between what they had found; ids are unique;
  an allocated id is one the allocator understands; no request ends the process; every
  request is answered;
* session: one socket operation at a time, and never none while the connection is open;
  the object lives exactly as long as someone uses it; each request gets its own answer,
  made from all its bytes, whatever the segmentation; the answer's bytes are the
  answer's; a leaving client frees its session;
* accept loop and pool: it is always about to accept, once; a connection blocks one thread
  only; whoever connects is accepted and whoever asks is served;
* configuration: the parser accepts what its grammar says and loses nothing of it; the
  port and the routes are those of the file;
* requests: headers, body and query are those of the text;
* routing and files: the longest location wins, in its last version; a path never leaves
  the root and names the file it says; every request comes to an end.

## The modules

| Module | Models | Kind |
|---|---|---|
| `MockFilesystem` | `mock_filesystem.cc` | operators on the store, constants and assumptions |
| `CrudRequest` | paths, requests and responses of `crud_handler.cc` | operators |
| `CrudApi` | what README.md promises of the CRUD API | abstract specification: each request atomic |
| `CrudHandler` | `crud_handler.cc` on many threads | detailed specification |
| `CrudRaces` | | `CrudHandler` with a history of its races |
| `CrudHandlerProofs` | | types, canonical ids, refinement of `CrudApi`, with and without races |
| `Session` | `session.cc`, `http_helper.cc`, the part of `http_request.cc` it relies on | specification, with the client and the pool |
| `SessionProofs` | | the session's types, the counting invariant |
| `SessionAnswers` | | each request its own answer, for a client that waits |
| `Server` | `server.cc`, the pool of `server_main.cc`, `sleep_handler.cc` | specification, with the clients and the io_service |
| `ServerProofs` | | the accept loop, one place per session, enough threads |
| `Text` | functions of `std::string` the parsers call | operators on texts |
| `ConfigParser` | `config_parser.cc` | one action per state of the scanner and per type of token |
| `ConfigGrammar` | | the grammar the parser is checked against |
| `ConfigText` | `ToString` of `config_parser.cc` | the text of a tree, that the tokens are compared with |
| `ServerConfig` | `server_config.cc` | actions on the parsed tree |
| `HttpRequest` | `http_request.cc` | actions of `parse`, `is_valid` |
| `Routing` | `path_router.cc`, `handler_factory.cc`, `file_handler.cc` and the simple handlers | a request from parsed to answered |
| `WebServer` | `main` | composition of the five before it, and its properties |
| `ConfigParserProofs` | | the parser's tree, its tokens, its grammar |
| `ConfigTextProofs` | | the text of the tree is the tokens of the file |
| `HttpRequestProofs` | | texts, the request and its query |
| `WebServerProofs` | | ports, routes, the file that is opened; the rest carried to the whole server |
| `MCCrud`, `MCSession`, `MCServer`, `MCWebServer` | | instances for TLC |

`Session` and `Server` overlap on purpose: `Session` has one connection with all of its
buffer and no queue, `Server` has many connections, each reduced to its chain of
operations. `Server` and `WebServer` split `server_main.cc`: the threads are in the first,
the order of start-up in the second.

**MockFilesystem, CrudRequest.** The store is a total function from type and id to a
payload or `NONE`. Ids are strings: `stoi` and `to_string` are functions between them and
the integers, related only by `stoi[to_string[n]] = n`, so that strings `std::stoi`
misreads (`"2x"` as 2) are there. A path is its route-prefix test and its segments.
`extract_json_field` and substring search are arbitrary functions of the payload. A
listing is the set of ids: sorting distinct strings adds nothing to it.

**CrudHandler.** One action is one call on the store with the local code up to the next
call; `pc[c]` is the place in the handler. A response ends the frame and its locals. An
exception that nothing catches sets `alive` to FALSE, after which no action is enabled,
as `std::terminate` leaves it. Calls that overlap in time are undefined behaviour of
`std::unordered_map`; the model interleaves whole calls only, and what it finds wrong is
wrong without that. `write_entity` of this store never returns false, so the two "failed
to store" answers are unreachable and have no action.

**CrudRaces.** `stale[c]` is TRUE while c's thread is between two calls on the store and
another thread has changed what the first call told it: that an id was free, that an entity
was there, or which entities there were. The variable only watches; no guard reads it but
that of the property.

**CrudApi.** A request is asked, then served in one step. The new id may be any numeral
not in use; 500 only when there is none.

**Session.** Bytes are pieces `<<i, k>>`, the k-th of request i. A read may deliver any
number of them up to `max_length`. `handle_read` is cut at each access to state another
thread can touch: append, malformed check, detect and parse, measure, handle, start the
write, clear. `reads` and `writes` count outstanding operations, `refs` the
`shared_ptr`s, each updated where the code does it. `async_write` sends any part of the
response at once; the rest is read later from memory that belongs to the frame, and may
be anything once the frame has returned. The client waits for answers before it has
`MaxInFlight` requests open, and a `Patient` one also for the handlers to return: that is
the assumption under which keep-alive works, and `session_keepalive` drops it. A buffer that does not begin with a header
parses as anything, or throws. The client closes whenever it likes. An exception of a handler ends
the process (`crashed`). What a handler answers is the request it answered, marked 200.
The header terminator is never itself cut in two. In the model a piece, not a byte, is
the unit of `content_length`, and `size_t` wraps at `SIZE_MOD`.

**Server.** `accepting` counts outstanding `async_accept`s, `op[c]` is the outstanding
operation of c's session, `ready` the queue of completion handlers, `pc[t]` what a thread
is about to do. A completed operation posts its handler at the end of the queue; an idle
thread takes the first. `handle_accept` is two steps, `start()` and `start_accept()`,
since another thread may run the session in between. `async_accept` may fail up to
`MaxErrors` times; `handle_accept` then starts no session, and accepts again. The queue
and the kernel's backlog are first in, first out; they are Boost.Asio and the kernel,
modelled as `server.cc` uses them. A request comes in one read here, and clients have one
connection each.

**Text.** A text is a sequence of units: characters the code looks at (`"{"`, `"nl"`,
`"."`), and words, runs of characters it does not tell apart. `"sp"` stands for a blank or
a tab. The parsers work on texts, so that quoting, blanks, ends of line and the order of
characters matter as they do in the code.

**ConfigParser.** `state`, `token` and `pos` are the scanner's, one action per state; then
`token_type` is what it returned, and one action per type is the body of the loop of
`Parse`. `blocks` holds every `NginxConfig` by the order of its creation, a statement's
child is a place in it, and `config_stack` is the stack of pointers. `printed` is what the
code prints for each token, with the place of its last unit: the record the checks compare
with.

**ServerConfig, HttpRequest, Routing.** One action per turn of a loop: a statement of the
server block, a pair of the query, a header line, a route, a part of a path. The routes are
taken in any order: the map is sorted, and the result does not depend on it. `std::stoi` is a partial
function `Number` on the words that begin with digits. Whether files exist, are regular,
or can be opened, and whether the file system can tell, is chosen freely; whether a root is a directory is `dirs`, which shrinks
while the server runs. `create_crud` gives every answer `CrudHandler` has; that module has
the reasons. One request is served at a time here: what handlers share is either constant
(routes) or in `CrudHandler`.

**WebServer.** `main` parses, loads, opens the acceptor on `port_` through `short` and
`unsigned short`, and serves; it leaves with -1 when parsing or loading fails, and after an
exception of the acceptor.

## What TLC checks

| Run | Instance | Shows |
|---|---|---|
| `crud_shared` | 2 clients with all conflicts and malformed requests, 1 type, `INT_MAX` = 2 | every step is one of the atomic service, unless another client changed what the thread had found; types, canonical ids, every request answered (or process ended) |
| `session_any` | 3 threads, 2 requests, split, short, LF-terminated, pipelined | types, one operation at a time, exact reference count |
| `session_patient` | 3 threads, 2 requests of 6 shapes on one connection, responses of 1 or 2 pieces, a client slower than a handler's last lines | each request gets its own answer from its whole body, answered, freed |
| `server_pool` | 3 threads, 2 connections that ask SleepHandler only, 1 failing accept | one accept on the way at any time, one blocked thread per connection, one thread free; accepted and served in the end |
| `startup` | every file of up to 7 units about blocks or 4 about quotes and comments; 66 whole configurations with 19 requests | grammar, tree and text of the parser; port and routes as in the file; headers, body, query; containment and name of files; every file decided, every request answered |

Seven runs more show where a sentence of the repository does not hold; see Findings.

Bounds. Two ids are the least at which allocation, reuse after DELETE and overflow all
happen; two clients are enough for each pair of conflicting calls, and one type, since
requests of different types touch different maps (`OnlyRacesDepart` covers any number). Two
requests let the late `clear` of the first meet the second; the third
thread lets `handle_write`, the next `handle_read` and the late frame be three. A body of
two pieces with reads of at most two covers a body in one, two or three reads with or
without the header. Three threads and two sleeping connections leave one thread
free, and the handlers of one session may be on two threads while the third accepts. Seven
units are the least for a block inside a block with a name each (`a{a{}}` and a blank), four
for a quoted text with the other quote in it; the whole configurations add what short files
cannot hold: two locations with one path, routes that are prefixes of one another, routes
with a `?`, ports of every kind (none, zero, above 32767, above 65535, unreadable), each
handler with its settings present, absent or bad.

Each passing property has a mutant of a definition that models code of this repository, and
the mutant breaks it; the mutants stand before the definitions they replace and are not part
of any specification.

Deadlock is not checked, for the system may stop: the process can end by an
exception or decline its configuration, a session ends when its client leaves, and the
clients of `server_pool` may all leave.

Fairness. `CrudRaces`: a thread in a handler keeps running (nothing in it blocks); no
fairness on clients. `Session`: the same for each thread; `io_service::run` gives a
completed operation to some waiting thread (weak fairness on the dispatch, not per
thread); the client takes what it is sent or leaves. `Server`: each thread goes on with what
it does, which for a sleep means that it ends; some waiting thread takes a handler from a
queue that has one; what has completed is noticed, each operation for itself. `WebServer`:
the main thread and the worker keep running. Clients owe no request.

## What is proved

TLAPS checks, for any number of clients, threads, ids and requests:

* `TypeCorrectness`, `IdsStayCanonical` (`CrudHandlerProofs`). `CanonicalIds` alone is not
  inductive: a PUT about to write has passed `entity_exists` earlier, and the entity may
  be gone. `IInv` adds that the id of a PUT about to write, and the id a POST holds, are
  numerals, and that each label's request is of its kind (`LocalsOK`).
* `OnlyRacesDepart` (`CrudHandlerProofs`), for any requests at all: a step of the handlers is
  one of `CrudApi`, or a stutter, unless the thread that makes it is `stale`. A return is a
  step of the service at the thread's last call on the store. The invariant is `RInv`: a
  thread that is not `stale` still has in the store what it found there (`Held`). A thread's
  own step establishes it; another's step changes one entry, and where that entry is what is
  held, `Disturbs` is true and the thread becomes `stale` (`NotDisturbing`, `OthersHeld`).
  It is inductive only for all threads at once: a PUT does not disturb a POST, because a PUT
  that is not `stale` writes an entity that is there, and so takes no free id. The 500 of POST
  needs canonical ids (`OverflowIsFull`).
* `ConflictFreeNoException`, `ConflictFreePost`, `Linearizable` (`CrudHandlerProofs`),
  assuming `ConflictFree`: no two *different* clients have two POSTs of one type, a DELETE
  and another request for the same entity, or a filtered LIST and a change of its type. A
  single client always qualifies. All of it is needed for the POST too: with one poster per
  type, a PUT that a DELETE has overtaken may still write the id the poster has just drawn.
  Then nobody is disturbed, `Held` is an invariant of its own, and the handlers implement
  `CrudApi` (`RefinesApi`).
* `TypeCorrectness`, `OneOperationAtATime`, `LifetimeIsExact` (`SessionProofs`). Each step changes the number
  of outstanding operations, of frames, and of `shared_ptr`s; `Balance` is the arithmetic
  once and for all and each action is an instance of it. `OneOperation` is inductive only
  because it also counts the frames that have still to start an operation (`Holder`).
* `AnswersInOrder` (`SessionAnswers`): for a client that waits for its
  answers (`GoodClient`: one request open at a time, none while a handler has still its last
  lines to run, headers not cut, bodies announced truly), every answer is that of its
  request, made from the whole of it. It is not inductive. `AInv` says that the session is in one of two phases: `Between` requests, when
  `buffer_` is empty or about to be cleared and nothing of the next request has left the
  client; or `Receiving` the one that is open, when `buffer_`, what the frame holds, and what
  is still to arrive are together that request and nothing else. `session_keepalive` and
  `session_split` show what happens without the waiting and with a header that is cut.

* `TypeCorrectness`, `AlwaysAccepting`, `OneThreadPerSleeper`, `EnoughThreads`
  (`ServerProofs`), for any number of threads, connections and failed accepts. `OneAccept`
  is inductive with the types. `OneSleepEach` is not: `Chains` says where a session is,
  namely in one place only of the backlog, the outstanding operations, the queue, and the
  threads that have still to start its next operation. `EnoughThreads` is the pigeonhole
  principle on it, with fewer sleepers than threads; `server_sleep` shows that the
  assumption is needed.
* `ParserNeverAstray`, `RoutesAsConfigured`, `ListensAsConfigured`, `NeverAboveRoot`
  (`ConfigParserProofs`, `WebServerProofs`), for files and requests of any
  length. The parts of the inductive invariant follow the program: `ParserInv` (the stack
  of blocks is increasing, words are not empty, `TreeOK`), `LoadOK` (the loop invariant of
  `load_from_nginx_config`: port and routes of the statements before `next`), `RequestOK`
  (the loop invariant of `match_handler`: the longest of the routes seen; parts without
  slashes), `Phases` (one part has ended when the next begins, so that the tree is not
  touched once it is read). That `find` returns the first place rests on the
  well-foundedness of the naturals (`Least`, `FindFirst`).
* `NothingLost` (`ConfigParserProofs`, carried over by `WebServerProofs`): the tokens are the
  file without the blanks between them. `printed` notes where each token ends, and
  `Lossless` says that the tokens, and the one being collected, lie apart and in order in
  the file with only blanks between. It is inductive with one more fact: nothing is
  collected in `initial_whitespace`. Every step of `ParseToken` is one of three: it passes
  over a blank, adds the next unit, or leaves the unit where it is (`LaidOutBlank`,
  `LaidOutUnit`, `unget`).
* `AcceptsTheGrammar` (`ConfigParserProofs`, carried over by `WebServerProofs`): the loop of
  `Parse` decides the grammar of `ConfigGrammar`, which is a definition of its own, by
  recursion, with no stack and no last token. Three parts. The recursion defines something:
  what a configuration from token `i` can be depends on later tokens only, so a table of the
  ends of configurations is built from the last token down (`TableExists`, `EndsIs`). The
  parser is an automaton, whose state is the last token and the depth (`Run`): it goes
  through what the grammar derives (`ConfigRuns`, on the places from the last down), and
  the grammar derives what it goes through between two places of one depth (`RunDerives`:
  the first token that leaves the words of a statement, and the first that comes back to its
  depth). Hence what is accepted (`ConfigEnd`), what can be completed, by a semicolon and
  closing braces (`GoesOn`), and what cannot (`Refused`). The invariant (`GrammarInv`) is that
  `last_token_type` and `open_block` are the state of that automaton after the tokens before
  the current one.
* `PrintsWhatItRead` (`ConfigTextProofs`, carried over by `WebServerProofs`): `ToString` of an
  accepted tree gives the tokens of the file, comments left out. The tree is compared with
  the tokens through a layout (`Layouts`): for each block, the places among the tokens where
  its statements begin, and the one after its last. The invariant (`TextInv`) is that the
  tokens before the current one have a layout (`Laid`): the words of every statement are
  where it begins, with "{" and the first place of the child after them if it has a child
  (`Begins`); every statement ends where the next begins, with ";" or with "}" at the end of
  its child (`Finishes`); all but the last statements of the blocks on `config_stack` (those
  of the top one too, unless a word was last) have ended, and the children of these are not
  on the stack, so that no later step changes them. Each token changes at most one place of
  the layout: a word joins a statement (`WordJoins`) or starts one (`StatementStarts`), a
  block opens (`BlockOpens`), a statement ends (`StatementEnds`, for ";" and "}" alike). At
  the end of an accepted file nothing is open, the layout is complete (`Whole`), and
  `ToString` is read off it, from the last block to the first (`TextWhole`): the text of a
  block is the stretch between its first place and its last (`FlattenCut`).
* `OpensWhatIsNamed` (`WebServerProofs`): the file that is opened is the root and the parts
  of the path, in order, without those the code drops. The loop invariant (`NamedOK`) speaks
  of the parts taken so far and of `rest`, a rest of the path: the next slash of `rest` is
  the next slash of the path (`PieceOfRest`, `RestOfRest`).
* `ParsesExactly`, `QueriesExactly` (`HttpRequestProofs`, carried over by `WebServerProofs`):
  what `parse` makes of any text. The loop invariants (`LinesOK`, `QueryOK`) say that `at`,
  or the rest of the query, begins at the end of a line, or pair, of the text, and that the
  map holds the last value of each key among the lines before it (`LastWins`, extended by
  one line at a time: `LastWinsSet`, `LastWinsSkip`).

Assumptions: the named `ASSUME`s of the modules (numerals, `INT_MAX` positive, requests
are requests, finitely many threads, files and messages are texts), which TLC evaluates in
the runs; `ConflictFree`, `GoodClient` and fewer sleepers than threads where a theorem says
so.

Only model-checked: the liveness properties, for which the prover has no fairness. Every
other property of a passing run is stated by a theorem.

## Findings

| Run | What happens | What the repository says |
|---|---|---|
| `crud_shared_crash` | GET, or a filtered LIST, during a DELETE ends the process | README: 404 when the entity does not exist |
| `crud_shared_post` | two POSTs get one id, one entity is lost | README: ids are unique within a type |
| `crud_shared_put` | a PUT that a DELETE has overtaken brings the entity back | README: PUT updates an existing entity |
| `session_keepalive` | the late `buffer_.clear()` wipes the next request | README: safe across threads without race conditions |
| `session_split` | a header in two reads is answered 400 | comment: keep reading if empty line not found |
| `session_dangling` | a long response is sent from a destroyed string | README: the client receives the echoed request |
| `server_sleep` | as many sleeping requests as threads leave none for others | README: without blocking other requests |

Also met while modelling, and in the model as the code has them:

* a last word of a configuration that nothing ends is dropped in silence, and the file is
  accepted if it is in order without it (`end_of_file`). `Lossless` counts the word as read,
  with the token of the end of file, and `GrammarExact` and `TreeFaithful` speak of whole
  tokens: none of the three is about this word;
* a quoted value keeps its quotes, so `listen "80";` fails, and a carriage return is part of
  the word before it;
* a port above 65535 is accepted and wraps (`start`): `PortExact` is about the numbers that
  are ports;
* an exception of the `FileHandler` constructor (a root that is no directory, or a file
  system that cannot tell), of `std::stoi` on `sleep_seconds`, or of `exists` on a file ends
  the process, for nothing catches it (`Throw`): `Replied` counts that as an end;
* a request that arrives in one buffer with another is swallowed with it (`session_any`
  shows that the session survives it);
* extensions are lower-cased in the path of a request but not in `supported_extensions`
  (`extension`, `parse_extensions`);
* one newline at the end of a body is lost (`parse_body`);
* the three words of a request line need not be on one line (`parse_request_line`).

## Not modelled

`Logger` (output only; that all threads log through one logger that is not the `_mt` variant
is listed as a hazard), the formatting of `HttpResponse`, the table of MIME types, the bytes
of files, the sockets themselves, `request.h` and `header.h` (not used by the server any
more). `std::unordered_map` calls that overlap in time are undefined and not modelled.
`extract_json_field` is a function of the payload, without its search for quotes.

## Plan

Done: store, CRUD handler and abstract service; session; accept loop and pool; parser,
configuration, requests, routing and files, composed in `WebServer`; the proofs above. Left:
`extract_json_field` over character classes.
