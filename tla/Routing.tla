------------------------------- MODULE Routing -------------------------------
(***************************************************************************)
(* A request, once parsed, up to its answer: PathRouter::match_handler     *)
(* (src/src/path_router.cc), HandlerFactory::create_handler                *)
(* (handler_factory.cc) and the handler, FileHandler (file_handler.cc) in  *)
(* full.  Handlers share nothing but the routes and the file system, so    *)
(* one request at a time is enough; CrudHandler has a module of its own.   *)
(***************************************************************************)
EXTENDS ServerConfig, HttpRequest

CONSTANTS
  Messages,  \* the texts of the requests
  Directory, \* the roots that were directories when the server started
  Lower      \* ::tolower on words

ASSUME MessagesAssumption == Messages \subseteq Seq(Unit)

VARIABLES
  todo,          \* the routes match_handler has still to look at
  max_len,
  prefix_match,
  rest,          \* what sanitize_path has still to split
  parts,         \* what it has kept
  code,          \* the status code of the last answer, or the exception
  dirs           \* the roots that are directories now

locals == <<todo, max_len, prefix_match, rest, parts>>
request == <<pc, http, locals, code>>

RequestInit ==
  /\ pc = "idle" /\ HttpInit /\ todo = {} /\ max_len = 0 /\ prefix_match = <<>>
  /\ rest = <<>> /\ parts = <<>> /\ code = NONE /\ dirs = Directory

At(label) == pc = label /\ UNCHANGED <<parser, config, dirs>>

Goto(label) == pc' = label /\ UNCHANGED <<http, code>>

(* The locals go when the answer is there. *)
Answer(n) ==
  /\ pc' = "idle" /\ code' = n
  /\ HttpReset /\ todo' = {} /\ max_len' = 0 /\ prefix_match' = <<>>
  /\ rest' = <<>> /\ parts' = <<>>

(* Nothing catches between here and the lambda of the worker thread, and   *)
(* the process ends with exception e.                                      *)
Throw(e) == pc' = "terminated" /\ code' = e /\ UNCHANGED <<http, locals>>

malformed == At("parsed") /\ ~is_valid /\ Answer(400)

(* The beginning of match_handler. *)
match_all ==
  /\ At("parsed") /\ is_valid
  /\ todo' = DOMAIN routes_
  /\ Goto("match")
  /\ UNCHANGED <<max_len, prefix_match, rest, parts>>

(* Mutant: the last match wins, not the longest. *)
match_last(r) ==
  /\ At("match") /\ r \in todo
  /\ todo' = todo \ {r}
  /\ IF StartsWith(path_, r)
     THEN max_len' = Len(r) /\ prefix_match' = r
     ELSE UNCHANGED <<max_len, prefix_match>>
  /\ Goto("match")
  /\ UNCHANGED <<rest, parts>>

(* The loop over routes_, in any order. *)
match_handler(r) ==
  /\ At("match") /\ r \in todo
  /\ todo' = todo \ {r}
  /\ IF StartsWith(path_, r) /\ Len(r) > max_len
     THEN max_len' = Len(r) /\ prefix_match' = r
     ELSE UNCHANGED <<max_len, prefix_match>>
  /\ Goto("match")
  /\ UNCHANGED <<rest, parts>>
-----------------------------------------------------------------------------
(* create_handler, when the loop is over. *)

handler == routes_[prefix_match]
root == handler.settings[<<"root">>]

Creating(types) ==
  /\ At("match") /\ todo = {} /\ prefix_match # <<>>
  /\ \E t \in types : handler.type = <<t>>

(* EchoHandler, HealthHandler: 200, always.  A CrudHandler gives any of    *)
(* its answers, or throws: see module CrudHandler.                         *)
create_simple == Creating({"EchoHandler", "HealthHandler"}) /\ Answer(200)

create_crud ==
  /\ Creating({"CrudHandler"})
  /\ Throw("runtime_error") \/ \E n \in {200, 201, 400, 404, 500, 501} : Answer(n)

(* sleep_seconds is read when the request comes.  SleepHandler then sleeps *)
(* as long: see module Server.                                             *)
create_sleep ==
  LET set == <<"sleep_seconds">> \in DOMAIN handler.settings IN
  /\ Creating({"SleepHandler"})
  /\ \/ set /\ stoi(handler.settings[<<"sleep_seconds">>]) = NONE /\ Throw("stoi")
     \/ (set => stoi(handler.settings[<<"sleep_seconds">>]) # NONE) /\ Answer(200)

(* No route: NotFoundHandler, as for a type the factory does not know. *)
create_not_found ==
  /\ At("match") /\ todo = {}
  /\ prefix_match # <<>> =>
       \A t \in {"EchoHandler", "HealthHandler", "StaticHandler", "CrudHandler",
                 "SleepHandler"} : handler.type # <<t>>
  /\ Answer(404)

(* nullptr for want of a root: handle_read answers itself. *)
create_static_rootless ==
  /\ Creating({"StaticHandler"}) /\ <<"root">> \notin DOMAIN handler.settings
  /\ Answer(404)

(* The constructors of FileHandler throw when the root is not a directory, *)
(* and so do exists and is_directory when they cannot tell.                *)
create_static ==
  /\ Creating({"StaticHandler"}) /\ <<"root">> \in DOMAIN handler.settings
  /\ \/ Throw("filesystem_error")
     \/ root \notin dirs /\ Throw("invalid_argument")
     \/ root \in dirs /\ Goto("file") /\ UNCHANGED locals
-----------------------------------------------------------------------------
(* FileHandler::handle_request. *)

erase_query(s) == Upto(s, "?")

(* Mutant: the query stays. *)
relative_path_query ==
  LET p == erase_query(path_) IN
  IF StartsWith(p, prefix_match) THEN Drop(path_, Len(prefix_match)) ELSE <<>>

(* The path without query and without the route's prefix; nothing when it  *)
(* does not begin with the prefix, as when that holds a "?".               *)
relative_path ==
  LET p == erase_query(path_) IN
  IF StartsWith(p, prefix_match) THEN Drop(p, Len(prefix_match)) ELSE <<>>

file_relative ==
  /\ At("file")
  /\ rest' = relative_path
  /\ Goto("sanitize")
  /\ UNCHANGED <<todo, max_len, prefix_match, parts>>

Dropped == {<<>>, <<".">>, <<".", ".">>}

(* Mutants: parts are dropped in front only; the slash is left behind. *)
sanitize_front ==
  LET part == Upto(rest, "/") IN
  /\ At("sanitize") /\ rest # <<>>
  /\ rest' = After(rest, "/")
  /\ parts' = IF part \in Dropped /\ parts = <<>> THEN parts ELSE Append(parts, part)
  /\ Goto("sanitize")
  /\ UNCHANGED <<todo, max_len, prefix_match>>

sanitize_stuck ==
  LET part == Upto(rest, "/") IN
  /\ At("sanitize") /\ rest # <<>>
  /\ rest' = Drop(rest, Len(part))
  /\ parts' = IF part \in Dropped THEN parts ELSE Append(parts, part)
  /\ Goto("sanitize")
  /\ UNCHANGED <<todo, max_len, prefix_match>>

(* One turn of the getline loop of sanitize_path.  Leading slashes only    *)
(* make empty parts.                                                       *)
sanitize_path ==
  LET part == Upto(rest, "/") IN
  /\ At("sanitize") /\ rest # <<>>
  /\ rest' = After(rest, "/")
  /\ parts' = IF part \in Dropped THEN parts ELSE Append(parts, part)
  /\ Goto("sanitize")
  /\ UNCHANGED <<todo, max_len, prefix_match>>

(* std::filesystem::path::extension, in lower case: the last dot of the    *)
(* last part and what follows, unless the part begins with that dot.       *)
extension ==
  LET f == parts[Len(parts)]
      dots == {i \in 2..Len(f) : f[i] = "."}
  IN  IF dots = {} THEN <<>>
      ELSE [i \in 1..(Len(f) - Latest(dots) + 1) |->
              LET u == f[Latest(dots) + i - 1] IN
              IF u \in DOMAIN Lower THEN Lower[u] ELSE u]

DEFAULT_EXTENSIONS ==
  {<<".", w>> : w \in {"html", "htm", "css", "js", "json", "jpg", "jpeg", "png", "gif",
                       "svg", "txt", "xml", "pdf", "ico", "zip"}}

(* The pieces between commas, without blanks around them.  A dot is put in *)
(* front where there is none; case is kept.                                *)
parse_extensions(s) ==
  {IF e[1] = "." THEN e ELSE <<".">> \o e :
     e \in {Trim(Cut(s, x), {"sp"}) : x \in Cuts(s, ",")} \ {<<>>}}

supported_extensions ==
  IF <<"supported_extensions">> \in DOMAIN handler.settings
  THEN parse_extensions(handler.settings[<<"supported_extensions">>])
  ELSE DEFAULT_EXTENSIONS

(* exists and is_regular_file of the full path.  The root itself, when no  *)
(* part is left, is not a regular file.                                    *)
file_missing == At("sanitize") /\ rest = <<>> /\ Answer(404)

(* std::filesystem::exists throws when it cannot tell. *)
file_error == At("sanitize") /\ rest = <<>> /\ Throw("filesystem_error")

file_unsupported ==
  /\ At("sanitize") /\ rest = <<>> /\ parts # <<>>
  /\ extension \notin supported_extensions
  /\ Answer(415)

(* The file may be gone, or not be readable, when it is opened. *)
file_open ==
  /\ At("sanitize") /\ rest = <<>> /\ parts # <<>>
  /\ extension \in supported_extensions
  /\ Answer(200) \/ Answer(500)

Handle ==
  \/ malformed \/ match_all
  \/ \E r \in todo : match_handler(r)
  \/ create_simple \/ create_crud \/ create_sleep \/ create_not_found
  \/ create_static_rootless \/ create_static
  \/ file_relative \/ sanitize_path \/ file_missing \/ file_error
  \/ file_unsupported \/ file_open

(* Somebody removes a root while the server runs. *)
RemoveRoot ==
  /\ dirs' \in SUBSET dirs
  /\ UNCHANGED <<parser, config, request>>
=============================================================================
