------------------------------ MODULE WebServer ------------------------------
(***************************************************************************)
(* main() of src/src/server_main.cc, from the configuration file to the    *)
(* answers of the running server: ConfigParser, then ServerConfig, then    *)
(* the constructor of Server, then requests as in HttpRequest and Routing. *)
(***************************************************************************)
EXTENDS Routing

VARIABLES
  main,      \* "starting", "running", or "exited"
  listening  \* the port the acceptor is bound to

vars == <<parser, config, request, dirs, main, listening>>

Init ==
  ParserInit /\ ConfigInit /\ RequestInit /\ main = "starting" /\ listening = NONE

(* main returns -1 when Parse or load_from_nginx_config returns false. *)
exit ==
  /\ main = "starting" /\ (parsed = "invalid" \/ loaded = "failed")
  /\ main' = "exited"
  /\ UNCHANGED <<parser, config, request, dirs, listening>>

(* Mutant: a signed short all the way. *)
start_signed ==
  /\ main = "starting" /\ loaded = "loaded"
  /\ main' = "running"
  /\ listening' = ((port_ + 32768) % 65536) - 32768
  /\ UNCHANGED <<parser, config, request, dirs>>

(* Server takes the int as a short and the endpoint that as an unsigned    *)
(* short.  Or the acceptor throws, which main reports, and returns.        *)
start ==
  /\ main = "starting" /\ loaded = "loaded"
  /\ \/ main' = "running" /\ listening' = port_ % 65536
     \/ main' = "exited" /\ UNCHANGED listening
  /\ UNCHANGED <<parser, config, request, dirs>>

Startup ==
  \/ ParserNext /\ UNCHANGED <<config, request, dirs, main, listening>>
  \/ ConfigNext /\ UNCHANGED <<request, dirs, main, listening>>
  \/ exit \/ start

Parsing == HttpParse /\ UNCHANGED <<parser, config, locals, code, dirs>>

Serve == main = "running" /\ (Parsing \/ Handle) /\ UNCHANGED <<main, listening>>

(* Requests come, and roots go. *)
Environment ==
  /\ main = "running"
  /\ \/ RemoveRoot
     \/ \E m \in Messages : Receive(m) /\ code' = NONE /\ UNCHANGED <<parser, config, locals, dirs>>
  /\ UNCHANGED <<main, listening>>

Next == Startup \/ Serve \/ Environment

Spec == Init /\ [][Next]_vars

(* The main thread and the worker keep running. *)
FairSpec == Spec /\ WF_vars(Startup) /\ WF_vars(Serve)
-----------------------------------------------------------------------------
(* The server listens where the file says, in the last listen of its       *)
(* server block or on 8080, if that is a port at all: it is converted      *)
(* twice on the way.                                                       *)
PortExact ==
  main = "running" =>
    LET said == IF Listens = {} THEN 8080
                ELSE stoi(blocks[server_block][Latest(Listens)].tokens[2])
    IN  said > 0 /\ (said < 65536 => listening = said)

(* The locations of the file that path begins with. *)
Candidates == {i \in DOMAIN blocks[server_block] :
  IsRoute(blocks[server_block][i]) /\ StartsWith(path_, blocks[server_block][i].tokens[2])}

(* From the file to the handler: when a route has been chosen, it is a     *)
(* location of the server block with the longest path that the request     *)
(* begins with, the last one with that path, and its block alone has set   *)
(* the handler's type and settings.  Without one, the answer is 404.       *)
RoutedAsConfigured ==
  pc \in {"match", "file", "sanitize"} /\ todo = {} =>
    \/ prefix_match = <<>> /\ Candidates = {}
    \/ \E i \in Candidates :
         /\ prefix_match = blocks[server_block][i].tokens[2]
         /\ handler = parse_handler_config(blocks[blocks[server_block][i].child])
         /\ \A j \in Candidates :
              LET p == blocks[server_block][j].tokens[2] IN
              Len(p) <= Len(prefix_match) /\ (p = prefix_match => j <= i)

(* The path that FileHandler opens stays below the root: no part of it is  *)
(* empty, "." or "..", or holds a slash.                                   *)
Contained ==
  \A i \in DOMAIN parts :
    parts[i] \notin Dropped /\ \A j \in DOMAIN parts[i] : parts[i][j] # "/"

(* It is also the file the request names, with a route that has no "?":    *)
(* the parts are the pieces between slashes of the rest of the path, up to *)
(* a query, in their order, without those that are dropped.                *)
FileNamed ==
  LET named == Drop(erase_query(path_), Len(prefix_match)) IN
  pc = "sanitize" /\ rest = <<>> /\ Find(prefix_match, "?") > Len(prefix_match) =>
    \E f \in [DOMAIN parts -> Cuts(named, "/")] :
      /\ \A i \in DOMAIN parts : parts[i] = Cut(named, f[i])
      /\ \A i, j \in DOMAIN parts : i < j => f[i][1] < f[j][1]
      /\ \A x \in Cuts(named, "/") :
           Cut(named, x) \in Dropped \/ \E i \in DOMAIN parts : f[i] = x

(* main comes to a decision about every file, and every request of a       *)
(* running server is answered or ends it.                                  *)
Decided == <>(main # "starting")
Replied == pc = "line" ~> pc \in {"idle", "terminated"}
=============================================================================
