---------------------------- MODULE ServerConfig ----------------------------
(***************************************************************************)
(* ServerConfig (src/src/server_config.cc): the port and the routes, from  *)
(* the tree that ConfigParser has built.                                   *)
(***************************************************************************)
EXTENDS ConfigParser

CONSTANTS Number  \* the int std::stoi reads off a word that begins with
                  \* digits or a sign, NONE when it throws out_of_range

ASSUME NumberAssumption == \A w \in DOMAIN Number : Number[w] \in Int \cup {NONE}

VARIABLES
  loaded,        \* "no", "loading", or what load_from_nginx_config returned
  server_block,  \* the block it loads
  next,          \* the place of the next server_statement
  port_,
  routes_

config == <<loaded, server_block, next, port_, routes_>>

ConfigInit ==
  /\ loaded = "no" /\ server_block = 0 /\ next = 1
  /\ port_ = 8080 /\ routes_ = <<>>

(* std::stoi, NONE when it throws: what follows the digits is ignored. *)
stoi(text) == IF text[1] \in DOMAIN Number THEN Number[text[1]] ELSE NONE

(* Statement s has the name w; a value follows it. *)
Named(s, w) == s.tokens[1] = <<w>>
Valued(s, w) == Named(s, w) /\ Len(s.tokens) >= 2

(* The value of the last statement of block b that has one for key. *)
Setting(b, key) ==
  b[Latest({i \in DOMAIN b : b[i].tokens[1] = key /\ Len(b[i].tokens) >= 2})].tokens[2]

(* The loop over a location block: the last handler and the last value of  *)
(* each other key win.  A HandlerConfig starts with an empty type.         *)
parse_handler_config(b) ==
  LET keys == {b[i].tokens[1] : i \in {j \in DOMAIN b : Len(b[j].tokens) >= 2}}
  IN  [type |-> IF <<"handler">> \in keys THEN Setting(b, <<"handler">>) ELSE <<>>,
       settings |-> [k \in keys \ {<<"handler">>} |-> Setting(b, k)]]

(* The search for the first statement that is a server block. *)
find_server ==
  LET servers == {i \in DOMAIN blocks[1] :
                    Named(blocks[1][i], "server") /\ blocks[1][i].child # 0}
  IN
  /\ parsed = "valid" /\ loaded = "no"
  /\ \/ servers = {} /\ loaded' = "failed" /\ UNCHANGED server_block
     \/ \E i \in servers :
          /\ \A j \in servers : i <= j
          /\ loaded' = "loading"
          /\ server_block' = blocks[1][i].child
  /\ UNCHANGED <<parser, next, port_, routes_>>

IsRoute(s) == Valued(s, "location") /\ s.child # 0

(* One server_statement: the port, unless stoi throws, or a route. *)
load_statement ==
  LET s == blocks[server_block][next] IN
  /\ loaded = "loading" /\ next <= Len(blocks[server_block])
  /\ next' = next + 1
  /\ port_' = IF Valued(s, "listen") /\ stoi(s.tokens[2]) # NONE
              THEN stoi(s.tokens[2]) ELSE port_
  /\ loaded' = IF Valued(s, "listen") /\ stoi(s.tokens[2]) = NONE THEN "failed" ELSE loaded
  /\ routes_' = IF IsRoute(s)
                THEN Assign(routes_, s.tokens[2], parse_handler_config(blocks[s.child]))
                ELSE routes_
  /\ UNCHANGED <<parser, server_block>>

load_return ==
  /\ loaded = "loading" /\ next > Len(blocks[server_block])
  /\ loaded' = IF port_ > 0 /\ DOMAIN routes_ # {} THEN "loaded" ELSE "failed"
  /\ UNCHANGED <<parser, server_block, next, port_, routes_>>

ConfigNext == find_server \/ load_statement \/ load_return
-----------------------------------------------------------------------------
(* The statements of the server block that set the port. *)
Listens == {i \in DOMAIN blocks[server_block] : Valued(blocks[server_block][i], "listen")}
=============================================================================
