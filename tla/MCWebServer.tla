----------------------------- MODULE MCWebServer -----------------------------
(***************************************************************************)
(* Small instances of WebServer: short files of every kind, and whole      *)
(* configurations with the requests that go with them.                     *)
(***************************************************************************)
EXTENDS WebServer, ConfigGrammar, ConfigText

CONSTANTS BlockLen, QuoteLen

BlockUnits == {"a", "sp", "{", "}", ";"}
QuoteUnits == {"a", "'", "\"", "#", "nl", "cr", ";"}

(* Every text up to a length that is about blocks, or about quotes and     *)
(* comments.                                                               *)
ShortFiles == BoundedSeq(BlockUnits, BlockLen) \cup BoundedSeq(QuoteUnits, QuoteLen)

Block(name, body) == name \o <<"sp", "{", "nl">> \o body \o <<"}">>
Set(key, value) == <<key, "sp">> \o value \o <<";">>
Location(p, body) == Block(<<"location", "sp">> \o p, body)
Static(settings) == Set("handler", <<"StaticHandler">>) \o settings
Server(body) == Block(<<"server">>, body)

root_ok == Set("root", <<"/", "www">>)
echo == Set("handler", <<"EchoHandler">>)

(* Routes that are prefixes of one another, one of them twice, and every   *)
(* handler with every setting, good or bad.                                *)
RouteFiles ==
  {Server(Location(<<"/">>, a) \o Location(<<"/", "st">>, b) \o Location(<<"/", "st">>, d)) :
     a \in {echo, <<>>}, b \in {echo, Static(root_ok)},
     d \in {Static(<<>>), Static(root_ok), Static(Set("root", <<"/", "gone">>)),
            Static(root_ok \o Set("supported_extensions", <<"HTML", ",", "txt">>)),
            Set("handler", <<"HealthHandler">>), Set("handler", <<"CrudHandler">>)}}
  \cup {Server(Location(<<"/", "st", "?">>, Static(root_ok)) \o Location(<<"/", "st", "atic">>, s)) :
     s \in {Set("handler", <<"SleepHandler">>),
            Set("handler", <<"SleepHandler">>) \o Set("sleep_seconds", <<"80", "st">>),
            Set("sleep_seconds", <<"st">>) \o Set("handler", <<"SleepHandler">>),
            Set("handler", <<"Other">>)}}

(* Ports, none, two or unreadable, before and after the routes; blocks     *)
(* that are not the first server block; a server that is no block.         *)
PortFiles ==
  {Server(p \o Location(<<"/">>, echo) \o q) :
     p \in {<<>>, <<"listen", ";">>} \cup {Set("listen", <<n>>) : n \in DOMAIN Number},
     q \in {<<>>, Set("listen", <<"80">>), Set("listen", <<"\"", "80", "\"">>),
            <<"location", "sp", "/", ";">>}}
  \cup {before \o Server(Location(<<"/">>, echo)) \o after :
     before \in {<<"server", ";">>, Block(<<"http">>, <<>>), Server(<<>>)},
     after \in {<<>>, Server(Set("listen", <<"81">>))}}

MCFiles == ShortFiles \cup RouteFiles \cup PortFiles

MCPaths == {<<"/">>, <<"st">>, <<"/", "st">>, <<"/", "st", "atic", "?", "x">>,
            <<"/", "st", "?", "/", "x">>,
            <<"/", "st", "/", ".", ".", "/", "x", ".", "HTML">>,
            <<"/", "st", "/", "x", "/", ".", "/", ".", ".", ".", "/", "/", "st", ".", "txt">>,
            <<"/", "st", "/", "x", "/", "st", ".", "HTML", "?", "/">>,
            <<"/", "st", "/", ".", "txt">>}

Message(m, p, v, headers, body) ==
  <<m, "sp">> \o p \o <<"sp">> \o v \o headers \o <<"nl", "cr", "nl">> \o body

Line(k, v) == <<"cr", "nl", k, ":">> \o v \o <<"cr">>
HTTP == <<"HTTP/1.1">>

(* A request for every path, and requests of other forms. *)
MCMessages ==
  {Message("GET", p, HTTP, <<"cr">>, <<>>) : p \in MCPaths}
  \cup {Message("PUT", <<"/">>, HTTP, h, <<"x", "nl">>) :
          h \in {<<"nl">>, <<"cr", "nl", "x", "cr">>, <<"nl", "x", ":", "nl", "cr">>,
                 Line("x", <<"sp", "st", ":", "sp">>) \o Line("x", <<>>) \o Line("X", <<"cr">>)}}
  \cup {Message("POST", <<"/", "?", "x", "=", "&", "x", "&", "=", "st", "&", "x", "=", "x", "=">>,
                HTTP, <<"cr">>, b) : b \in {<<"x">>, <<"nl", "x", "nl", "nl">>, <<"nl">>}}
  \cup {Message("PATCH", <<"/">>, HTTP, <<"cr">>, <<>>),
        Message("GET", <<"/">>, <<"HTTP/1.0">>, <<"cr">>, <<>>),
        <<"GET", "nl", "/", "cr", "nl", "cr", "nl">>,
        <<"nl", "PUT", "cr", "nl", "/", "cr", "nl", "cr", "nl">> \o HTTP
          \o <<"sp", "x", ":", "x", "nl", "st", ":", "st">>}

MCUnit == UNION {{s[i] : i \in DOMAIN s} : s \in RouteFiles \cup PortFiles \cup MCMessages}
          \cup BlockUnits \cup QuoteUnits

MCDirectory == {<<"/", "www">>}
MCLower == [w \in {"HTML"} |-> "html"]
MCNumber == [w \in {"80", "81", "40000", "65616", "0", "99999999999"} |->
  CASE w = "80" -> 80 [] w = "81" -> 81 [] w = "40000" -> 40000
    [] w = "65616" -> 65616 [] w = "0" -> 0 [] OTHER -> NONE]
=============================================================================
