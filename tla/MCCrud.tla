------------------------------- MODULE MCCrud -------------------------------
(***************************************************************************)
(* Small instances of CrudHandler and CrudRaces.  Ids "1" to "3" are what  *)
(* to_string prints; "2x" is a string that std::stoi reads as 2 and        *)
(* to_string never prints; "x" makes it throw.                             *)
(***************************************************************************)
EXTENDS CrudRaces, TLC

CONSTANTS c1, c2

MCId == {"1", "2", "3", "2x", "x"}
MCstoi == [i \in MCId |-> CASE i = "1" -> 1
                            [] i \in {"2", "2x"} -> 2
                            [] i = "3" -> 3
                            [] OTHER -> 0]
MCto_string == [n \in 1..INT_MAX |-> CASE n = 1 -> "1" [] n = 2 -> "2" [] n = 3 -> "3"]

(* A payload has a name and a tag, "" where the field is absent. *)
MCData == {"red", "blue"}
MCField == {"", "r"}
MCextract == [v \in MCData |-> [name |-> IF v = "red" THEN "r" ELSE "", tag |-> "r"]]
MCfind == [v \in MCField |-> [f \in MCField |-> f = "" \/ f = v]]

Ask(m, e, i, v, n) ==
  [method |-> m, body |-> v, name |-> n, tag |-> NONE,
   path |-> [prefix |-> TRUE, segs |-> IF i = "" THEN <<e>> ELSE <<e, i>>]]

Bad(m, p, s) ==
  [method |-> m, body |-> "red", name |-> NONE, tag |-> NONE,
   path |-> [prefix |-> p, segs |-> s]]

Post(e, V) == {Ask("POST", e, "", v, NONE) : v \in V}
Get(e, I) == {Ask("GET", e, i, "red", NONE) : i \in I}
Put(e, I, V) == {Ask("PUT", e, i, v, NONE) : i \in I, v \in V}
Delete(e, I) == {Ask("DELETE", e, i, "red", NONE) : i \in I}
List(e) == {Ask("GET", e, "", "red", NONE)}
Search(e) == {Ask("GET", e, "", "red", "r")}

(* Requests that are answered without the store, one for each reason. *)
Malformed ==
  {Bad("GET", FALSE, <<"Shoes">>), Bad("GET", TRUE, <<"", "1">>),
   Bad("GET", TRUE, <<"Shoes", "1", "">>), Bad("POST", TRUE, <<"Shoes", "1">>),
   Bad("PUT", TRUE, <<"Shoes">>), Bad("DELETE", TRUE, <<"Shoes", "">>),
   Bad("OTHER", TRUE, <<"Shoes", "1">>)}

(* Two clients that share a type: one asks anything, well formed or not,   *)
(* and the other everything that may conflict with it.                     *)
SharedRequests ==
  (c1 :> Post("Shoes", {"red"}) \cup Get("Shoes", {"1"})
           \cup Put("Shoes", {"1"}, {"blue"}) \cup Delete("Shoes", {"1"})
           \cup Search("Shoes"))
  @@ (c2 :> Malformed \cup Post("Shoes", {"red"}) \cup Get("Shoes", {"1", "x"})
           \cup Put("Shoes", {"1", "2x"}, {"blue"}) \cup Delete("Shoes", {"1"})
           \cup List("Shoes") \cup Search("Shoes"))
=============================================================================
