--------------------------- MODULE MockFilesystem ---------------------------
(***************************************************************************)
(* The in-memory entity store of src/src/mock_filesystem.cc, the only      *)
(* implementation of FilesystemInterface.  HandlerFactory creates ONE      *)
(* store, in a function-local static, and gives it to every CrudHandler,   *)
(* so all worker threads share it and nothing locks it.                    *)
(*                                                                         *)
(* Every member function is an operator on the value of data_.  The store  *)
(* is total here: data_[e][i] = NONE stands both for an entity type with   *)
(* no entry in the outer map and for an id with no entry in the inner one, *)
(* which no member function tells apart.                                   *)
(***************************************************************************)
EXTENDS Integers, FiniteSetsExt

CONSTANTS
  Entity,     \* entity type names ("Shoes", "Books")
  Id,         \* the id strings a path or the store may hold, numeric or not
  Data,       \* payloads
  INT_MAX,    \* std::numeric_limits<int>::max()
  stoi,       \* stoi[i]: std::stoi of the string i, 0 where it throws
  to_string,  \* to_string[n]: std::to_string of the integer n
  NONE        \* no value

ASSUME IntMaxAssumption == INT_MAX \in Nat \ {0}

ASSUME NoneAssumption == NONE \notin Data \cup Id

(* std::stoi reads back what std::to_string printed.  It also accepts      *)
(* strings to_string never prints ("1x", "01"): stoi is not injective.     *)
ASSUME NumeralAssumption ==
  /\ stoi \in [Id -> Int]
  /\ to_string \in [1..INT_MAX -> Id]
  /\ \A n \in 1..INT_MAX : stoi[to_string[n]] = n

Store == [Entity -> [Id -> Data \cup {NONE}]]

reset == [e \in Entity |-> [i \in Id |-> NONE]]

entity_exists(d, e, i) == d[e][i] # NONE

write_entity(d, e, i, v) == [d EXCEPT ![e][i] = v]

(* Throws std::runtime_error when the entity does not exist: callers that  *)
(* can meet that case test entity_exists themselves, as the throw does.    *)
read_entity(d, e, i) == d[e][i]

(* The store after delete_entity; its result, true or false, is            *)
(* entity_exists(d, e, i).                                                 *)
delete_entity(d, e, i) == [d EXCEPT ![e][i] = NONE]

list_entity_ids(d, e) == {i \in Id : d[e][i] # NONE}

used_ids(d, e) == {stoi[i] : i \in list_entity_ids(d, e)} \cap 1..INT_MAX

(* The candidates that next_entity_id has left to try.  When there is none *)
(* it throws std::overflow_error.                                          *)
free_ids(d, e) == (1..INT_MAX) \ used_ids(d, e)

next_entity_id(d, e) == to_string[Min(free_ids(d, e))]

(* The ids next_entity_id can return. *)
Numeral == {to_string[n] : n \in 1..INT_MAX}
=============================================================================
