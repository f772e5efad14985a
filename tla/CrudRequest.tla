----------------------------- MODULE CrudRequest -----------------------------
(***************************************************************************)
(* The requests CrudHandler receives, what it reads off a path, and the    *)
(* responses it builds: the vocabulary that the handler (CrudHandler) and  *)
(* the service it is meant to provide (CrudApi) share.                     *)
(***************************************************************************)
EXTENDS MockFilesystem, Sequences

CONSTANTS
  Field,               \* values of the "name" and "tag" fields of a payload
  extract_json_field,  \* [Data -> [name : Field, tag : Field]], "" if absent
  find                 \* find[v][f]: string v contains string f

ASSUME FieldAssumption ==
  /\ NONE \notin Field
  /\ extract_json_field \in [Data -> [name : Field, tag : Field]]
  /\ find \in [Field -> [Field -> BOOLEAN]]

ASSUME EmptyAssumption == "" \notin Entity \cup Id

(***************************************************************************)
(* A path is what parse_entity_and_id_from_path looks at: whether it       *)
(* starts with the route prefix, and the segments between the slashes of   *)
(* the rest once the query and one leading slash are gone.  Splitting at   *)
(* '/' gives at least one segment; a segment may be empty.  More than      *)
(* three segments are rejected like three.                                 *)
(***************************************************************************)
EntityPart == Entity \cup {""}
IdPart == Id \cup {""}

Path == [prefix : BOOLEAN,
         segs : {<<e>> : e \in EntityPart} \cup (EntityPart \X IdPart)
                  \cup (EntityPart \X IdPart \X IdPart)]

(* HttpRequest::is_valid lets four methods through; handle_request is also *)
(* called directly, with any method ("OTHER").                             *)
Method == {"GET", "POST", "PUT", "DELETE", "OTHER"}

Filter == Field \cup {NONE}

Request == [method : Method, path : Path, body : Data,
            name : Filter, tag : Filter]

CONSTANTS
  Client,    \* connections, each with at most one request in progress
  Requests   \* Requests[c]: what client c may ask

ASSUME RequestsAssumption ==
  /\ Requests \in [Client -> SUBSET Request]
  /\ NONE \notin Request

has_id(p) == Len(p.segs) = 2 /\ p.segs[2] # ""

(* The bool parse_entity_and_id_from_path returns; its out parameters are  *)
(* segs[1], segs[2] and has_id.                                            *)
parse_entity_and_id_from_path(p) ==
  /\ p.prefix
  /\ Len(p.segs) < 3
  /\ p.segs[1] # ""

entity(r) == r.path.segs[1]
id(r) == r.path.segs[2]

(* handle_request answers these without calling the store. *)
BadRequest(r) ==
  \/ ~parse_entity_and_id_from_path(r.path)
  \/ r.method = "POST" /\ has_id(r.path)
  \/ r.method \in {"PUT", "DELETE"} /\ ~has_id(r.path)

filtered(r) == r.name # NONE \/ r.tag # NONE

(* The loop body of handle_list: does payload v pass both filters of r? *)
matches(r, v) ==
  /\ r.name # NONE => find[extract_json_field[v].name][r.name]
  /\ r.tag # NONE => find[extract_json_field[v].tag][r.tag]

(***************************************************************************)
(* Responses: the status code and the part of the body a client acts on, a *)
(* payload, the new id, or a list of ids.  handle_list sorts the ids; the  *)
(* sorted list of distinct strings is determined by the set of them, which *)
(* stands for it.                                                          *)
(***************************************************************************)
Response == [code : {200, 201, 400, 404, 500, 501}, data : Data \cup {NONE},
             id : Id \cup {NONE}, ids : SUBSET Id]

Status(code) == [code |-> code, data |-> NONE, id |-> NONE, ids |-> {}]
Payload(v) == [Status(200) EXCEPT !.data = v]
Created(i) == [Status(201) EXCEPT !.id = i]
Listing(S) == [Status(200) EXCEPT !.ids = S]
=============================================================================
