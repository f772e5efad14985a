------------------------------ MODULE MCSession ------------------------------
(***************************************************************************)
(* Small instances of Session.                                             *)
(***************************************************************************)
EXTENDS Session, TLC

CONSTANTS t1, t2, t3

Req(hdr, term, body, cl, n, valid, throws) ==
  [hdr |-> hdr, term |-> term, body |-> body, cl |-> cl,
   content_length |-> n, valid |-> valid, throws |-> throws]

Plain == Req(1, "crlf", 0, "none", 0, TRUE, FALSE)
WithBody == Req(1, "crlf", 2, "num", 2, TRUE, FALSE)

(* What a client sends as it should, its header in one piece; some of it   *)
(* is rejected, or makes the handler throw.                                *)
GoodShapes ==
  {Plain, WithBody, Req(1, "crlf", 0, "num", 0, TRUE, FALSE),
   Req(1, "crlf", 0, "bad", 0, TRUE, FALSE),
   Req(1, "crlf", 2, "num", 2, FALSE, FALSE),
   Req(1, "crlf", 0, "none", 0, TRUE, TRUE)}

KeepAliveShapes == {Plain, WithBody}

(* Anything, in any number of pieces. *)
AnyShapes ==
  {Req(2, "crlf", 0, "none", 0, TRUE, FALSE), Req(1, "lf", 0, "none", 0, TRUE, FALSE),
   Req(1, "crlf", 1, "num", 2, TRUE, FALSE)}

Symmetry == Permutations(Thread)

SplitShapes == {Req(2, "crlf", 0, "none", 0, TRUE, FALSE)}
=============================================================================
