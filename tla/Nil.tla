-------------------------------- MODULE Nil --------------------------------
(***************************************************************************)
(* Go's nil, and a pointer that may be nil.                                *)
(***************************************************************************)
CONSTANT NULL

Optional(S) == S \union {NULL}
=============================================================================
