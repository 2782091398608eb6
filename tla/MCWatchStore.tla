---------------------------- MODULE MCWatchStore ----------------------------
(***************************************************************************)
(* An instance of WatchStore for TLC: two objects that have, one after the  *)
(* other, the same name.                                                   *)
(***************************************************************************)
EXTENDS WatchStore

CONSTANTS u1, u2, c1

MCUIDs == {u1, u2}
MCName == [u \in MCUIDs |-> "a"]
=============================================================================
