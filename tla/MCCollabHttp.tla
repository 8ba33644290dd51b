---------------------------- MODULE MCCollabHttp ----------------------------
(* Small instances of CollabHttp for TLC. *)
EXTENDS CollabHttp

MCBounds ==
  { [publishes |-> 1, breaks |-> 1, closes |-> 1, delays |-> 0, mints |-> 2],
    [publishes |-> 1, breaks |-> 1, closes |-> 0, delays |-> 1, mints |-> 3] }
=============================================================================
