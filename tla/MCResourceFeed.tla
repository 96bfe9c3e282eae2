---------------------------- MODULE MCResourceFeed ----------------------------
(* One run and one contract whose rows interleave, with two lost sockets,   *)
(* restarts or page loads and one failing request.                          *)
EXTENDS ResourceFeed, TLC
=============================================================================
