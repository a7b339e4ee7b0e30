---------------------------- MODULE MCSyncOpening ----------------------------
(* A small instance of SyncOpening. *)
EXTENDS SyncOpening

CONSTANTS c1, c2    \* two goroutines

\* a rate limit, a key that is missing, a token the server does not take, a
\* server that cannot be reached, one that does so no more, a locked database
Messages == {{"429", "auth"}, {"items key"}, {"invalid sync token", "invalid", "token"},
             {"giving up", "connection"}, {"database is locked"}}
=============================================================================
