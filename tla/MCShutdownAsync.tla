--------------------------- MODULE MCShutdownAsync ---------------------------
(* ShutdownAsync with a poll thread and HTTP threads, for TLC. *)
EXTENDS ShutdownAsync

CONSTANTS poll, http1, http2

TwoCallers   == {poll, http1}
ThreeCallers == {poll, http1, http2}
OkOrFailed   == {0, 1}
==============================================================================
