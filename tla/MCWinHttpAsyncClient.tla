------------------------ MODULE MCWinHttpAsyncClient ------------------------
(* Two requests, the second perhaps sent from the callback of the first.   *)
EXTENDS WinHttpAsyncClient
=============================================================================
