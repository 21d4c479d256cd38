--------------------------- MODULE MCWinHttpClient ---------------------------
(* One request with bodies of up to two pieces.                            *)
EXTENDS WinHttpClient
=============================================================================
