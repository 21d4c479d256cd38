------------------------ MODULE MCCurlMultiTransport ------------------------
(* Three senders, a pool of two handles, one failure of curl_easy_init.    *)
EXTENDS CurlMultiTransport
=============================================================================
