--------------------------- MODULE MCAsyncClient ---------------------------
(* A small asynchronous client: one operation with a token, one without.   *)
EXTENDS AsyncClient

MCVerifyErrors    == {ClientError("BucketNameInvalid")}
MCSignErrors      == {CredentialsError("FetchError")}
MCTransportErrors == {TransportError("Timeout")}
MCReplies == {[status |-> 200, fault |-> "none"], [status |-> 200, fault |-> "crc"]}
MCSkews   == {0, 1000}
=============================================================================
