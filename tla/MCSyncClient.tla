---------------------------- MODULE MCSyncClient ----------------------------
(* A small synchronous client: one operation with a token, one without.    *)
EXTENDS SyncClient

MCVerifyErrors    == {ClientError("BucketNameInvalid")}
MCSignErrors      == {CredentialsError("FetchError")}
MCTransportErrors == {TransportError("SslError")}
MCReplies == {[status |-> 200, fault |-> "none"], [status |-> 200, fault |-> "crc"]}
MCSkews   == {0, 1000}
=============================================================================
