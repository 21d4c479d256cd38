----------------------------- MODULE ErrorModel -----------------------------
(***************************************************************************)
(* The std::error_code values of the SDK and the conditions they compare   *)
(* equal to (src/error/*.cpp).  An error is a pair <<category, code>>; a   *)
(* server error's code is the HTTP status, plus 10000 once the clock-skew  *)
(* handler has declared the reply worth another try.                       *)
(***************************************************************************)
EXTENDS Integers

NoError == <<"none", 0>>

ClientError(code)      == <<"client", code>>
CredentialsError(code) == <<"credentials", code>>
SignerError(code)      == <<"signer", code>>
TransportError(code)   == <<"transport", code>>

RetryableServerBase == 10000
ServerError(status)          == <<"server", status>>
RetryableServerError(status) == <<"server", RetryableServerBase + status>>

InvalidArgumentCodes == {"ArgumentInvalid", "ArgumentRequired", "EndpointInvalid",
                         "EndpointRegionNull", "BucketNameInvalid", "ObjectNameInvalid",
                         "RequestMethodEmpty", "AccountIdNull", "HostLabelTooLong"}

TransportCodes == {"ConnectionFailed", "DnsError", "SslError", "Timeout", "SendRecvError",
                   "PartialTransfer", "Canceled", "NotSupported", "Unknown"}

RetryableTransportCodes == {"ConnectionFailed", "DnsError", "Timeout", "SendRecvError",
                            "PartialTransfer"}

\* The statuses worth another try besides the server's own failures.
RetryableStatuses == (500..599) \union {401, 408, 429}

(***************************************************************************)
(* The conditions.  An error of the generic category, such as the curl     *)
(* multi transport's operation_canceled, satisfies none of them.           *)
(***************************************************************************)
IsRetryable(e) ==
    \/ e[1] = "client"      /\ e[2] = "CrcMismatch"
    \/ e[1] = "credentials" /\ e[2] = "FetchError"
    \/ e[1] = "transport"   /\ e[2] \in RetryableTransportCodes
    \/ e[1] = "server"      /\ (e[2] >= RetryableServerBase \/ e[2] \in RetryableStatuses)

IsCanceled(e) ==
    \/ e[1] = "client"    /\ e[2] = "OperationCanceled"
    \/ e[1] = "transport" /\ e[2] = "Canceled"

IsNonRetryable(e) ==
    \/ e[1] = "client"    /\ e[2] \in {"RequestDisable", "OperationNotSupported",
                                        "ReadDataFail", "EncryptionFailure"}
    \/ e[1] = "serde"     /\ e[2] = "DeserializationFailed"
    \/ e[1] = "transport" /\ e[2] \in {"SslError", "NotSupported", "Unknown"}
    \/ e[1] = "server"    /\ e[2] \in (400..499) \ RetryableStatuses

IsAuthenticationError(e) ==
    \/ e[1] = "credentials" /\ e[2] \in {"Empty", "ProviderNull"}
    \/ e[1] = "signer"      /\ e[2] = "SignFailed"

IsInvalidArgument(e) == e[1] = "client" /\ e[2] \in InvalidArgumentCodes
=============================================================================
