--------------------------- MODULE TransferLimits ---------------------------
(***************************************************************************)
(* What uploads and downloads share: the object, how often a request is    *)
(* tried, and the bounds on the network.                                   *)
(***************************************************************************)
EXTENDS AesCtr

CONSTANTS
    Size,               \* bytes of the object
    UploadAttempts,     \* retryMaxAttempts of the client that uploads
    DownloadAttempts,   \* and of the one that downloads
    ChunkSizes,         \* bytes the transport may move at a time
    MaxGarbled          \* bound: bytes spoilt on the wire

ASSUME TransferAssumption ==
    /\ Size \in Nat \ {0} /\ UploadAttempts \in Nat \ {0} /\ DownloadAttempts \in Nat \ {0}
    /\ ChunkSizes \subseteq Nat \ {0} /\ MaxGarbled \in Nat
    /\ (IV % Wrap) + (Size \div Block) < Wrap     \* the counter does not wrap

Text == [i \in 1 .. Size |-> Byte(i)]
=============================================================================
