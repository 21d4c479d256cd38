------------------------------ MODULE Transfer ------------------------------
(***************************************************************************)
(* An object is uploaded, in one piece or in parts, and then downloaded:   *)
(* the round trip through both directions' streams, with the encryption    *)
(* client on both sides, on neither, or on one.                            *)
(***************************************************************************)
EXTENDS Upload, Download

Init == UploadInit /\ DownloadInit

(* The server joins the parts; nothing else is left of the upload. *)
CompleteUpload ==
    /\ Uploaded /\ object = NoVersion
    /\ object' = [bytes |-> FlattenSeq(stored),
                  envelope |-> IF plan.encrypted THEN "ours" ELSE "none"]
    /\ plan' = [plan EXCEPT !.size = Size]
    /\ acked' = {} /\ compared' = {} /\ stored' = [p \in 1 .. Size |-> <<>>]
    /\ phase' = "complete" /\ part' = 1 /\ body' = NewBody("memory") /\ span' = NoSpan
    /\ tee' = NewTee /\ wire' = <<>> /\ tries' = 0 /\ spoilt' = FALSE /\ outcome' = "none"
    /\ garbled' = 0
    /\ UNCHANGED <<call, step, attempts, served, coming, chain, arrived, result>>

Next ==
    \/ UploadNext /\ UNCHANGED downloadVars
    \/ CompleteUpload
    \/ DownloadNext /\ UNCHANGED uploadVars

vars == <<uploadVars, downloadVars>>

Spec == Init /\ [][Next]_vars
=============================================================================
