--------------------------- MODULE MCFileDownload ---------------------------
(* A small object, replaced by a smaller and then by a larger one.         *)
EXTENDS FileDownload

MCSizes  == <<3, 2, 4>>
MCRanges == {<<0, -1>>, <<1, -1>>, <<0, 1>>, <<1, 2>>}
=============================================================================
