------------------------------- MODULE MCUpload -------------------------------
(* An instance of Upload: upload.cfg gives the bounds. *)
EXTENDS Upload
=============================================================================
