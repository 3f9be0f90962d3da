----------------------------- MODULE MCAsyncInput -----------------------------
(* AsyncInput with two different lines besides the empty one. *)
EXTENDS AsyncInput

MCLine == {"", "/begin"}
MCEmpty == ""
=============================================================================
