----------------------------- MODULE MCSyncCall -----------------------------
(* Two invocations of cb by fn itself, two on threads of their own.         *)
EXTENDS SyncCall
=============================================================================
