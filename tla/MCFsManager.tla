----------------------------- MODULE MCFsManager -----------------------------
(* Three client threads, so that one may hold rqmtx and two wait for it. *)
EXTENDS FsManager

=============================================================================
