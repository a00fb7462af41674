----------------------------- MODULE MCPresence -----------------------------
(* Small instances of Presence for TLC. *)
EXTENDS Presence, TLC

CONSTANTS c1, c2, w1, w2

\* Each channel is in a workspace of its own.
MCWorkspaceOf == (c1 :> w1) @@ (c2 :> w2)
=============================================================================
