-------------------------------- MODULE MCHub --------------------------------
(* Small instances of Hub for TLC. *)
EXTENDS Hub, TLC

CONSTANTS c1, c2, c3, u1, u2, i1, chA

\* Two clients of one user and one of another, in one channel.
MCUserOf == (c1 :> u1) @@ (c2 :> u1) @@ (c3 :> u2)
MCIPOf == (c1 :> i1) @@ (c2 :> i1) @@ (c3 :> i1)
MCChannelOf == (c1 :> chA) @@ (c2 :> chA) @@ (c3 :> chA)

\* Two clients of one user, in one channel.
MCUserOfPair == (c1 :> u1) @@ (c2 :> u1)
MCIPOfPair == (c1 :> i1) @@ (c2 :> i1)
MCChannelOfPair == (c1 :> chA) @@ (c2 :> chA)

Symmetry == Permutations({c1, c2})
=============================================================================
