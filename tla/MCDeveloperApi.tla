--------------------------- MODULE MCDeveloperApi ---------------------------
(* Small instances of DeveloperApi for TLC. *)
EXTENDS DeveloperApi, TLC

CONSTANTS i1, kl, ks, x1, x2, x3, n1, n2

MCLane == (kl :> "live") @@ (ks :> "sandbox")
MCDefault == (x1 :> n1) @@ (x2 :> n2) @@ (x3 :> n2)

Body(kind) == [NoBody EXCEPT !.kind = kind]
Provision(x, e, u) == [Body("provision") EXCEPT !.ext = x, !.email = e, !.username = u]

\* Two external ids with one e-mail address, one of them with the user name
\* of the owner, a new channel; messages of the owner and of
\* the second, and a session.
MCInputs ==
  LET send == [Body("message") EXCEPT !.ext = x1]
  IN {Provision(x2, n2, n2), [Provision(x3, n2, n1) EXCEPT !.idem = i1],
      [Body("channel") EXCEPT !.name = n2],
      [send EXCEPT !.channel = 1, !.idem = i1],
      [send EXCEPT !.channel = 2], [send EXCEPT !.channel = 2, !.ext = x2, !.idem = i1],
      [Body("session") EXCEPT !.ext = x1, !.channel = 2]}

Symmetry == Permutations(Requests)
=============================================================================
