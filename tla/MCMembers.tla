----------------------------- MODULE MCMembers -----------------------------
(* Small instances of Members for TLC. *)
EXTENDS Members, TLC

CONSTANTS u1, u2, u3, s1, s2, n1, n2

\* u1 owns the workspace, u2 is an administrator, u3 is not in it.
MCFirstRoles == (u1 :> "owner") @@ (u2 :> "admin") @@ (u3 :> "none")

Ask(kind, u) == [NoBody EXCEPT !.kind = kind, !.actor = u]
Manage(kind, u, v, role) == [Ask(kind, u) EXCEPT !.target = v, !.role = role]

MCInputs ==
  {[Ask("createWorkspace", u3) EXCEPT !.name = s2],
   Ask("createWorkspace", u3), [Ask("createWorkspace", u2) EXCEPT !.name = s1],
   [Ask("createWorkspace", u2) EXCEPT !.name = s2],
   Manage("add", u1, u3, "admin"), Manage("add", u2, u3, "admin"),
   Manage("add", u1, u3, "owner"),
   Manage("remove", u2, u1, ""), Manage("remove", u2, u3, ""), Manage("remove", u1, u2, ""),
   Manage("role", u2, u1, "member"), Manage("role", u1, u2, "moderator"),
   Manage("role", u1, u3, "admin"),
   [Ask("createChannel", u2) EXCEPT !.name = n2, !.readOnly = TRUE],
   [Ask("createChannel", u3) EXCEPT !.name = n2],
   [Ask("createChannel", u2) EXCEPT !.name = n1],
   [Ask("join", u3) EXCEPT !.channel = 1], [Ask("leave", u3) EXCEPT !.channel = 1],
   [Ask("leave", u2) EXCEPT !.channel = 1], [Ask("join", u2) EXCEPT !.channel = 2],
   [Ask("leave", u2) EXCEPT !.channel = 2]}

Symmetry == Permutations(Requests)
=============================================================================
