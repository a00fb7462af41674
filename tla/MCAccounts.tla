----------------------------- MODULE MCAccounts -----------------------------
(* Small instances of Accounts for TLC. *)
EXTENDS Accounts, TLC

CONSTANTS u1, u2, u3, bob, Bob, ann

MCFold(n) == IF n = Bob THEN bob ELSE n
MCFirstName == (u1 :> ann) @@ (u2 :> bob)

\* u1 is logged in, u2 has a session of an app.
MCFirstTokens == << <<u1, "none">>, <<u2, "live">> >>

Ask(kind) == [NoBody EXCEPT !.kind = kind]
Update(u, role, suspend) ==
  [Ask("update") EXCEPT !.user = u, !.role = role, !.suspend = suspend]

\* Two administrators who act on each other; one who may register.
MCInputs ==
  {[Ask("login") EXCEPT !.user = u2], Ask("refresh"), Update(u1, "user", "on"),
   Update(u2, "user", ""), Update(u2, "", "on"), Update(u2, "", "off"),
   Update(u2, "root", ""), [Ask("visit") EXCEPT !.lane = "sandbox"]}

MCInputsOthers ==
  {[Ask("register") EXCEPT !.user = u3, !.name = Bob], [Ask("profile") EXCEPT !.name = Bob],
   Ask("profile"), Ask("password"), Ask("settings")}

MCAllInputs == MCInputs \cup MCInputsOthers
Symmetry == Permutations(Requests)
=============================================================================
