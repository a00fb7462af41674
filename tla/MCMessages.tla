----------------------------- MODULE MCMessages -----------------------------
(* Small instances of Messages for TLC. *)
EXTENDS Messages, TLC

CONSTANTS ann, bob, c1, c2, k1, k2, k3

MCRoles == (ann :> "member") @@ (bob :> "moderator")
MCNameOf(n) ==
  CASE n \in {"bob", "Bob"} -> bob [] n = "ann" -> ann [] OTHER -> NoUser
MCChannelRole ==
  (c1 :> [u \in Users |-> "none"]) @@ (c2 :> ((ann :> "none") @@ (bob :> "member")))
MCFirstMessages == <<[channel |-> c1, sender |-> bob], [channel |-> c2, sender |-> ann]>>

\* k3 was put when the limit was higher.
MCObject ==
  (k1 :> [owner |-> ann, size |-> 1]) @@
  (k2 :> [owner |-> bob, size |-> 1]) @@ (k3 :> [owner |-> ann, size |-> 3])

F(k, n) == [key |-> k, size |-> n]
Ask(kind, u, c) == [NoBody EXCEPT !.kind = kind, !.user = u, !.channel = c]

MCInputs ==
  {[Ask("send", ann, c1) EXCEPT !.names = <<"bob", "Bob", "bob">>, !.reply = 2],
   [Ask("send", bob, c2) EXCEPT !.reply = 2],
   [Ask("send", ann, c1) EXCEPT !.empty = TRUE],
   [Ask("send", ann, c1) EXCEPT !.empty = TRUE, !.files = <<F(k1, 1), F(k3, 3)>>],
   [Ask("attach", bob, c1) EXCEPT !.id = 1, !.files = <<F(k2, 1)>>],
   [Ask("read", ann, c1) EXCEPT !.id = 1],
   Ask("readAll", bob, c1)}

Symmetry == Permutations(Requests)
=============================================================================
