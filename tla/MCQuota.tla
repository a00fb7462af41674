------------------------------- MODULE MCQuota -------------------------------
(* Small instances of Quota for TLC. *)
EXTENDS Quota, TLC

CONSTANTS u1, a1, a2, a3, a4, a5

\* An owner with two apps, who may have three.
MCFirstApps == (a1 :> u1) @@ (a2 :> u1) @@ (a3 :> NoUser) @@ (a4 :> NoUser)
               @@ (a5 :> NoUser)

\* The app a1 has the slug of a5 followed by "-sandbox".
MCSlug == [x \in {a1, a2, a3, a4, a5} \X {"live", "sandbox"} |->
             IF x = <<a5, "sandbox">> THEN <<a1, "live">> ELSE x]

starter == [messages_limit |-> 1, video_minutes_limit |-> 1, max_apps |-> 3,
            video_calls_enabled |-> TRUE, webhooks_enabled |-> FALSE]
growth == [messages_limit |-> 1, video_minutes_limit |-> 1, max_apps |-> 2,
           video_calls_enabled |-> TRUE, webhooks_enabled |-> TRUE]
MCPlans == {starter, growth}

Symmetry == Permutations(Requests) \cup Permutations({a3, a4})
=============================================================================
