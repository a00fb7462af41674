------------------------------ MODULE MCBilling ------------------------------
(* Small instances of Billing for TLC. *)
EXTENDS Billing, TLC

\* The free plan, and a paid one that is highlighted.
MCCatalog ==
  (1 :> [exists |-> TRUE, is_active |-> TRUE, is_highlighted |-> FALSE,
         price_cents |-> 0, stripe_price_id |-> FALSE])
  @@ (2 :> [exists |-> TRUE, is_active |-> TRUE, is_highlighted |-> TRUE,
            price_cents |-> 25, stripe_price_id |-> TRUE])

Symmetry == Permutations(Requests)
=============================================================================
