---- MODULE MCFreshness ----
(* One checkout with one session and one commit to come. *)
EXTENDS Freshness

====
