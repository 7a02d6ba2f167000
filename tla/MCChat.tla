------------------------------- MODULE MCChat -------------------------------
(* Small instances of Chat for TLC: a screen of each party. *)
EXTENDS Chat, TLC

CONSTANTS c1, p1, s1, s2

OneEach == (s1 :> c1) @@ (s2 :> p1)

OneOnly == s2 :> p1

\* Bound: one history request at a time; requests of two screens do not touch.
OneRequest == \A s, t \in Screens : fetch[s].step # "none" /\ fetch[t].step # "none" => s = t

Perms == Permutations(Messages)
=============================================================================
