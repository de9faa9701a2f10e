-------------------------- MODULE MCSubscriptions --------------------------
(***************************************************************************)
(* A small instance of Subscriptions: one subscriber that wants one kind   *)
(* of the two.  The rows come in a fixed order in which every page of two  *)
(* has a row the subscriber wants.                                         *)
(***************************************************************************)
EXTENDS Subscriptions

CONSTANTS s1, k1, k2

OneKind == [s \in Subs |-> {k1}]

Pattern == <<k1, k2, k1>>
OnPattern == \A p \in DOMAIN log : log[p] = Pattern[p]

MCInit == Init /\ OnPattern /\ Len(log) = History
MCNext == Next /\ OnPattern'

MCSpec == MCInit /\ [][MCNext]_vars /\ Fairness
=============================================================================
