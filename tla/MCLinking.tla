----------------------------- MODULE MCLinking -----------------------------
(***************************************************************************)
(* Three documents, with the references that the mapping of a notice, a    *)
(* prespec and an order plan can give them (g2b.py): a notice whose plan   *)
(* and prespec are known apart, a notice with another plan than the one    *)
(* its prespec is filed under, a plan that lists the notice it became.     *)
(***************************************************************************)
EXTENDS Linking

CONSTANTS d1, d2, d3, p1, p2, s1, n1

Refs(p, s, n, ns) == [plan |-> p, prespec |-> s, notice |-> n, notices |-> ns]
References(x, y, z) == [d \in Doc |-> CASE d = d1 -> x [] d = d2 -> y [] d = d3 -> z]

MCNumberings == {
  References(Refs(p1, NoNumber, NoNumber, {}), Refs(NoNumber, s1, NoNumber, {}), Refs(p1, s1, n1, {})),
  References(Refs(p1, NoNumber, NoNumber, {}), Refs(NoNumber, s1, NoNumber, {}), Refs(p2, s1, n1, {})),
  References(Refs(p1, NoNumber, NoNumber, {n1}), Refs(NoNumber, NoNumber, n1, {}), Refs(NoNumber, NoNumber, n1, {}))}
\* One document is processed again, once.
MCMaxVersion == [d \in Doc |-> IF d = d2 THEN 2 ELSE 1]
=============================================================================
