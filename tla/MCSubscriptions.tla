--------------------------- MODULE MCSubscriptions ---------------------------
(* Two attempts at dunning, a day and two days apart.                       *)
EXTENDS Subscriptions

MCDunning == <<1, 2>>
=============================================================================
