---------------------------- MODULE MCLifecycle ----------------------------
(* Days stand for months: a council's word lies one to three before the     *)
(* tender, a budget line up to two.                                         *)
EXTENDS Pages

MCLag == [council_mention |-> <<1, 3>>, budget_line |-> <<0, 2>>, order_plan |-> <<0, 1>>,
          prespec |-> <<0, 1>>, bid_notice |-> <<0, 0>>, award |-> <<0, 0>>]
=============================================================================
