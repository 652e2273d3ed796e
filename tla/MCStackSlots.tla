---------------------------- MODULE MCStackSlots ----------------------------
(***************************************************************************)
(* Two stacks; the zones row, a token in each, and an OCI row, a key of two *)
(* parts in one, whose user holds three keys at most.                       *)
(***************************************************************************)
EXTENDS StackSlots, TLC

MCStacks == <<"dns", "apps">>
MCRows ==
  {[on |-> <<"dns", "apps">>, quota |-> 4, itself |-> FALSE],
   [on |-> <<"apps", "apps">>, quota |-> 3, itself |-> TRUE]}
=============================================================================
