------------------------------- MODULE MCBoot -------------------------------
(* Boot with a mapping of four bytes, a jump of two, and an int that holds *)
(* the numbers up to 1023.                                                 *)
EXTENDS Boot

Use(v) == [key |-> "SNITCHASER_USE", val |-> v]
Rate(v) == [key |-> "SNITCHASER_SAMPLING", val |-> v]
Rest == [key |-> "OTHER", val |-> <<1>>]

(* Rates at the bounds, one that is negative and one that does not fit in  *)
(* an int, and variables that are there twice.                             *)
MCEnvs ==
    {<<>>, <<Use(<<0>>), Rest>>, <<Use(<<0, 0>>)>>, <<Rate(<<0>>)>>,
     <<Rate(<<0, 1, 2>>), Use(<<1>>)>>, <<Rate(<<1, 0, 0, 0>>), Use(<<0>>), Use(<<1>>)>>,
     <<Rest, Rate(<<Minus, 1>>)>>, <<Rate(<<2, 0, 5, 0>>)>>,
     <<Rate(<<0>>), Rate(<<5, 0, 0>>), Rest>>}

SampledOut == {<<Rate(<<0>>)>>}

(* Nothing, a byte behind the patch of either entry, and one inside. *)
MCRelocs == {{}, {3}, {1}}

MCSelections == {0, 11, 12, 499, 500, 999}
=============================================================================
