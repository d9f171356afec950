------------------------------ MODULE MCChartStores ------------------------------
(****************************************************************************)
(* Two documents of one state each, of two targets; they come in time, from *)
(* before the window and from the future.                                   *)
(****************************************************************************)
EXTENDS ChartStores

MCReports == [d |-> {<<>>, [x |-> Warning], [x |-> Failing]}, e |-> {[y |-> Warning]}]
MCTarget == [x |-> "t", y |-> "u"]
MCLags == {-1, 0, 2}

=============================================================================
