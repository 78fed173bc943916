------------------------------- MODULE MCTaxes -------------------------------
(* Taxes with the requests and the taxpayers interchangeable.              *)
EXTENDS Taxes, TLC

Symmetry == Permutations(Request) \cup Permutations(Taxpayer)
===============================================================================
