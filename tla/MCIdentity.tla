------------------------------ MODULE MCIdentity ------------------------------
(* Identity with the requests, addresses and browsers interchangeable.            *)
EXTENDS Identity, TLC

Symmetry == Permutations(Request) \cup Permutations(Agent) \cup Permutations(Ip)
===============================================================================
