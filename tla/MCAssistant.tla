----------------------------- MODULE MCAssistant -----------------------------
(* Two players of one name; a shorter query finds them and a third one.     *)
EXTENDS Assistant

CONSTANTS p1, p2, p3, ana, anahi, luz, w1, w2

Say(button, command, arg) == [button |-> button, command |-> command, arg |-> arg]

(* Aliases, a button, a query, free text with and without a known word, and *)
(* a command that does not exist.                                          *)
MCMessage ==
    {Say(None, "apodo", n) : n \in Name} \cup
    {Say(None, "apodoBorrar", n) : n \in {ana, luz}} \cup
    {Say("challenge_accept", None, w1), Say(None, "ranking", w1),
     Say(None, None, w1), Say(None, None, w2), Say(None, "otro", w1)}

MCWithin == [n \in Name |-> IF n = ana THEN {ana, anahi} ELSE {n}]
MCDisplayName == [p \in Player |-> IF p = p3 THEN anahi ELSE ana]
=============================================================================
