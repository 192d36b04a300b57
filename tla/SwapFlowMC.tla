------------------------------- MODULE SwapFlowMC -------------------------------
(* Two requests a form can show. *)
EXTENDS SwapFlow

MCForms == {1, 2}

(* The second costs twice the first. *)
MCRequirement == [f \in MCForms |-> f]
=============================================================================
