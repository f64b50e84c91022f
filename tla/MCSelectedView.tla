-------------------------- MODULE MCSelectedView --------------------------
(***************************************************************************)
(* Model-checking instances of SelectedView.                                *)
(***************************************************************************)
EXTENDS SelectedView

=============================================================================
