------------------------------ MODULE MCHotPath ------------------------------
(***************************************************************************)
(* HotPath for TLC: the probabilities of the model's distances.            *)
(***************************************************************************)
EXTENDS HotPath

\* 0.5 + 0.4 * (1 - exp(-excess / 2)) in cents: a probability_cap of 0.90 and a
\* probability_scale_bps of 2
Probabilities == <<66, 75, 81, 85, 87, 88, 89, 89, 90>>
=============================================================================
