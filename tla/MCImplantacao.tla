--------------------------- MODULE MCImplantacao ---------------------------
(***************************************************************************)
(* Two runs of the script, each with its server, and one user.  Runs are   *)
(* interchangeable, and no liveness is checked, so symmetry is sound.      *)
(***************************************************************************)
EXTENDS Implantacao, TLC

Simetria == Permutations(Lancamentos)

=============================================================================
