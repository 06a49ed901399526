--------------------------- MODULE MCAutenticacao ---------------------------
(***************************************************************************)
(* Instances of Autenticacao for TLC: an active user, and an e-mail that   *)
(* is free or that of an inactive one.                                     *)
(***************************************************************************)
EXTENDS Autenticacao, TLC

CONSTANTS e1, e2, x1

U(email, ativo) == [email |-> email, senha |-> x1, ativo |-> ativo]

TabelasIniciais == {{U(e1, TRUE)}, {U(e1, TRUE), U(e2, FALSE)}}

Simetria ==
  Permutations(Navegadores) \cup Permutations(Atendentes) \cup Permutations(Arquivos)

=============================================================================
