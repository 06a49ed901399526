----------------------------- MODULE MCRegistros -----------------------------
(* Instances of Registros for TLC. *)
EXTENDS Registros, TLC

\* A notice needs its own table and that of the addresses.
GruposPequenos == {{"clientes", "manutencoes"}, {"fornecedores", "solicitacoes"}}

Simetria == Permutations(Sessoes) \cup Permutations(Dados)

=============================================================================
