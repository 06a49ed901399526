---------------------------- MODULE MCOrcamentos ----------------------------
(* Instances of Orcamentos for TLC. *)
EXTENDS Orcamentos, TLC

CONSTANTS p1, p2, p9, c1, c2

F(cliente, itens, maoObra, desconto, acao) ==
  [cliente |-> cliente, itens |-> itens, maoObra |-> maoObra, desconto |-> desconto,
   acao |-> acao]
I(peca, quantidade) == [peca |-> peca, quantidade |-> quantidade]

\* Two parts whose prices may differ, one part behind an id that this database has
\* not, with a discount larger than the whole, and a form without parts (c1 has an
\* e-mail, c2 has none).
FormulariosVariados ==
  { F(c1, <<I(p1, 2), I(p2, 1)>>, 3, 1, "enviar"), F(c2, <<I(p9, 1), I(p2, 0)>>, 0, 9, "visualizar"),
    F(c1, <<>>, 2, 0, "enviar") }

Simetria == Permutations(Sessoes)

=============================================================================
