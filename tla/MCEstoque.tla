------------------------------ MODULE MCEstoque ------------------------------
(***************************************************************************)
(* Instances of Estoque for TLC.                                           *)
(***************************************************************************)
EXTENDS EstoqueRefino, EstoqueContas, TLC

CONSTANTS p1, p2, c1, c2

F(cliente, itens, acao) == [cliente |-> cliente, itens |-> itens, acao |-> acao]
I(peca, quantidade) == [peca |-> peca, quantidade |-> quantidade]

\* Two forms for the same parts in opposite orders, one with a mail to send (c1 has
\* an address, c2 has none).
FormulariosDistintos ==
  { F(c1, <<I(p1, 2), I(p2, 1)>>, "enviar"), F(c2, <<I(p2, 1), I(p1, 1)>>, "visualizar") }

\* The same, one with no address to mail to, and the form that a missing choice
\* makes incomplete.
FormulariosEmDisputa ==
  { F(c1, <<I(p1, 2), I(p2, 1)>>, "enviar"), F(c2, <<I(p2, 1), I(p1, 1)>>, "enviar"),
    F(c1, <<I(Nenhum, 1)>>, "visualizar") }

\* The same part in two rows: nothing in the page prevents it.
FormulariosRepetidos ==
  { F(c1, <<I(p1, 2), I(p1, 2)>>, "visualizar"), F(c2, <<I(p2, 1)>>, "visualizar") }

EstoqueInicial == (p1 :> 3) @@ (p2 :> 2)

\* As much of p1 as one form takes: two that are granted at once reach the limit.
EstoqueEscasso == (p1 :> 2) @@ (p2 :> 2)

=============================================================================
