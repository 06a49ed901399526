---------------------------- MODULE EstoqueRefino ----------------------------
(***************************************************************************)
(* servicos.php, served by a single worker and with forms that name each   *)
(* part once, implements EstoqueAbstrato: the service takes effect at its  *)
(* INSERT, so the rows already taken by the request that is still running  *)
(* count as being on the shelf; if it dies there, they are lost.           *)
(***************************************************************************)
EXTENDS Estoque

\* What the first n rows of a form use of each part (a part is in one row).
Parcial(form, n) ==
  [p \in Pecas |->
     IF \E i \in 1..n : form.itens[i].peca = p
     THEN Quantidade(form.itens[CHOOSE i \in 1..n : form.itens[i].peca = p])
     ELSE 0]

Uso(form) == Parcial(form, Len(form.itens))

\* The rows already taken by the request in its loop of UPDATEs, if any.
EmCurso(p) ==
  IF \E a \in Atendentes : fase[a] = "baixa"
  THEN LET a == CHOOSE b \in Atendentes : fase[b] = "baixa"
       IN Parcial(pedido[a].form, linha[a] - 1)[p]
  ELSE 0

Saldo == [p \in Pecas |-> estoque[p] + EmCurso(p)]

Registrados == {[numero |-> r.pedido, uso |-> Uso(r.form)] : r \in servicos}

\* The sheet of a part is the form that pecas.php filled with its row.
Folhas ==
  [s \in Editores |-> IF edicao[s] = Nenhum THEN Nenhum ELSE edicao[s].peca]

Abstrato == INSTANCE EstoqueAbstrato WITH
  Usos <- {Uso(f) : f \in Formularios}, SemFolha <- Nenhum,
  saldo <- Saldo, registrados <- Registrados, folhas <- Folhas

\* The sequence of SELECT, UPDATEs and INSERT of a service is seen as one step: it
\* is recorded with all its parts, or it dies and at most some of them are lost, each
\* with its whole quantity; and pecas.php moves only the part of a form it loaded.
ServicoAtomico == Abstrato!Spec

=============================================================================
