---------------------------- MODULE EstoqueContas ----------------------------
(***************************************************************************)
(* The books of Estoque: what each part lost, row by row, against what the *)
(* recorded services and the running requests account for.                 *)
(***************************************************************************)
EXTENDS Estoque, FiniteSetsExt

\* What each row of a form takes from part p.
Tirado(form, p) ==
  [i \in DOMAIN form.itens |->
     IF form.itens[i].peca = p THEN Quantidade(form.itens[i]) ELSE 0]

\* What its first n rows take.
Consumo(form, p, n) == SumFunctionOnSet(Tirado(form, p), 1..n)

ConsumoTotal(form, p) == Consumo(form, p, Len(form.itens))

\* What each running request has already taken, and all of them.
Tomado(p) ==
  [a \in Atendentes |->
     IF fase[a] = "baixa" THEN Consumo(pedido[a].form, p, linha[a] - 1) ELSE 0]

TomadoPorTodos(p) == SumFunctionOnSet(Tomado(p), Atendentes)

\* What the recorded services took.
Gasto(p) == [r \in servicos |-> ConsumoTotal(r.form, p)]

GastoEmServicos(p) == SumFunctionOnSet(Gasto(p), servicos)

\* With no edit and no request lost, the stock is what it was at the start less
\* the items of the recorded services and of the rows already taken by those
\* still running: no UPDATE of two interleaved requests overwrites another.
ContasFecham ==
  \A p \in Pecas : estoque[p] + TomadoPorTodos(p) + GastoEmServicos(p) = Inicial[p]

MaiorConsumo(p) == Max({ConsumoTotal(f, p) : f \in Formularios})

\* Workers that check against snapshots overdraw a part by at most what the
\* others, all but one, may have been granted meanwhile; one worker by nothing.
DescobertoLimitado ==
  \A p \in Pecas :
    estoque[p] >= -((Cardinality(Atendentes) - 1) * MaiorConsumo(p))

=============================================================================
