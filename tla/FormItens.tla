------------------------------ MODULE FormItens ------------------------------
(***************************************************************************)
(* The rows of parts of the forms of servicos.php and orcamentos.php: the  *)
(* script of the page adds and removes rows, the browser posts them as     *)
(* itens[<indice>][peca_id] and itens[<indice>][quantidade], PHP collects  *)
(* them in an array keyed by indice, and the page it answers with draws a  *)
(* row for every entry of that array, under the same key.                  *)
(***************************************************************************)
EXTENDS Integers, Sequences, FiniteSets, SequencesExt

CONSTANTS
  Pecas,       \* the parts that the select of a row offers
  SemPeca,     \* what it shows before one is chosen: "Selecione a peça"
  Quantidades, \* what is typed as the quantity of a row
  MaxLinhas,   \* bound on the rows on the screen
  MaxBuracos   \* bound on the rows removed from above others

ASSUME FormItensConstantes ==
  /\ SemPeca \notin Pecas
  /\ Quantidades \subseteq Nat \ {0}
  /\ 1 \in Quantidades
  /\ MaxLinhas \in Nat \ {0}
  /\ MaxBuracos \in Nat

VARIABLES
  linhas,    \* the rows on the screen, from the top
  recebido,  \* the array $itens of this page's last POST, in order of arrival
  visto,     \* history: what the rows showed when that POST was sent
  buracos    \* history: rows removed from above others since the page was opened

vars == <<linhas, recebido, visto, buracos>>

\* A row has two fields, itens[<indice>][peca_id] and itens[<indice>][quantidade].
Linha == [indice: Nat, peca: Pecas \cup {SemPeca}, quantidade: Quantidades]

TypeOK ==
  /\ linhas \in Seq(Linha)
  /\ Len(linhas) <= MaxLinhas
  /\ recebido \in Seq(Linha)
  /\ visto \in Seq([peca: Pecas, quantidade: Quantidades])
  /\ buracos \in 0..MaxBuracos

\* A row nobody has touched; also an entry of the array of which no field has come yet,
\* read with the defaults of servicos.php and orcamentos.php ($item['peca_id'] ?? 0,
\* $item['quantidade'] ?? 1).
Nova(indice) == [indice |-> indice, peca |-> SemPeca, quantidade |-> 1]

UmaLinha == <<Nova(0)>>

Init == linhas = UmaLinha /\ recebido = <<>> /\ visto = <<>> /\ buracos = 0

\* What the rows say, whatever the names of their fields.
Mostrado(ls) == [i \in DOMAIN ls |-> [peca |-> ls[i].peca, quantidade |-> ls[i].quantidade]]

-----------------------------------------------------------------------------
\* The page is opened again, with one empty row.
Abrir ==
  /\ linhas' = UmaLinha
  /\ recebido' = <<>>
  /\ visto' = <<>>
  /\ buracos' = 0

\* Variant: numbering that starts below zero.
NovoIndice_Anterior == Len(linhas) - 1

\* Variant: every new row takes the first index.
NovoIndice_Zero == 0

\* const index = rows.length: rows are counted, not numbered.
NovoIndice == Len(linhas)

Adicionar ==
  /\ Len(linhas) < MaxLinhas
  /\ linhas' = Append(linhas, Nova(NovoIndice))
  /\ UNCHANGED <<recebido, visto, buracos>>

EscolherPeca(i, p) ==
  /\ linhas' = [linhas EXCEPT ![i].peca = p]
  /\ UNCHANGED <<recebido, visto, buracos>>

Digitar(i, q) ==
  /\ linhas' = [linhas EXCEPT ![i].quantidade = q]
  /\ UNCHANGED <<recebido, visto, buracos>>

\* The rows that stay keep the names they have, so removing any row but the last
\* leaves a hole in the numbering.
Remover(i) ==
  /\ linhas' = RemoveAt(linhas, i)
  /\ \/ i = Len(linhas) /\ UNCHANGED buracos
     \/ i # Len(linhas) /\ buracos < MaxBuracos /\ buracos' = buracos + 1
  /\ UNCHANGED <<recebido, visto>>

\* A name itens[k][...] finds the entry k of the array or makes one, in the last place.
Achar(itens, k) ==
  IF \E n \in DOMAIN itens : itens[n].indice = k THEN itens ELSE Append(itens, Nova(k))

GuardarPeca(itens, k, p) ==
  LET a == Achar(itens, k)
  IN  [n \in DOMAIN a |-> IF a[n].indice = k THEN [a[n] EXCEPT !.peca = p] ELSE a[n]]

GuardarQuantidade(itens, k, q) ==
  LET a == Achar(itens, k)
  IN  [n \in DOMAIN a |-> IF a[n].indice = k THEN [a[n] EXCEPT !.quantidade = q] ELSE a[n]]

\* Variant: the quantity of a row is named by an index of its own, that of the row
\* below.
IndiceDaQuantidade_Proximo(l) == l.indice + 1

\* Both fields of a row are named with the one index of the row.
IndiceDaQuantidade(l) == l.indice

\* The two fields of a row arrive one after the other, each stored by itself.
GuardarLinha(itens, l) ==
  GuardarQuantidade(GuardarPeca(itens, l.indice, l.peca), IndiceDaQuantidade(l), l.quantidade)

\* The array PHP makes of the form, one row after another.
Coletar(ls) ==
  LET itens[n \in 0..Len(ls)] == IF n = 0 THEN <<>> ELSE GuardarLinha(itens[n - 1], ls[n])
  IN  itens[Len(ls)]

\* A select is required, so a row without a part keeps the form on the screen;
\* a form with no rows is posted (and refused), and answered with an empty row.
Enviar ==
  /\ \A i \in DOMAIN linhas : linhas[i].peca # SemPeca
  /\ recebido' = Coletar(linhas)
  /\ visto' = Mostrado(linhas)
  /\ linhas' = IF recebido' = <<>> THEN UmaLinha ELSE recebido'
  /\ UNCHANGED buracos

Next ==
  \/ Abrir
  \/ Adicionar
  \/ \E i \in DOMAIN linhas :
       \/ Remover(i)
       \/ \E p \in Pecas : EscolherPeca(i, p)
       \/ \E q \in Quantidades : Digitar(i, q)
  \/ Enviar

Spec == Init /\ [][Next]_vars

-----------------------------------------------------------------------------
\* The handler gets the rows that the user saw, all of them and in their order.
TudoEntregue == Mostrado(recebido) = visto

\* What is lost is bounded by how the page was edited: a submission loses at most
\* one row for each row removed from above others, also when answers were drawn and
\* edited again in between, and whoever only removes last rows loses nothing.
PerdaLimitada ==
  /\ Len(visto) - Len(recebido) <= buracos
  /\ buracos = 0 => TudoEntregue

\* Rows whose indices collide never mix: every entry that the handler prices or takes
\* from the stock has the part and the quantity of one and the same row that the user
\* saw, although PHP stores the two fields of a row one by one and over what other rows
\* of that index left there.
NadaMisturado ==
  \A n \in DOMAIN recebido :
    \E i \in DOMAIN visto : visto[i] = Mostrado(recebido)[n]

=============================================================================
