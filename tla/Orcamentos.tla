----------------------------- MODULE Orcamentos -----------------------------
(***************************************************************************)
(* orcamentos.php: quotations.  A POST reads the prices, adds up the rows  *)
(* of the form, stores the total beside the first price and the sum of the *)
(* quantities, and may mail the client; a stored quotation can be shown    *)
(* and mailed again.  Meanwhile pecas.php changes prices.                  *)
(*                                                                         *)
(* A step is one SQL statement on data that matters here, one mail or one  *)
(* answer.  Money is in whole units.                                       *)
(***************************************************************************)
EXTENDS Integers, Sequences, FiniteSets, FiniteSetsExt

CONSTANTS
  Sessoes,
  Pecas,        \* ids of table pecas
  Outras,       \* ids that a page showed from the other database of db_connect
  Clientes,     \* ids of table clientes
  ComEmail,     \* the clients whose e-mail is not empty
  Precos,       \* prices that pecas.php may write
  Formularios,  \* the forms that may be posted
  MaxPedidos,   \* bound on the number of posts of the form
  Nenhum        \* nothing chosen, no request, no answer

Item == [peca : Pecas \cup Outras \cup {Nenhum}, quantidade : Int]

Formulario == [cliente : Clientes \cup {Nenhum}, itens : Seq(Item), maoObra : Int,
               desconto : Int, acao : {"visualizar", "enviar"}]

ASSUME OrcamentosConstantes ==
  /\ ComEmail \subseteq Clientes
  /\ Precos \subseteq Nat
  /\ Formularios \subseteq Formulario
  /\ MaxPedidos \in Nat
  /\ Nenhum \notin Pecas \cup Outras \cup Clientes

VARIABLES
  preco,        \* pecas.preco
  orcamentos,   \* table orcamentos, in the order of its ids
  fase,         \* what the request of each session is doing
  pedido,       \* that request
  tela,         \* what each session was last shown
  emails,       \* history: the mails that reached a client
  numero        \* posts so far (names requests)

vars == <<preco, orcamentos, fase, pedido, tela, emails, numero>>

Fases == {"livre", "ler", "inserir", "enviar", "reenviar"}

Avisos == {"salvo", "salvo_e_enviado", "salvo_nao_enviado", "salvo_sem_email",
           "enviado", "nao_enviado", "sem_email", "erro"}

Ids == 1..Len(orcamentos)

\* The columns of a row, with the request that wrote it and the prices it had read.
Orcamento == [cliente : Clientes \cup {Nenhum}, peca : Pecas \cup Outras \cup {Nenhum},
              quantidade : Nat \ {0}, unitario : Nat, maoObra : Int, desconto : Int,
              total : Nat, form : Formularios, lidos : [Pecas -> Nat], numero : Nat]

\* A request keeps what it read; lidos is empty until then, id is the row it mails.
Pedido == [form : Formularios \cup {Nenhum}, numero : Nat, banco : BOOLEAN,
           lidos : {<<>>} \cup [Pecas -> Nat], id : Nat]

Tela == [aviso : Avisos, form : Formularios \cup {Nenhum}, numero : Nat, banco : BOOLEAN]

TypeOK ==
  /\ preco \in [Pecas -> Nat]
  /\ orcamentos \in Seq(Orcamento)
  /\ fase \in [Sessoes -> Fases]
  /\ pedido \in [Sessoes -> Pedido \cup {Nenhum}]
  /\ \A s \in Sessoes : fase[s] # "livre" => pedido[s] \in Pedido
  /\ tela \in [Sessoes -> Tela \cup {Nenhum}]
  /\ \A e \in emails : e.id \in Ids
  /\ numero \in 0..MaxPedidos

Init ==
  /\ preco \in [Pecas -> Precos]
  /\ orcamentos = <<>>
  /\ fase = [s \in Sessoes |-> "livre"]
  /\ pedido = [s \in Sessoes |-> Nenhum]
  /\ tela = [s \in Sessoes |-> Nenhum]
  /\ emails = {}
  /\ numero = 0

-----------------------------------------------------------------------------
(* The sums *)

\* max(1, (int)quantidade)
Quantidade(item) == IF item.quantidade < 1 THEN 1 ELSE item.quantidade

\* The rows of the form that name a part of the list that was read.
Validas(itens, lidos) == {i \in DOMAIN itens : itens[i].peca \in DOMAIN lidos}

\* $listaItens[0]
Primeira(itens, lidos) == Min(Validas(itens, lidos))

\* $pecaPrincipalId: the first id that was posted, in the list or not.
Principal(itens) == itens[Min({i \in DOMAIN itens : itens[i].peca # Nenhum})].peca

\* $quantidadeTotal counts every row, a part or none.
QuantidadeTotal(itens) == SumFunction([i \in DOMAIN itens |-> Quantidade(itens[i])])

\* $valorItens
ValorItens(itens, lidos) ==
  SumFunction([i \in Validas(itens, lidos) |-> lidos[itens[i].peca] * Quantidade(itens[i])])

\* Variant: a discount larger than the rest gives a negative total.
ComPiso_SemPiso(valor) == valor

\* max(0, ...)
ComPiso(valor) == IF valor < 0 THEN 0 ELSE valor

Total(form, lidos) == ComPiso(ValorItens(form.itens, lidos) + form.maoObra - form.desconto)

\* Variant: the quantity stored is that of the first row.
Linha_PrimeiraQuantidade(form, lidos, n) ==
  LET ha == Validas(form.itens, lidos) # {}
      i == Primeira(form.itens, lidos)
  IN [cliente |-> form.cliente,
      peca |-> IF ha THEN Principal(form.itens) ELSE Nenhum,
      quantidade |-> IF ha THEN Quantidade(form.itens[i]) ELSE 1,
      unitario |-> IF ha THEN lidos[form.itens[i].peca] ELSE 0,
      maoObra |-> form.maoObra, desconto |-> form.desconto, total |-> Total(form, lidos),
      form |-> form, lidos |-> lidos, numero |-> n]

\* What is bound to the INSERT: the first id, the first price, all quantities; the
\* price need not be that of the id.
Linha(form, lidos, n) ==
  LET ha == Validas(form.itens, lidos) # {}
      i == Primeira(form.itens, lidos)
  IN [cliente |-> form.cliente,
      peca |-> IF ha THEN Principal(form.itens) ELSE Nenhum,
      quantidade |-> IF ha THEN QuantidadeTotal(form.itens) ELSE 1,
      unitario |-> IF ha THEN lidos[form.itens[i].peca] ELSE 0,
      maoObra |-> form.maoObra, desconto |-> form.desconto, total |-> Total(form, lidos),
      form |-> form, lidos |-> lidos, numero |-> n]

-----------------------------------------------------------------------------
(* The POST of the form *)

Iniciar(s, form) ==
  /\ fase[s] = "livre"
  /\ numero < MaxPedidos
  /\ numero' = numero + 1
  /\ pedido' = [pedido EXCEPT ![s] =
       [form |-> form, numero |-> numero + 1, banco |-> TRUE, lidos |-> <<>>, id |-> 0]]
  /\ fase' = [fase EXCEPT ![s] = "ler"]
  /\ UNCHANGED <<preco, orcamentos, tela, emails>>

Postar(s) == \E form \in Formularios : Iniciar(s, form)

\* No redirect follows the POST: a reload posts the same form again.
Recarregar(s) == tela[s] # Nenhum /\ tela[s].form # Nenhum /\ Iniciar(s, tela[s].form)

Responder(s, aviso) ==
  /\ tela' = [tela EXCEPT ![s] =
       [aviso |-> aviso, form |-> pedido[s].form, numero |-> pedido[s].numero,
        banco |-> pedido[s].banco]]
  /\ fase' = [fase EXCEPT ![s] = "livre"]
  /\ pedido' = [pedido EXCEPT ![s] = Nenhum]

\* The lists of clients and parts, empty when no database could be opened.
Ler(s) ==
  /\ fase[s] = "ler"
  /\ \/ pedido' = [pedido EXCEPT ![s].lidos = preco]
     \/ pedido' = [pedido EXCEPT ![s].banco = FALSE]
  /\ fase' = [fase EXCEPT ![s] = "inserir"]
  /\ UNCHANGED <<preco, orcamentos, tela, emails, numero>>

\* The answer, or the mail that comes before it.  The client's address is in the
\* list that was read.
DepoisDeInserir(s) ==
  LET p == pedido[s] IN
    \/ /\ p.form.acao = "enviar"
       /\ p.banco /\ p.form.cliente \in ComEmail
       /\ fase' = [fase EXCEPT ![s] = "enviar"]
       /\ pedido' = [pedido EXCEPT ![s].id = Len(orcamentos')]
       /\ UNCHANGED tela
    \/ /\ p.form.acao = "enviar"
       /\ ~(p.banco /\ p.form.cliente \in ComEmail)
       /\ Responder(s, "salvo_sem_email")
    \/ /\ p.form.acao = "visualizar"
       /\ Responder(s, "salvo")

\* Variant: the mail is answered first and the row written when it went out.
Inserir_SoQuemNaoEnvia(s) ==
  /\ fase[s] = "inserir"
  /\ orcamentos' = IF pedido[s].banco /\ pedido[s].form.acao = "visualizar"
                   THEN Append(orcamentos, Linha(pedido[s].form, pedido[s].lidos,
                                                 pedido[s].numero))
                   ELSE orcamentos
  /\ DepoisDeInserir(s)
  /\ UNCHANGED <<preco, emails, numero>>

\* if ($con) INSERT: without a connection nothing is stored and nothing is said.
Inserir(s) ==
  /\ fase[s] = "inserir"
  /\ orcamentos' = IF pedido[s].banco
                   THEN Append(orcamentos, Linha(pedido[s].form, pedido[s].lidos,
                                                 pedido[s].numero))
                   ELSE orcamentos
  /\ DepoisDeInserir(s)
  /\ UNCHANGED <<preco, emails, numero>>

\* What the mail of a new quotation says.
Corpo(p) ==
  [id |-> p.id, quantidade |-> QuantidadeTotal(p.form.itens),
   total |-> Total(p.form, p.lidos)]

\* enviar_email may report a failure for a mail that was taken.
Enviar(s) ==
  /\ fase[s] = "enviar"
  /\ \/ /\ emails' = emails \cup {Corpo(pedido[s])}
        /\ Responder(s, "salvo_e_enviado")
     \/ /\ emails' \in {emails, emails \cup {Corpo(pedido[s])}}
        /\ Responder(s, "salvo_nao_enviado")
  /\ UNCHANGED <<preco, orcamentos, numero>>

\* An exception nobody catches, or the end of the process.
Abortar(s) ==
  /\ fase[s] # "livre"
  /\ Responder(s, "erro")
  /\ UNCHANGED <<preco, orcamentos, emails, numero>>

-----------------------------------------------------------------------------
(* acao = enviar_existente, and the view of a stored quotation *)

\* Variant: the total is worked out again from the price of today.
CorpoGuardado_DeHoje(i) ==
  LET o == orcamentos[i] IN
    [id |-> i, quantidade |-> o.quantidade,
     total |-> IF o.peca \notin Pecas THEN o.total
               ELSE ComPiso(preco[o.peca] * o.quantidade + o.maoObra - o.desconto)]

CorpoGuardado(i) == [id |-> i, quantidade |-> orcamentos[i].quantidade,
                     total |-> orcamentos[i].total]

\* One SELECT for the row and the client's address; the form is not posted.
LerGuardado(s, i) ==
  /\ fase[s] = "livre"
  /\ \/ /\ orcamentos[i].cliente \in ComEmail
        /\ pedido' = [pedido EXCEPT ![s] =
             [form |-> Nenhum, numero |-> 0, banco |-> TRUE, lidos |-> <<>>, id |-> i]]
        /\ fase' = [fase EXCEPT ![s] = "reenviar"]
        /\ UNCHANGED tela
     \/ /\ orcamentos[i].cliente \notin ComEmail
        /\ tela' = [tela EXCEPT ![s] =
             [aviso |-> "sem_email", form |-> Nenhum, numero |-> 0, banco |-> TRUE]]
        /\ UNCHANGED <<fase, pedido>>
  /\ UNCHANGED <<preco, orcamentos, emails, numero>>

Reenviar(s) ==
  /\ fase[s] = "reenviar"
  /\ LET corpo == CorpoGuardado(pedido[s].id) IN
       \/ /\ emails' = emails \cup {corpo}
          /\ Responder(s, "enviado")
       \/ /\ emails' \in {emails, emails \cup {corpo}}
          /\ Responder(s, "nao_enviado")
  /\ UNCHANGED <<preco, orcamentos, numero>>

\* GET ?view=i and ?imprimir=i: price times quantity as stored, total as stored.
Vista(i) ==
  LET o == orcamentos[i] IN
    [produto |-> o.unitario * o.quantidade, maoObra |-> o.maoObra,
     desconto |-> o.desconto, total |-> o.total]

\* pecas.php writes another price.
MudarPreco(p) ==
  /\ \E v \in Precos \ {preco[p]} : preco' = [preco EXCEPT ![p] = v]
  /\ UNCHANGED <<orcamentos, fase, pedido, tela, emails, numero>>

-----------------------------------------------------------------------------
Andar(s) == Ler(s) \/ Inserir(s) \/ Enviar(s) \/ Reenviar(s)

Next ==
  \/ \E s \in Sessoes : \/ Postar(s) \/ Recarregar(s) \/ Andar(s) \/ Abortar(s)
                        \/ \E i \in Ids : LerGuardado(s, i)
  \/ \E p \in Pecas : MudarPreco(p)

Spec == Init /\ [][Next]_vars

-----------------------------------------------------------------------------
(* What must hold. *)

\* One quotation has one price: the mail of the day it was made, the row, and every
\* later mail agree, whatever prices were changed before, in between and after; and
\* each of them tells how many units, if the row names a part at all.
UmPreco ==
  \A e \in emails :
    LET o == orcamentos[e.id] IN
      /\ e.total = o.total
      /\ o.peca # Nenhum => e.quantidade = o.quantidade

Soma(v) == ComPiso(v.produto + v.maoObra - v.desconto) = v.total

\* The parts of a form that all had one price.
UmPrecoSo(o) ==
  \A j, k \in DOMAIN o.form.itens :
    LET p == o.form.itens[j].peca
        q == o.form.itens[k].peca
    IN p \in Pecas /\ q \in Pecas /\ o.lidos[p] = o.lidos[q]

\* The rows of a stored quotation add up to the total below them when all its parts had
\* one price; otherwise they need not: the row keeps the first part's price beside the
\* sum of all quantities.
VistaSomaComUmPreco ==
  \A i \in Ids : UmPrecoSo(orcamentos[i]) => Soma(Vista(i))

\* "Orçamento salvo" is said of a quotation that was stored, or else no database
\* could be opened; and then nobody was mailed about it.
SalvoSeHouveBanco ==
  \A s \in Sessoes :
    LET t == tela[s] IN
      t # Nenhum =>
        /\ t.aviso \in {"salvo", "salvo_e_enviado", "salvo_nao_enviado", "salvo_sem_email"}
             => ~t.banco \/ \E i \in Ids : orcamentos[i].numero = t.numero
        /\ t.aviso = "salvo_e_enviado" => \E e \in emails : orcamentos[e.id].numero = t.numero

=============================================================================
