------------------------------- MODULE Estoque -------------------------------
(***************************************************************************)
(* The stock of parts (table `pecas`) and the two pages that write it:     *)
(*                                                                         *)
(*   - public/servicos.php finalises a service: it reads the stock once,   *)
(*     checks every item of the posted form against that snapshot, issues  *)
(*     one UPDATE per item (the "baixa"), then INSERTs the finished        *)
(*     service into `manutencoes`, then may mail the client;               *)
(*   - public/pecas.php loads a part into a form and later writes every    *)
(*     column back, the absolute quantity_estoque included.                *)
(*                                                                         *)
(* No page opens a transaction, so one SQL statement is one step.  A       *)
(* request is carried by a worker of the web server (Atendentes): one for  *)
(* the `php -S` that iniciar_oficina.bat starts, more when a second start  *)
(* finds the port not yet open (Iniciador.tla), and several under          *)
(* the Apache of README.md.  PHP locks the session file from session_start *)
(* to the end of the request, so a session has at most one request running.*)
(***************************************************************************)
EXTENDS Integers, Sequences, FiniteSets

CONSTANTS
  Sessoes,      \* browser sessions (PHPSESSID)
  Editores,     \* those of them that also edit parts in pecas.php
  Atendentes,   \* web-server workers sharing the database
  Pecas,        \* ids present in table pecas: no page ever deletes a row
  Clientes,     \* ids present in table clientes
  ComEmail,     \* the clients whose e-mail column is not empty
  Formularios,  \* the service forms that may be posted
  Inicial,      \* quantidade_estoque of each part at the start
  Digitadas,    \* quantities an editor may type (the input has no min)
  Falhas,       \* TRUE when a request may die between two statements
  MaxPedidos,   \* bound on the number of service requests
  Nenhum        \* "nothing here", not a request, a screen or a form

Item == [peca: Pecas \cup {Nenhum}, quantidade: Nat]

Formulario == [cliente: Clientes \cup {Nenhum}, itens: Seq(Item),
               acao: {"visualizar", "enviar"}]

\* A part form of pecas.php, with the quantity it was filled with.
Edicao == [peca: Pecas, quantidade: Int]

ASSUME ConstantesBemFormadas ==
  /\ Editores \subseteq Sessoes
  /\ ComEmail \subseteq Clientes
  /\ Formularios \subseteq Formulario
  /\ Inicial \in [Pecas -> Nat]
  /\ Digitadas \subseteq Int
  /\ Falhas \in BOOLEAN
  /\ MaxPedidos \in Nat
  /\ Nenhum \notin Pecas
  /\ Nenhum \notin Clientes
  /\ Nenhum \notin Edicao

VARIABLES
  estoque,    \* pecas.quantidade_estoque
  servicos,   \* rows of manutencoes with status 'Concluída'
  fase,       \* where each worker stands in servicos.php
  pedido,     \* the request it is serving
  linha,      \* the item whose UPDATE comes next
  tela,       \* the last answer each session was shown
  edicao,     \* the part form a session has open in pecas.php
  proximo,    \* the next request number (not in the code: it names requests)
  baixas,     \* history: the UPDATEs executed, as <<request, item>>
  emails      \* history: the requests whose mail reached the client

vars == <<estoque, servicos, fase, pedido, linha, tela, edicao, proximo,
          baixas, emails>>

Fases == {"livre", "leitura", "baixa", "gravado", "enviado", "nao_enviado"}

Avisos == {"salvo", "salvo_sem_email", "salvo_e_enviado", "salvo_nao_enviado",
           "recusado", "erro"}

Numeros == 1..MaxPedidos

Linha == Nat \X Nat

\* origem is the first posting of the form: a browser reload posts it again
\* under a new id with the origem of the request it repeats.
Pedido == [id: Numeros, origem: Numeros, sessao: Sessoes, form: Formularios]

Servico == [pedido: Numeros, origem: Numeros, form: Formularios]

TypeOK ==
  /\ estoque \in [Pecas -> Int]
  /\ servicos \subseteq Servico
  /\ fase \in [Atendentes -> Fases]
  /\ pedido \in [Atendentes -> Pedido \cup {Nenhum}]
  /\ linha \in [Atendentes -> Nat]
  /\ tela \in [Sessoes -> [aviso: Avisos, pedido: Pedido] \cup {Nenhum}]
  /\ edicao \in [Editores -> Edicao \cup {Nenhum}]
  /\ proximo \in 1..MaxPedidos + 1
  /\ baixas \subseteq Linha
  /\ emails \subseteq Numeros

Init ==
  /\ estoque = Inicial
  /\ servicos = {}
  /\ fase = [a \in Atendentes |-> "livre"]
  /\ pedido = [a \in Atendentes |-> Nenhum]
  /\ linha = [a \in Atendentes |-> 0]
  /\ tela = [s \in Sessoes |-> Nenhum]
  /\ edicao = [s \in Editores |-> Nenhum]
  /\ proximo = 1
  /\ baixas = {}
  /\ emails = {}

-----------------------------------------------------------------------------
(* What the request of a worker says. *)

Itens(a) == pedido[a].form.itens

\* max(1, (int)quantidade): the handler never takes a row as less than one.
Quantidade(item) == IF item.quantidade < 1 THEN 1 ELSE item.quantidade

\* Variant: one unit is taken whatever the quantity.
Descontado_Unidade(item) == [estoque EXCEPT ![item.peca] = @ - 1]

\* quantidade_estoque - ? is evaluated by the database on the row as it is.
Descontado(item) == [estoque EXCEPT ![item.peca] = @ - Quantidade(item)]

\* Variant: the loop over the items stops one short.
SemMaisItens_Antes(a) == linha[a] >= Len(Itens(a))

SemMaisItens(a) == linha[a] > Len(Itens(a))

\* Variant: a comparison off by one.
ItemAtendivel_Folga(item, lido) ==
  item.peca \in Pecas /\ lido[item.peca] + 1 >= Quantidade(item)

\* The rows are checked one at a time, each against the same snapshot.
ItemAtendivel(item, lido) ==
  /\ item.peca \in Pecas
  /\ lido[item.peca] >= Quantidade(item)

Atendivel(form, lido) ==
  /\ form.cliente # Nenhum
  /\ form.itens # <<>>
  /\ \A i \in DOMAIN form.itens : ItemAtendivel(form.itens[i], lido)

\* The session file is locked until the request that opened it ends.
SessaoOcupada(s) == \E a \in Atendentes : fase[a] # "livre" /\ pedido[a].sessao = s

\* Variant: sessions that are not locked.
PodeAtender_SemTrava(a, s) == fase[a] = "livre"

\* A request of session s may be taken by worker a.
PodeAtender(a, s) == fase[a] = "livre" /\ ~SessaoOcupada(s)

-----------------------------------------------------------------------------
(* servicos.php *)

Iniciar(a, s, form, origem) ==
  /\ PodeAtender(a, s)
  /\ proximo \in Numeros
  /\ proximo' = proximo + 1
  /\ pedido' = [pedido EXCEPT ![a] =
                  [id |-> proximo, origem |-> origem, sessao |-> s, form |-> form]]
  /\ fase' = [fase EXCEPT ![a] = "leitura"]
  /\ UNCHANGED <<estoque, servicos, linha, tela, edicao, baixas, emails>>

\* A filled form is posted by one of the two submit buttons.
Postar(a, s) == \E form \in Formularios : Iniciar(a, s, form, proximo)

\* Variant: the reload is taken for a first posting without a number.
Recarregar_SemOrigem(a, s) == tela[s] # Nenhum /\ Iniciar(a, s, tela[s].pedido.form, 0)

\* The answer to the POST is the page itself, without a redirect: reloading it
\* posts the same form again, after an error as well as after a success.
Recarregar(a, s) ==
  /\ tela[s] # Nenhum
  /\ Iniciar(a, s, tela[s].pedido.form, tela[s].pedido.origem)

\* The response is sent, the session is unlocked and the worker is free.
Responder(a, aviso) ==
  /\ tela' = [tela EXCEPT ![pedido[a].sessao] =
                [aviso |-> aviso, pedido |-> pedido[a]]]
  /\ fase' = [fase EXCEPT ![a] = "livre"]
  /\ pedido' = [pedido EXCEPT ![a] = Nenhum]
  /\ linha' = [linha EXCEPT ![a] = 0]

\* SELECT ... FROM pecas, then the checks on what it returned.
Aceitar(a) ==
  /\ fase[a] = "leitura"
  /\ Atendivel(pedido[a].form, estoque)
  /\ fase' = [fase EXCEPT ![a] = "baixa"]
  /\ linha' = [linha EXCEPT ![a] = 1]
  /\ UNCHANGED <<estoque, servicos, pedido, tela, edicao, proximo, baixas, emails>>

\* Without a connection the list of parts is empty, and no row is valid.
Recusar(a) ==
  /\ fase[a] = "leitura"
  /\ ~Atendivel(pedido[a].form, estoque) \/ Falhas
  /\ Responder(a, "recusado")
  /\ UNCHANGED <<estoque, servicos, edicao, proximo, baixas, emails>>

\* UPDATE pecas SET quantidade_estoque = quantidade_estoque - ? WHERE id_peca = ?
DarBaixa(a) ==
  /\ fase[a] = "baixa"
  /\ linha[a] \in DOMAIN Itens(a)
  /\ estoque' = Descontado(Itens(a)[linha[a]])
  /\ baixas' = baixas \cup {<<pedido[a].id, linha[a]>>}
  /\ linha' = [linha EXCEPT ![a] = @ + 1]
  /\ UNCHANGED <<servicos, fase, pedido, tela, edicao, proximo, emails>>

\* Variant: the row is written only when there is no mail to send.
Inseridos_SemEmail(a) ==
  IF pedido[a].form.acao = "enviar" THEN servicos
  ELSE servicos \cup {[pedido |-> pedido[a].id, origem |-> pedido[a].origem,
                       form |-> pedido[a].form]}

Inseridos(a) ==
  servicos \cup {[pedido |-> pedido[a].id, origem |-> pedido[a].origem,
                  form |-> pedido[a].form]}

\* INSERT INTO manutencoes ... 'Concluída'.
RegistrarServico(a) ==
  /\ fase[a] = "baixa"
  /\ SemMaisItens(a)
  /\ servicos' = Inseridos(a)
  /\ fase' = [fase EXCEPT ![a] = "gravado"]
  /\ UNCHANGED <<estoque, pedido, linha, tela, edicao, proximo, baixas, emails>>

\* 'enviar' goes on to the mail when the client has an address.
TemEnvio(a) == pedido[a].form.acao = "enviar" /\ pedido[a].form.cliente \in ComEmail

\* Variant: the result of enviar_email is not looked at.
EnviarEmail_SemOlhar(a) ==
  /\ fase[a] = "gravado" /\ TemEnvio(a)
  /\ fase' = [fase EXCEPT ![a] = "enviado"]
  /\ emails' \in {emails, emails \cup {pedido[a].id}}
  /\ UNCHANGED <<estoque, servicos, pedido, linha, tela, edicao, proximo, baixas>>

\* enviar_email: TRUE when the server took the message, FALSE on an exception,
\* which may also come after the server took it (a lost reply to DATA).
EnviarEmail(a) ==
  /\ fase[a] = "gravado" /\ TemEnvio(a)
  /\ \/ /\ fase' = [fase EXCEPT ![a] = "enviado"]
        /\ emails' = emails \cup {pedido[a].id}
     \/ /\ fase' = [fase EXCEPT ![a] = "nao_enviado"]
        /\ emails' \in {emails, emails \cup {pedido[a].id}}
  /\ UNCHANGED <<estoque, servicos, pedido, linha, tela, edicao, proximo, baixas>>

\* The message that the page shows of a recorded service.
AvisoDoServico(a) ==
  CASE fase[a] = "enviado" -> "salvo_e_enviado"
    [] fase[a] = "nao_enviado" -> "salvo_nao_enviado"
    [] fase[a] = "gravado" /\ pedido[a].form.acao = "enviar" -> "salvo_sem_email"
    [] OTHER -> "salvo"

\* The end of the script: the page that answers a recorded service.
ResponderServico(a) ==
  /\ fase[a] \in {"gravado", "enviado", "nao_enviado"}
  /\ ~(fase[a] = "gravado" /\ TemEnvio(a))
  /\ Responder(a, AvisoDoServico(a))
  /\ UNCHANGED <<estoque, servicos, edicao, proximo, baixas, emails>>

\* The request dies between two statements: an uncaught PDOException (SQLite
\* busy, MySQL gone), the console of iniciar_oficina.bat closed, a power cut.
Abortar(a) ==
  /\ Falhas
  /\ fase[a] # "livre"
  /\ Responder(a, "erro")
  /\ UNCHANGED <<estoque, servicos, edicao, proximo, baixas, emails>>

-----------------------------------------------------------------------------
(* pecas.php: each of the two requests is one statement on the row. *)

\* GET pecas.php?edit=p: the form is filled with the row as it is now.
AbrirEdicao(a, s, p) ==
  /\ PodeAtender(a, s)
  /\ edicao' = [edicao EXCEPT ![s] = [peca |-> p, quantidade |-> estoque[p]]]
  /\ UNCHANGED <<estoque, servicos, fase, pedido, linha, tela, proximo, baixas, emails>>

\* POST pecas.php: the quantity shown, or another one typed over it, is written.
GravarEdicao(a, s, q) ==
  /\ PodeAtender(a, s)
  /\ edicao[s] # Nenhum
  /\ estoque' = [estoque EXCEPT ![edicao[s].peca] = q]
  /\ edicao' = [edicao EXCEPT ![s] = Nenhum]
  /\ UNCHANGED <<servicos, fase, pedido, linha, tela, proximo, baixas, emails>>

\* The editor changed another column only.
SalvarSemMexer(a, s) == edicao[s] # Nenhum /\ GravarEdicao(a, s, edicao[s].quantidade)

Ajustar(a, s) == \E q \in Digitadas : GravarEdicao(a, s, q)

-----------------------------------------------------------------------------
Andar(a) ==
  \/ Aceitar(a) \/ Recusar(a)
  \/ DarBaixa(a) \/ RegistrarServico(a)
  \/ EnviarEmail(a) \/ ResponderServico(a)

Next ==
  \E a \in Atendentes :
    \/ \E s \in Sessoes : Postar(a, s) \/ Recarregar(a, s)
    \/ Andar(a)
    \/ Abortar(a)
    \/ \E s \in Editores : \/ \E p \in Pecas : AbrirEdicao(a, s, p)
                           \/ SalvarSemMexer(a, s)
                           \/ Ajustar(a, s)

\* A script that started runs to its end: PHP schedules nothing else on the
\* worker, every statement returns and PHPMailer gives up after its timeout.
\* Nobody is obliged to post, reload or edit.
Spec == Init /\ [][Next]_vars /\ \A a \in Atendentes : WF_vars(Andar(a))

-----------------------------------------------------------------------------
(* What must hold. *)

\* A service shown as "concluído com baixa de estoque registrada" has had every
\* one of its items taken from the stock, whatever was interleaved with it and
\* whichever other requests died.
ServicoTemBaixa ==
  \A r \in servicos : \A i \in DOMAIN r.form.itens : <<r.pedido, i>> \in baixas

Gravado(p) == \E r \in servicos : r.pedido = p.id /\ r.form = p.form

Baixado(p) == \A i \in DOMAIN p.form.itens : <<p.id, i>> \in baixas

Intocado(p) == /\ \A r \in servicos : r.pedido # p.id
               /\ \A b \in baixas : b[1] # p.id

\* What the page tells the user is what the database did: a success message
\* means a recorded service with all its UPDATEs, "enviado" a mail that left,
\* and a refusal means that no row of the request was taken or recorded.
MensagemVerdadeira ==
  \A s \in Sessoes : tela[s] # Nenhum =>
    LET p == tela[s].pedido IN
      /\ tela[s].aviso \notin {"recusado", "erro"} => Gravado(p) /\ Baixado(p)
      /\ tela[s].aviso = "salvo_e_enviado" => p.id \in emails
      /\ tela[s].aviso = "recusado" => Intocado(p)

\* No client is told of a service that is not in the database, not even when the
\* request dies half way.
EmailSoDeServico == \A n \in emails : \E r \in servicos : r.pedido = n

\* The stock of a part never goes below zero: the handler refuses a service that
\* asks for more than there is ("Estoque insuficiente para a peça").
EstoqueNaoNegativo == \A p \in Pecas : estoque[p] >= 0

\* Answers reach a session in the order of its requests: an older request never
\* overwrites the screen of a newer one.
TelaNaoRetrocede ==
  [][\A s \in Sessoes :
       tela[s] # Nenhum /\ tela'[s] # tela[s] =>
         tela'[s].pedido.id > tela[s].pedido.id]_vars

\* Saving a part form whose quantity the user left alone keeps the stock: the
\* form is where "estoque, preços e fornecedores" are controlled together, and a
\* change of price says nothing about the stock.
EdicaoPreservaBaixas ==
  [][\A a \in Atendentes, s \in Editores :
       SalvarSemMexer(a, s) => estoque' = estoque]_vars

\* Once the items of a request start leaving the stock, its service is recorded:
\* the snapshot check is the last point at which the handler can refuse.
AceitoFicaRegistrado ==
  \A n \in Numeros :
    (\E a \in Atendentes : fase[a] = "baixa" /\ pedido[a].id = n)
      ~> (\E r \in servicos : r.pedido = n)

=============================================================================
