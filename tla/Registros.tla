------------------------------ MODULE Registros ------------------------------
(***************************************************************************)
(* The pages that keep one row per form: clientes.php, fornecedores.php,   *)
(* manutencoes.php (the agenda) and solicitacoes.php (parts asked of       *)
(* suppliers), with the button of servicos.php that mails a finished       *)
(* service again.  All four load a row into a form and later write the     *)
(* columns of the form back; the last two then mail the client or the      *)
(* supplier, ignore what came of it, and redirect.                         *)
(*                                                                         *)
(* A step is one SQL statement, one mail or one answer.  A session has one *)
(* request running at most (the lock of its file); Atendentes requests run *)
(* at a time.  Rows are functions from columns to values: `quem` is        *)
(* id_cliente or id_fornecedor, `dados` whatever else the form writes.     *)
(***************************************************************************)
EXTENDS Naturals, FiniteSets

CONSTANTS
  Sessoes,
  Atendentes,   \* number of workers of the web server
  Emails,       \* addresses
  Dados,        \* values of the other columns
  Grupos,       \* bound: sets of tables whose pages are in use together
  MaxLinhas,    \* bound on the rows of a table
  MaxPedidos,   \* bound on the number of posted forms
  Nenhum        \* no value: an empty column, no form, no message

Tabelas == {"clientes", "fornecedores", "manutencoes", "solicitacoes"}

Ids == 1..MaxLinhas

Colunas == {"email", "quem", "dados", "status"}

\* ENUM of create_db.sql: what a column status may hold under MySQL (the words are
\* written without accents).
Enum(t) == IF t = "manutencoes" THEN {"Agendada", "Concluida", "Cancelada"}
           ELSE {"Pendente", "Atendida", "Cancelada"}

\* Variant: the form offers the word of the ENUM.
OpcoesStatus_Enum == {"Pendente", "Atendida", "Cancelada"}

\* The options of the form, and those of the filter, in solicitacoes.php.
OpcoesStatus == {"Pendente", "Atendido", "Cancelada"}
OpcoesFiltro == {"Pendente", "Atendido", "Cancelada"}

Status == Enum("manutencoes") \cup Enum("solicitacoes") \cup OpcoesStatus

Linha == [email : Emails \cup {Nenhum}, quem : Ids \cup {Nenhum}, dados : Dados,
          status : Status \cup {Nenhum}]

ASSUME RegistrosConstantes ==
  /\ Grupos \subseteq SUBSET Tabelas
  /\ Atendentes \in Nat \ {0}
  /\ MaxLinhas \in Nat \ {0}
  /\ MaxPedidos \in Nat
  /\ Nenhum \notin Emails \cup Dados \cup Nat \cup Colunas \cup Linha

VARIABLES
  paginas,    \* the tables of the pages in use
  banco,      \* which of the two databases answers: "mysql" or "sqlite"
  linhas,     \* the rows of each table
  versao,     \* history: how often each row was saved (0: no such row)
  tela,       \* the form each session has open
  fase,       \* what the request of each session is doing
  pedido,     \* the row it saved or read, as the mail will tell it
  avisado,    \* history: the last mail that was delivered about each row
  calado,     \* history: the last save of the row reached nobody (yet)
  paralelo,   \* history: the row was saved while a mail about it was due
  restantes   \* how many forms may still be posted

vars == <<paginas, banco, linhas, versao, tela, fase, pedido, avisado, calado, paralelo,
          restantes>>

fixo == <<paginas, banco>>

historia == <<avisado, calado, paralelo>>

Fases == {"livre", "gravar", "destinatario", "enviar", "reenviar", "responder"}

Formulario == [tabela : Tabelas, id : Ids \cup {Nenhum}, valores : Linha,
               versao : Nat, mudou : Colunas \cup {Nenhum}]

Pedido == [tabela : Tabelas, id : Ids \cup {Nenhum}, versao : Nat,
           quem : Ids \cup {Nenhum}, dados : Dados, para : Emails \cup {Nenhum}]

Aviso == [versao : Nat, quem : Ids \cup {Nenhum}, dados : Dados]

TypeOK ==
  /\ paginas \in Grupos
  /\ banco \in {"mysql", "sqlite"}
  /\ linhas \in [Tabelas -> [Ids -> Linha \cup {Nenhum}]]
  /\ versao \in [Tabelas -> [Ids -> Nat]]
  /\ \A t \in Tabelas, i \in Ids : (versao[t][i] = 0) <=> (linhas[t][i] = Nenhum)
  /\ tela \in [Sessoes -> Formulario \cup {Nenhum}]
  /\ fase \in [Sessoes -> Fases]
  /\ pedido \in [Sessoes -> Pedido \cup {Nenhum}]
  /\ avisado \in [Tabelas -> [Ids -> Aviso \cup {Nenhum}]]
  /\ calado \in [Tabelas -> [Ids -> BOOLEAN]]
  /\ paralelo \in [Tabelas -> [Ids -> BOOLEAN]]
  /\ restantes \in 0..MaxPedidos

Existe(t, i) == linhas[t][i] # Nenhum

\* A row of each table is there, two of clientes; a request of a part may have
\* been marked with the word of the ENUM, which no form writes any more.
LinhaDe(email, quem, dados, status) ==
  [email |-> email, quem |-> quem, dados |-> dados, status |-> status]

Init ==
  /\ paginas \in Grupos
  /\ banco \in {"mysql", "sqlite"}
  /\ \E d \in Dados, e \in Emails, p \in {"Pendente", "Atendida"} :
       linhas = [t \in Tabelas |-> [i \in Ids |->
         CASE t = "clientes" /\ i = 1     -> LinhaDe(e, Nenhum, d, Nenhum)
           [] t = "clientes" /\ i = 2     -> LinhaDe(Nenhum, Nenhum, d, Nenhum)
           [] t = "fornecedores" /\ i = 1 -> LinhaDe(e, Nenhum, d, Nenhum)
           [] t = "manutencoes" /\ i = 1  -> LinhaDe(Nenhum, 1, d, "Concluida")
           [] t = "solicitacoes" /\ i = 1 -> LinhaDe(Nenhum, 1, d, p)
           [] OTHER -> Nenhum]]
  /\ versao = [t \in Tabelas |-> [i \in Ids |-> IF Existe(t, i) THEN 1 ELSE 0]]
  /\ tela = [s \in Sessoes |-> Nenhum]
  /\ fase = [s \in Sessoes |-> "livre"]
  /\ pedido = [s \in Sessoes |-> Nenhum]
  /\ avisado = [t \in Tabelas |-> [i \in Ids |-> Nenhum]]
  /\ calado = [t \in Tabelas |-> [i \in Ids |-> TRUE]]
  /\ paralelo = [t \in Tabelas |-> [i \in Ids |-> FALSE]]
  /\ restantes = MaxPedidos

-----------------------------------------------------------------------------
(* What the pages have in common. *)

\* A free worker for a session whose file nobody holds.
PodeAtender(s) ==
  /\ fase[s] = "livre"
  /\ Cardinality({r \in Sessoes : fase[r] # "livre"}) < Atendentes

Novo(t) == CHOOSE i \in Ids : ~Existe(t, i) /\ \A j \in 1..i - 1 : Existe(t, j)

Cheia(t) == \A i \in Ids : Existe(t, i)

\* The columns named in the UPDATE and in the INSERT of each page.
Gravadas(t) ==
  CASE t \in {"clientes", "fornecedores"} -> {"email", "dados"}
    [] t = "manutencoes"                  -> {"quem", "dados"}
    [] t = "solicitacoes"                 -> {"quem", "dados", "status"}

\* Variant: the column has no DEFAULT.
Padrao_Nenhum(t, c) == IF c = "status" THEN "" ELSE Nenhum

\* DEFAULT of the columns that an INSERT leaves out.
Padrao(t, c) ==
  IF t = "manutencoes" /\ c = "status" THEN "Agendada" ELSE Nenhum

\* Variant: no option of the select is marked as selected.
Mostrada_Padrao(t, c, v) ==
  IF t = "solicitacoes" /\ c = "status" THEN "Pendente" ELSE v

\* What the form shows of a column: the select of solicitacoes.php has no option
\* for the ENUM's word and shows its own.
Mostrada(t, c, v) ==
  IF t = "solicitacoes" /\ c = "status" /\ v = "Atendida" THEN "Atendido" ELSE v

\* What a select or an input lets the user choose in a column of table t.
Escolhas(t, c) ==
  CASE c = "email"  -> Emails \cup {Nenhum}
    [] c = "dados"  -> Dados
    [] c = "status" -> OpcoesStatus
    [] c = "quem" /\ t = "manutencoes"  -> {i \in Ids : Existe("clientes", i)}
    [] c = "quem" /\ t = "solicitacoes" -> {i \in Ids : Existe("fornecedores", i)}

Formar(t, i, valores, v) ==
  [tabela |-> t, id |-> i, valores |-> valores, versao |-> v, mudou |-> Nenhum]

-----------------------------------------------------------------------------
(* Forms *)

\* GET ?edit=i: the row as it is now.
Carregar(s, t, i) ==
  /\ PodeAtender(s)
  /\ Existe(t, i)
  /\ tela' = [tela EXCEPT ![s] =
       Formar(t, i, [c \in Colunas |-> IF c \in Gravadas(t)
                                       THEN Mostrada(t, c, linhas[t][i][c])
                                       ELSE Padrao(t, c)], versao[t][i])]
  /\ UNCHANGED <<fixo, linhas, versao, fase, pedido, historia, restantes>>

\* An empty form, filled in; the select of a status starts at its first option.
Preencher(s, t) ==
  /\ PodeAtender(s)
  /\ ~Cheia(t)
  /\ \E d \in Dados, e \in Emails :
       LET valor(c) == CASE c = "dados" -> d [] c = "email" -> e
                         [] c = "status" -> "Pendente" [] c = "quem" -> 1
       IN tela' = [tela EXCEPT ![s] =
            Formar(t, Nenhum, [c \in Colunas |-> IF c \in Gravadas(t) THEN valor(c)
                                                 ELSE Padrao(t, c)], 0)]
  /\ UNCHANGED <<fixo, linhas, versao, fase, pedido, historia, restantes>>

\* The user changes one field.
Digitar(s) ==
  /\ fase[s] = "livre"
  /\ tela[s] # Nenhum
  /\ tela[s].mudou = Nenhum
  /\ \E c \in Gravadas(tela[s].tabela) :
       \E v \in Escolhas(tela[s].tabela, c) \ {tela[s].valores[c]} :
         tela' = [tela EXCEPT ![s].valores[c] = v, ![s].mudou = c]
  /\ UNCHANGED <<fixo, linhas, versao, fase, pedido, historia, restantes>>

\* The form is posted; after an error it is still in the browser's history.
Postar(s) ==
  /\ PodeAtender(s)
  /\ tela[s] # Nenhum
  /\ restantes > 0
  /\ fase' = [fase EXCEPT ![s] = "gravar"]
  /\ restantes' = restantes - 1
  /\ UNCHANGED <<fixo, linhas, versao, tela, pedido, historia>>

-----------------------------------------------------------------------------
(* The POST branches *)

\* Somebody else has read or saved row i of t and has not mailed it yet.
AvisoPorSair(s, t, i) ==
  \E r \in Sessoes \ {s} :
    /\ fase[r] \in {"destinatario", "enviar", "reenviar"}
    /\ pedido[r].tabela = t
    /\ pedido[r].id = i

\* MySQL refuses a status that is not in the ENUM; SQLite takes any text.
Rejeitada(t, valores) ==
  banco = "mysql" /\ t = "solicitacoes" /\ valores.status \notin Enum(t)

\* Which of the pages go on to a mail, and to whom.
Avisa(t) == t \in {"manutencoes", "solicitacoes"}
Destinatario(t) == IF t = "manutencoes" THEN "clientes" ELSE "fornecedores"

\* Variant: saving the agenda schedules the row again.
Escrita_Reagenda(f, antes) ==
  [c \in Colunas |-> IF c \in Gravadas(f.tabela) THEN f.valores[c]
                     ELSE IF c = "status" THEN Padrao(f.tabela, c) ELSE antes[c]]

\* The values of f written over row antes.
Escrita(f, antes) ==
  [c \in Colunas |-> IF c \in Gravadas(f.tabela) THEN f.valores[c] ELSE antes[c]]

LinhaNova(t) == [c \in Colunas |-> Padrao(t, c)]

GravarLinha(s, i, nova) ==
  LET t == tela[s].tabela IN
    /\ linhas' = [linhas EXCEPT ![t][i] = nova]
    /\ versao' = [versao EXCEPT ![t][i] = @ + 1]
    /\ calado' = [calado EXCEPT ![t][i] = TRUE]
    /\ paralelo' = [paralelo EXCEPT ![t][i] = @ \/ AvisoPorSair(s, t, i)]
    /\ fase' = [fase EXCEPT ![s] = IF Avisa(t) THEN "destinatario" ELSE "responder"]

\* Variant: the notice tells what the row said before.
PorAvisar_Antiga(s, i) ==
  LET t == tela[s].tabela
      l == IF Existe(t, i) THEN linhas[t][i] ELSE linhas'[t][i]
  IN [tabela |-> t, id |-> i, versao |-> versao[t][i] + 1, quem |-> tela[s].valores.quem,
      dados |-> l.dados, para |-> Nenhum]

\* What the mail will say is what was posted.
PorAvisar(s, i) ==
  [tabela |-> tela[s].tabela, id |-> i, versao |-> versao[tela[s].tabela][i] + 1,
   quem |-> tela[s].valores.quem, dados |-> tela[s].valores.dados, para |-> Nenhum]

\* The statement: an UPDATE when the hidden id is filled, an INSERT otherwise.
Executar(s) ==
  LET f == tela[s]
      i == IF f.id # Nenhum THEN f.id ELSE Novo(f.tabela)
  IN /\ f.id = Nenhum => ~Cheia(f.tabela)
     /\ GravarLinha(s, i, Escrita(f, IF f.id # Nenhum THEN linhas[f.tabela][i]
                                     ELSE LinhaNova(f.tabela)))
     /\ pedido' = [pedido EXCEPT ![s] = PorAvisar(s, i)]

\* The request ends without a redirect: an exception, or the end of the process.
Falhar(s) ==
  /\ fase' = [fase EXCEPT ![s] = "livre"]
  /\ pedido' = [pedido EXCEPT ![s] = Nenhum]
  /\ UNCHANGED <<linhas, versao, avisado, calado, paralelo>>

\* Variant: errors of the database are not exceptions, so the mail follows.
Gravar_Silencioso(s) ==
  /\ fase[s] = "gravar"
  /\ \/ /\ Rejeitada(tela[s].tabela, tela[s].valores)
        /\ tela[s].id # Nenhum
        /\ fase' = [fase EXCEPT ![s] = "destinatario"]
        /\ pedido' = [pedido EXCEPT ![s] = PorAvisar(s, tela[s].id)]
        /\ UNCHANGED <<linhas, versao, calado, paralelo>>
     \/ /\ ~Rejeitada(tela[s].tabela, tela[s].valores)
        /\ Executar(s)
  /\ UNCHANGED <<fixo, tela, avisado, restantes>>

Gravar(s) ==
  /\ fase[s] = "gravar"
  /\ \/ /\ Rejeitada(tela[s].tabela, tela[s].valores)
        /\ Falhar(s)
     \/ /\ ~Rejeitada(tela[s].tabela, tela[s].valores)
        /\ Executar(s)
        /\ UNCHANGED avisado
  /\ UNCHANGED <<fixo, tela, restantes>>

\* SELECT email, nome of the client or supplier just posted, as it is by now.
LerDestinatario(s) ==
  /\ fase[s] = "destinatario"
  /\ LET p == pedido[s]
         email == IF p.quem = Nenhum THEN Nenhum
                  ELSE linhas[Destinatario(p.tabela)][p.quem].email
     IN /\ pedido' = [pedido EXCEPT ![s].para = email]
        /\ fase' = [fase EXCEPT ![s] = IF email = Nenhum THEN "responder" ELSE "enviar"]
  /\ UNCHANGED <<fixo, linhas, versao, tela, historia, restantes>>

\* The mail of request s reaches the address.
Entregar(s) ==
  LET p == pedido[s] IN
    /\ avisado' = [avisado EXCEPT ![p.tabela][p.id] =
                     [versao |-> p.versao, quem |-> p.quem, dados |-> p.dados]]
    /\ calado' = [calado EXCEPT ![p.tabela][p.id] = @ /\ p.versao # versao[p.tabela][p.id]]

\* enviar_email, whose answer these pages do not look at.
Enviar(s) ==
  /\ fase[s] = "enviar"
  /\ \/ Entregar(s)
     \/ UNCHANGED <<avisado, calado>>
  /\ fase' = [fase EXCEPT ![s] = "responder"]
  /\ pedido' = [pedido EXCEPT ![s] = Nenhum]
  /\ UNCHANGED <<fixo, linhas, versao, tela, paralelo, restantes>>

\* header('Location: ...'): the form is gone, and a reload posts nothing.
Redirecionar(s) ==
  /\ fase[s] = "responder"
  /\ tela' = [tela EXCEPT ![s] = Nenhum]
  /\ fase' = [fase EXCEPT ![s] = "livre"]
  /\ pedido' = [pedido EXCEPT ![s] = Nenhum]
  /\ UNCHANGED <<fixo, linhas, versao, historia, restantes>>

\* A second click came before the answer: the same form is served again.
CliqueDuplo(s) ==
  /\ fase[s] = "responder"
  /\ tela[s] # Nenhum
  /\ restantes > 0
  /\ restantes' = restantes - 1
  /\ fase' = [fase EXCEPT ![s] = "gravar"]
  /\ pedido' = [pedido EXCEPT ![s] = Nenhum]
  /\ UNCHANGED <<fixo, linhas, versao, tela, historia>>

\* Nobody catches an exception: the request may end before any of its steps.
Abortar(s) ==
  /\ fase[s] # "livre"
  /\ Falhar(s)
  /\ UNCHANGED <<fixo, tela, restantes>>

-----------------------------------------------------------------------------
(* servicos.php, acao = enviar_existente *)

\* One SELECT for the finished row and the e-mail of its client.
LerServico(s, i) ==
  /\ PodeAtender(s)
  /\ Existe("manutencoes", i)
  /\ linhas["manutencoes"][i].status = "Concluida"
  /\ LET l == linhas["manutencoes"][i] IN
       pedido' = [pedido EXCEPT ![s] =
         [tabela |-> "manutencoes", id |-> i, versao |-> versao["manutencoes"][i],
          quem |-> l.quem, dados |-> l.dados, para |-> linhas["clientes"][l.quem].email]]
  /\ fase' = [fase EXCEPT ![s] = IF pedido'[s].para = Nenhum THEN "responder" ELSE "reenviar"]
  /\ tela' = [tela EXCEPT ![s] = Nenhum]
  /\ UNCHANGED <<fixo, linhas, versao, historia, restantes>>

Reenviar(s) ==
  /\ fase[s] = "reenviar"
  /\ \/ Entregar(s)
     \/ UNCHANGED <<avisado, calado>>
  /\ fase' = [fase EXCEPT ![s] = "responder"]
  /\ pedido' = [pedido EXCEPT ![s] = Nenhum]
  /\ UNCHANGED <<fixo, linhas, versao, tela, paralelo, restantes>>

-----------------------------------------------------------------------------
Andar(s) == \/ Gravar(s) \/ LerDestinatario(s) \/ Enviar(s) \/ Reenviar(s)
            \/ Redirecionar(s)

Next ==
  \E s \in Sessoes :
    \/ Andar(s)
    \/ Digitar(s) \/ Postar(s) \/ CliqueDuplo(s) \/ Abortar(s)
    \/ \E t \in paginas : Preencher(s, t) \/ \E i \in Ids : Carregar(s, t, i)
    \/ "manutencoes" \in paginas /\ \E i \in Ids : LerServico(s, i)

Spec == Init /\ [][Next]_vars

-----------------------------------------------------------------------------
(* What must hold. *)

\* Nobody is told of what is not in the database: a mail tells a version of the
\* row that was stored, and the stored words when that version is still there;
\* requests that died, were repeated or were refused leave no message behind.
AvisoDoGravado ==
  \A t \in Tabelas, i \in Ids :
    LET a == avisado[t][i]  l == linhas[t][i] IN
      a # Nenhum =>
        /\ a.versao \in 1..versao[t][i]
        /\ a.versao = versao[t][i] => a.quem = l.quem /\ a.dados = l.dados

\* Once the last save of a row was announced, the last mail that went out about it
\* tells what the row says, unless two requests on the row overlapped: then an
\* older mail may arrive after the newer one.
UltimoAvisoVale ==
  \A t \in Tabelas, i \in Ids :
    Existe(t, i) /\ ~calado[t][i] /\ ~paralelo[t][i] =>
      avisado[t][i] = [versao |-> versao[t][i], quem |-> linhas[t][i].quem,
                       dados |-> linhas[t][i].dados]

\* Saving a form changes only the field that the user changed, as long as nobody
\* saved the row since the form was loaded: only a stale form undoes the work of
\* somebody else.  (The word "Atendida" turns into that of the form.)
SoMudaOQueFoiMudado ==
  [][\A s \in Sessoes :
       LET f == tela[s] IN
         Gravar(s) /\ f.id # Nenhum /\ f.versao = versao[f.tabela][f.id] =>
           \A c \in Colunas \ {f.mudou} :
             linhas'[f.tabela][f.id][c] \in
               {linhas[f.tabela][f.id][c],
                IF c = "status" /\ linhas[f.tabela][f.id][c] = "Atendida" THEN "Atendido"
                ELSE linhas[f.tabela][f.id][c]}]_vars

\* What servicos.php finished stays finished: saving the row from the agenda does
\* not take it out of the services and reports, which read status 'Concluída'.
ConcluidaFica ==
  [][\A i \in Ids :
       Existe("manutencoes", i) /\ linhas["manutencoes"][i].status = "Concluida"
         => linhas'["manutencoes"][i].status = "Concluida"]_vars

Encontrada(l) == \E o \in OpcoesFiltro : l.status = o

\* A request saved by the page is in the result of one of the filters of the page;
\* one that is in none holds the ENUM's word, was never saved since, and under
\* MySQL can be saved only by giving it another status.
SolicitacaoEncontrada ==
  \A i \in Ids :
    LET l == linhas["solicitacoes"][i] IN
      l # Nenhum =>
        \/ Encontrada(l) /\ (banco = "mysql" => l.status # "Atendido")
        \/ l.status = "Atendida" /\ versao["solicitacoes"][i] = 1

=============================================================================
