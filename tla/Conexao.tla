------------------------------- MODULE Conexao -------------------------------
(***************************************************************************)
(* inc/db.php as the pages use it: every request opens MySQL or, when that *)
(* fails, the file oficina.sqlite, and keeps what it opened until it ends. *)
(* The two databases are two copies of each table with ids of their own;   *)
(* what a form loaded from one may be saved into the other.  clientes.php  *)
(* and the other registers list, load and save in this way.                *)
(*                                                                         *)
(* A request makes its connection in one step and runs its statement in    *)
(* another.  A row is known by the save that inserted it.                  *)
(***************************************************************************)
EXTENDS Naturals, Sequences, FiniteSets

CONSTANTS
  Usuarios,      \* the people at the browsers
  Servidores,    \* the workers: one request each
  MaxSalvos,     \* bound on the number of saves
  MaxTrocas,     \* bound on how often MySQL goes or comes back
  Nada           \* no row, no form, no request

ASSUME ConexaoConstantes ==
  MaxSalvos \in Nat /\ MaxTrocas \in Nat /\ IsFiniteSet(Servidores)

Bancos == {"mysql", "sqlite"}

\* One row was there before in each database.
Ids == 1..MaxSalvos + 1

\* What inserted a row: a save, or whoever filled the database before.
Antiga(b) == MaxSalvos + (IF b = "mysql" THEN 1 ELSE 2)
Origens == 1..MaxSalvos \cup {Antiga(b) : b \in Bancos}

VARIABLES
  mysql,      \* the MySQL server answers
  trocas,     \* history: how often that changed
  linhas,     \* the rows in each database, in the order of their ids
  salvos,     \* saves so far
  form,       \* the form each user has open
  pagina,     \* the list each user was last shown
  ultimo,     \* history: the last save each user was told of
  curso       \* the request of each worker

varsConexao == <<mysql, trocas, linhas, salvos, form, pagina, ultimo, curso>>

\* quando: the value of trocas when the request that filled it connected.
Formulario ==
  [banco : Bancos, id : Ids, linha : Origens, quando : 0..MaxTrocas]
    \cup [id : {Nada}]

Pedido == [de : Usuarios, op : {"listar", "carregar", "salvar"}, id : Ids \cup {Nada},
           banco : Bancos \cup {Nada}, quando : 0..MaxTrocas]

Salvo == [banco : Bancos, quando : 0..MaxTrocas, editado : BOOLEAN,
          pretendida : Origens, atingida : Origens \cup {Nada}, origem : Bancos, desde : 0..MaxTrocas]

TypeOKConexao ==
  /\ mysql \in BOOLEAN
  /\ trocas \in 0..MaxTrocas
  /\ linhas \in [Bancos -> Seq(Origens)]
  /\ \A b \in Bancos : Len(linhas[b]) \in Ids
  /\ salvos \in 0..MaxSalvos
  /\ form \in [Usuarios -> Formulario \cup {Nada}]
  /\ pagina \in [Usuarios ->
       [banco : Bancos, quando : 0..MaxTrocas, linhas : SUBSET Origens] \cup {Nada}]
  /\ ultimo \in [Usuarios -> Salvo \cup {Nada}]
  /\ curso \in [Servidores -> Pedido \cup {Nada}]

\* Each database has a row with id 1, of its own.
InitConexao ==
  /\ mysql \in BOOLEAN
  /\ trocas = 0
  /\ linhas = [b \in Bancos |-> <<Antiga(b)>>]
  /\ salvos = 0
  /\ form = [u \in Usuarios |-> Nada]
  /\ pagina = [u \in Usuarios |-> Nada]
  /\ ultimo = [u \in Usuarios |-> Nada]
  /\ curso = [a \in Servidores |-> Nada]

-----------------------------------------------------------------------------
EmCurso(u) == \E a \in Servidores : curso[a] # Nada /\ curso[a].de = u

Receber(a, u, op, id) ==
  /\ curso[a] = Nada
  /\ ~EmCurso(u)
  /\ curso' = [curso EXCEPT ![a] =
       [de |-> u, op |-> op, id |-> id, banco |-> Nada, quando |-> 0]]
  /\ UNCHANGED <<mysql, trocas, linhas, salvos, form, pagina, ultimo>>

PedirLista(a, u) == Receber(a, u, "listar", Nada)

\* "Editar" beside a row of the list on the screen.
PedirLinha(a, u) ==
  /\ pagina[u] # Nada
  /\ \E i \in Ids :
       /\ i <= Len(linhas[pagina[u].banco])
       /\ linhas[pagina[u].banco][i] \in pagina[u].linhas
       /\ Receber(a, u, "carregar", i)

\* The empty form is on the page of the list.
PedirNova(u) ==
  /\ ~EmCurso(u)
  /\ pagina[u] # Nada
  /\ form[u] = Nada
  /\ form' = [form EXCEPT ![u] = [id |-> Nada]]
  /\ UNCHANGED <<mysql, trocas, linhas, salvos, pagina, ultimo, curso>>

Gravando == {a \in Servidores : curso[a] # Nada /\ curso[a].op = "salvar"}

PedirGravacao(a, u) ==
  /\ form[u] # Nada
  /\ salvos + Cardinality(Gravando) < MaxSalvos
  /\ Receber(a, u, "salvar", form[u].id)

Pedir(a, u) ==
  PedirLista(a, u) \/ PedirLinha(a, u) \/ PedirNova(u) \/ PedirGravacao(a, u)

-----------------------------------------------------------------------------
\* Variant: no fallback, the connection is left empty.
Escolha_SemArquivo(op) == IF mysql THEN "mysql" ELSE "nenhum"

\* Variant: requests that save open the local file.
Escolha_PorOperacao(op) == IF mysql /\ op # "salvar" THEN "mysql" ELSE "sqlite"

\* The first that opens; where the local file does not either, the request fails.
Escolha(op) == IF mysql THEN "mysql" ELSE "sqlite"

\* db_connect: the answer is kept in a static variable until the request ends.
Conectar(a) ==
  /\ curso[a] # Nada
  /\ curso[a].banco = Nada
  /\ curso' = [curso EXCEPT ![a].banco = Escolha(curso[a].op), ![a].quando = trocas]
  /\ UNCHANGED <<mysql, trocas, linhas, salvos, form, pagina, ultimo>>

\* MySQL stopped after the request connected, even if it is back by now.
Perdida(a) == curso[a].banco = "mysql" /\ curso[a].quando # trocas

Conectado(a, op) ==
  /\ curso[a] # Nada
  /\ curso[a].banco # Nada
  /\ curso[a].op = op
  /\ ~Perdida(a)

Terminar(a) == curso' = [curso EXCEPT ![a] = Nada]

Visiveis(b) == {linhas[b][i] : i \in 1..Len(linhas[b])}

\* SELECT: the list as the database that was opened has it.
Listar(a) ==
  /\ Conectado(a, "listar")
  /\ LET c == curso[a] IN
       /\ pagina' = [pagina EXCEPT ![c.de] =
            [banco |-> c.banco, quando |-> c.quando, linhas |-> Visiveis(c.banco)]]
       /\ form' = [form EXCEPT ![c.de] = Nada]
  /\ Terminar(a)
  /\ UNCHANGED <<mysql, trocas, linhas, salvos, ultimo>>

\* SELECT ... WHERE id: a form with that row, or the empty one when there is none;
\* the list is on the same page.
Carregar(a) ==
  /\ Conectado(a, "carregar")
  /\ LET c == curso[a] IN
       /\ form' = [form EXCEPT ![c.de] =
            IF c.id <= Len(linhas[c.banco])
            THEN [banco |-> c.banco, id |-> c.id, linha |-> linhas[c.banco][c.id],
                  quando |-> c.quando]
            ELSE [id |-> Nada]]
       /\ pagina' = [pagina EXCEPT ![c.de] =
            [banco |-> c.banco, quando |-> c.quando, linhas |-> Visiveis(c.banco)]]
  /\ Terminar(a)
  /\ UNCHANGED <<mysql, trocas, linhas, salvos, ultimo>>

\* UPDATE ... WHERE id: the row it writes over, or none, which is no error.
Atingida(b, i) == IF i <= Len(linhas[b]) THEN linhas[b][i] ELSE Nada

\* The row goes where the request is connected; the redirect says it is done.
Editar(a) ==
  /\ Conectado(a, "salvar")
  /\ curso[a].id # Nada
  /\ salvos' = salvos + 1
  /\ LET c == curso[a]  f == form[c.de] IN
       ultimo' = [ultimo EXCEPT ![c.de] =
         [banco |-> c.banco, quando |-> c.quando, editado |-> TRUE, pretendida |-> f.linha,
          atingida |-> Atingida(c.banco, c.id), origem |-> f.banco, desde |-> f.quando]]
  /\ form' = [form EXCEPT ![curso[a].de] = Nada]
  /\ pagina' = [pagina EXCEPT ![curso[a].de] = Nada]
  /\ Terminar(a)
  /\ UNCHANGED <<mysql, trocas, linhas>>

\* Variant: new rows always go to the local file.
Inserida_NoOutro(b, n) == [linhas EXCEPT !["sqlite"] = Append(@, n)]

Inserida(b, n) == [linhas EXCEPT ![b] = Append(@, n)]

\* The redirect says it is done; without it, as when the connection or the process goes
\* before the INSERT is known to have worked, the row is there, and so is the form.
Inserir(a) ==
  /\ Conectado(a, "salvar")
  /\ curso[a].id = Nada
  /\ salvos' = salvos + 1
  /\ linhas' = Inserida(curso[a].banco, salvos + 1)
  /\ \/ LET c == curso[a] IN
          /\ ultimo' = [ultimo EXCEPT ![c.de] =
               [banco |-> c.banco, quando |-> c.quando, editado |-> FALSE,
                pretendida |-> salvos + 1, atingida |-> salvos + 1, origem |-> c.banco,
                desde |-> c.quando]]
          /\ form' = [form EXCEPT ![c.de] = Nada]
          /\ pagina' = [pagina EXCEPT ![c.de] = Nada]
     \/ UNCHANGED <<ultimo, form, pagina>>
  /\ Terminar(a)
  /\ UNCHANGED <<mysql, trocas>>

\* An exception nobody catches: neither database opens, and the page calls prepare or
\* query on the null that db_connect returns, or a statement fails on an open one (a
\* lost MySQL, a busy SQLite).  The form is still on the screen and can be sent again.
Falhar(a) ==
  /\ curso[a] # Nada
  /\ curso[a].banco = Nada => ~mysql
  /\ Terminar(a)
  /\ UNCHANGED <<mysql, trocas, linhas, salvos, form, pagina, ultimo>>

\* MySQL stops, or is started again.
Trocar ==
  /\ trocas < MaxTrocas
  /\ trocas' = trocas + 1
  /\ mysql' = ~mysql
  /\ UNCHANGED <<linhas, salvos, form, pagina, ultimo, curso>>

Atender(a) ==
  Conectar(a) \/ Listar(a) \/ Carregar(a) \/ Editar(a) \/ Inserir(a) \/ Falhar(a)

-----------------------------------------------------------------------------
\* A save changes the row its form was loaded from: another row with that id, or no
\* row at all, is only reached in the other database, which takes MySQL to have come
\* or gone since the form was loaded.  This is what makes the choice of db_connect
\* (db.php:127-159) safe where MySQL is always there or never.
GravaNaMinha ==
  \A u \in Usuarios :
    LET s == ultimo[u] IN
      s # Nada /\ s.atingida # s.pretendida => s.banco # s.origem /\ s.quando # s.desde

\* What a user saved is on every list shown to that user afterwards, unless MySQL came
\* or went in between: the fallback hides rows, and hides them without a word.
SumicoExplicado ==
  \A u \in Usuarios :
    LET s == ultimo[u]  p == pagina[u] IN
      s # Nada /\ p # Nada /\ s.atingida \notin p.linhas \cup {Nada}
        => p.banco # s.banco /\ p.quando # s.quando

=============================================================================
