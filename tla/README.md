# Oficina Inteligente: TLA+ specifications

Models, model-checking runs and machine-checked proofs of the workshop manager
in this repository: `public/*.php`, `inc/*.php`, `iniciar_oficina.bat`, and the parts
of the bundled PHP interpreter that the pages' correctness rests on. Names of
state, operations and screens are those of the code where TLA+ allows it, so the
identifiers are in Portuguese; comments are in English.

    tlc -workers 2 -config MCUmAtendente.cfg MCEstoque     # any run: cfg, module
    tlapm EstoqueProofs.tla                                # any *Proofs module

`PROJECT.json` lists every run with its module, the source lines of every
definition, one mutant per checked property, the hazards and the theorems.

## 1. The system

A PHP application without a framework. Each page under `public/` is a script that
reads and writes one relational database directly, through the small PDO wrapper
of `inc/db.php`. There are no transactions, no `DELETE`s, no background jobs; what
runs concurrently are the requests.

* **Deployment.** `iniciar_oficina.bat` starts `php -S`, which serves one request
  at a time, on port 8000. There are several workers on one database when the
  script is run again while a slow server is still on its way to the port (Windows
  lets two sockets with `SO_REUSEADDR` share it), with `PHP_CLI_SERVER_WORKERS`, or
  under the Apache and MySQL that the repository's README names. The second port
  of the script, 8080, is never used: `%ERRORLEVEL%` in line 60 is expanded when cmd
  reads the block, so the result of the first probe decides again.
* **Output.** The script starts `php -S` with no `php.ini`, so output is not buffered;
  `php.ini-development` sets a buffer of 4096 bytes. `login.php` works only with one.
* **Session lock.** `session_start` (`inc/auth.php:4`) locks the session's file to
  the end of the request: requests of one browser are served one by one, those of
  two browsers are not. The lock is on a file, the session is a name, and the two
  part when a name is removed (`Sessao`).
* **Statements.** PDO commits every statement on its own. A statement that fails
  throws, and no page catches the exception; a server's window can be closed at any
  time. So a request can end between any two steps, also after it wrote and before it
  answered.
* **Two databases.** Every request tries MySQL and falls back to `oficina.sqlite`.

### Inventory

| component | state it keeps | operations | interacts with | status |
|---|---|---|---|---|
| Serviços (`servicos.php`) | `pecas.quantidade_estoque`, rows of `manutencoes` with status `Concluída` | finish a service: read the stock, check every row, one `UPDATE` per row, `INSERT`, mail; mail a recorded service again; view | Peças (same column), the agenda (same table), `enviar_email` | modelled |
| Peças (`pecas.php`) | `pecas` | load into a form, write every column back (the insert always throws) | Serviços, Orçamentos (prices) | modelled |
| Rows of parts (script of `servicos.php` and `orcamentos.php`) | the rows on the screen and their field names | add, choose, remove, post, redraw | the handlers, through `$_POST['itens']` | modelled |
| Autenticação (`inc/auth.php`, `login.php`, `logout.php`) | `usuarios`, the session files | login, register, logout, `require_login` | every page, the interpreter | modelled |
| Registers (`clientes.php`, `fornecedores.php`, `manutencoes.php`, `solicitacoes.php`) | their tables | insert, overwrite a row, mail on every save, filter by status | Serviços, everything that mails | modelled |
| Orçamentos (`orcamentos.php`) | `orcamentos` | price and save, mail, mail again, view | Peças, `enviar_email` | modelled |
| Conexão (`inc/db.php`) | one static connection per request; the choice of MySQL or SQLite | connect with fallback, bind, execute, fetch | every page | modelled |
| Iniciador (`iniciar_oficina.bat`) | ports, the server processes | probe, start, poll, give up, open the browser | one server more or less | modelled |
| `create_db.sql` | none | data definition | Registers (ENUM) | partly |
| PHP 8.5.9 (`php-8.5.9-src/`) | session files, ports | open, lock, write, remove; bind | Autenticação, Iniciador | partly |
| Relatórios (`relatorios.php`) | none | five reads | all tables | not modelled |
| Installer, shortcuts, `converter_logo.py`, PHPMailer | none that matters here | file copies, image conversion, SMTP | `enviar_email` | not modelled |

### What is hard in it, and what makes each part correct

* **Serviços and Peças.** The stock is checked against a snapshot and changed
  several statements later, row by row; the same column is overwritten by the
  form of a part; the answer to the POST has no redirect; the mail follows the
  `INSERT`. Correct means: no stock below zero, no service without its units, no
  `UPDATE` lost, whatever a dead request leaves behind is some whole rows of one
  service, and messages and mails agree with the database.
* **Rows of parts.** Field names are computed from the number of rows. Correct
  means: the handler receives the rows on the screen.
* **Autenticação.** Look-up and insertion are two statements; `session_destroy`
  unlocks the file before it removes the name, the collector removes names with no
  lock at all, and the answer of a login leaves before its session is written, if its
  process lives that long; `login.php` opens the session after its HTML. Correct means: e-mails unique, true
  answers, pages only for who is logged in, a login that works, a logout that is
  final.
* **Registers.** A whole row is written from a form that may be stale; row,
  recipient and mail are three steps; the same status has two spellings; a
  finished service is a row of the agenda. Correct means: mails tell what is
  stored, a save changes what its user changed, finished stays finished.
* **Orçamentos.** The total is stored beside one price and the sum of quantities,
  while prices change. Correct means: row, mails and view agree.
* **Conexão.** The choice of database is made again in every request. Correct
  means: a save reaches the row its form came from and is there on the next page.
* **Iniciador.** The port is probed, the server started and polled without
  anything held in between. Correct means: one server per port.

All of these are in `PROJECT.json`, "hazards", each at its line.

## 2. Modules

| module | models | uses |
|---|---|---|
| `Estoque` | stock, services, the part form; workers, session lock, death of requests, mail | |
| `EstoqueAbstrato` | what the workshop wants: a service is one atomic step | |
| `EstoqueRefino` | the refinement mapping from `Estoque` to `EstoqueAbstrato` | `Estoque`, `EstoqueAbstrato` |
| `EstoqueContas` | the books: what rows, requests and services took of each part, and the two invariants about it | `Estoque` |
| `MCEstoque` | constants for TLC | `EstoqueRefino`, `EstoqueContas` |
| `EstoqueProofs` | theorems | `Estoque` |
| `EstoqueContasProofs` | theorems: the refinement and the books | `EstoqueRefino`, `EstoqueContas`, `EstoqueProofs`, `Somas` |
| `FormItens` | rows of parts of a form, from the click to PHP's array and back | |
| `FormItensProofs` | theorems | `FormItens`, `Somas` |
| `Sessao` | session files: names, locks, what is written, what is removed | |
| `Autenticacao`, `MCAutenticacao` | users, login, registration, logout, protected pages, the collector | `Sessao` |
| `AutenticacaoProofs` | theorems | `Autenticacao` |
| `Registros`, `MCRegistros` | clients, suppliers, agenda, requests of parts, their notices | |
| `Orcamentos`, `MCOrcamentos` | quotations | |
| `Conexao` | MySQL and SQLite, chosen request by request | |
| `Iniciador` | the script, its ports and servers | |
| `Implantacao`, `MCImplantacao` | the servers of `Iniciador` serving the requests of `Conexao` | both |
| `RegistrosProofs` | theorems | `Registros` |
| `OrcamentosProofs` | theorems | `Orcamentos`, `Somas` |
| `ImplantacaoProofs` | theorems about the script, the requests, and the two together | `Implantacao` |
| `Somas` | lemmas about sums over finite sets, and the least and the greatest of a set | |

Operators named `X_Something` above an operator `X` are variants of it with a
plausible mistake; nothing uses them but the mutants listed in `PROJECT.json`.

### Estoque

*State.* `estoque` is the column `quantidade_estoque`; `servicos` the finished rows
of `manutencoes`; for each worker of the web server, `fase` is where it stands in
the script, `pedido` the request it serves and `linha` the row whose `UPDATE` comes
next; `tela` is the last answer a session was shown, `edicao` the part form it has
open. `baixas` (the `UPDATE`s executed) and `emails` (the mails that left) are
history, and `proximo` numbers the requests.

*Actions* (lines of `public/servicos.php` unless said):

| action | code |
|---|---|
| `Postar` | one of the two submit buttons, 420-426; inputs 19-29 |
| `Recarregar` | the same POST again, because 137-246 answer without a redirect |
| `Aceitar`, `Recusar` | the `SELECT` of 49 and all the checks of 164-196 on what it returned; without a connection (43) the list of parts is empty and everything is refused |
| `DarBaixa` | one turn of the loop 199-206 |
| `RegistrarServico` | the `INSERT` 208-214 |
| `EnviarEmail` | 225-226 with `inc/enviar_email.php:18-46`, when 216-225 find a mail to send (`TemEnvio`); a failure may be reported for a message that the server took |
| `ResponderServico` | the message of 227-243 (`AvisoDoServico`) and the page |
| `Abortar` | an exception nobody catches, or the end of the process, before any of these steps: after the `INSERT` and before the mail, after the mail and before the answer |
| `AbrirEdicao`, `SalvarSemMexer`, `Ajustar` | `public/pecas.php` 35-39 and 10-34 |

The `SELECT` and the checks are one step because the checks read nothing but its
result. Prices, descriptions and the text of the mail are left out. A form is a
client or none, a sequence of rows and a button; `Quantidade` keeps the
`max(1, ...)` of line 173. A form with no rows stands for the page's fallback to
`peca_id` too (lines 27-29), as no field of the page has that name.

*Abstraction.* In `EstoqueAbstrato` a service is one step, `Finalizar`, guarded by
enough of every part. Since the code has no transactions the promise has a second
half: a service that breaks off is lost, `Perder`, with at most some of its parts,
each with its whole quantity and each of which was there. The third is the count of
a part (`Contar`), which only somebody who holds the sheet of that very part can
hand in; `EstoqueRefino` maps the sheets to the forms that `pecas.php` loaded, so no
step of a service passes for a count while no form of that part is open.

What the refinement excludes: a recorded service with parts missing, a service
recorded twice by one request, parts taken that were not there, a stock that rises
with no form of that part open. A row of which less is taken than it says is one of
these, since the mapping counts the row as it stands in the form (`Descontado_Unidade`
is the mutant). What it does not: `Perder` does not say which form broke off, so a row
of which too much is taken is excluded only when the excess is not the whole quantity
of that part in some form; and while the form of a part is open, any balance of that
part may be a count. `ContasFecham` compares the quantities one by one and depends on
neither, with nobody editing.

### FormItens

`linhas` are the rows on the screen with the index in their names, `recebido` the
array PHP builds from the last POST, `visto` what the rows showed then. A row is two
fields with two names, `itens[i][peca_id]` and `itens[i][quantidade]`, and `Coletar` is
their decoding one by one (`GuardarPeca`, `GuardarQuantidade`, `php_variables.c:286-325`): a
field finds the entry of its index or makes one, in the last place, and leaves the
entry's other field as it was; a field that never comes is read with the default of
`servicos.php:172-173`. So an entry could well end with the part of one row and the
quantity of another; `NadaMisturado` says that no editing brings that about. The answer redraws the posted rows under their keys
(lines 378-399), so `Enviar` replaces `linhas` by `recebido`. `buracos` counts the
rows removed from above others: the only edits that make names collide.

### Sessao and Autenticacao

`Sessao` is `ext/session/mod_files.c` as a request meets it. A session is a *name*;
`nome` says which file it leads to, `conteudo` which user is in each file. A worker
opens by name, creating the file when the name is missing (`AbrirArquivo`), then
waits for its lock (`TrancarArquivo`), and writes through the descriptor it has
(`GravarArquivo`). `session_destroy` closes, and so unlocks, first and removes the
name afterwards (`SoltarArquivo`, `ApagarNome`, `mod_files.c:603`), and the collector
removes names without a lock (323). So a request may hold, or wait for, a file no
name leads to any more, while a new file is born under the same name. The files
follow POSIX: an open file outlives its name. On Windows a removal of an open file
takes effect when the last handle closes, and the name cannot be reused until
then; the interleavings in which two files have had one name are those of the
other systems the README names. As many files as names and workers, less one, are
enough for a new one always to be there, since nobody creates one who has one open.

`Autenticacao` puts the steps in order. A step is one SQL statement or one use of
the session. `buffer` says whether PHP buffers output: `login.php` includes `auth.php`
after 2358 bytes of HTML, which fit in the 4096 of `php.ini-development` and are sent
at once under PHP's default of 0, where `session_start` and `header` then fail
(`ComSessao`): run `sem_buffer`. A login that succeeds answers in `FazerLogin` and writes its session in
`Fechar`, since output is flushed before the session extension shuts down
(`main.c:1985`). `Cair` is the end of a request's process at any point, between those
two steps included: its file is closed as it is and its lock goes with it. A
process that ends after a removal or an `INSERT` and before the answer is the branch
without an answer of `Apagar` and `InserirUsuario`. `InserirUsuario` has the branch the code does not test for: the
violated `UNIQUE` is an exception. `apagada`, `entraram` and `confirmado` are history;
`confirmado` is an obligation that only the removal of the name and the end of the
login's own process take back. A login on a file that lost its name neither takes on
an obligation nor drops that of another.

### Registros

The four pages that keep one row per form differ in the columns they write, in
whether they mail and to whom, and in defaults: `Gravadas`, `Avisa`, `Destinatario`,
`Padrao`. `Carregar`, `Preencher` and `Digitar` make a form; `Postar` and `CliqueDuplo`
send it; `Gravar` is the statement, with the refusal of a status that MySQL's ENUM
does not know; `LerDestinatario`, `Enviar` and `Redirecionar` follow. `LerServico` and
`Reenviar` are the button of `servicos.php` that mails a finished row as it is by
then. Every request may end before each of its steps (`Abortar`). Versions of rows
and what was told of them are history.

### Orcamentos

`Ler` takes the prices, `Inserir` stores the row built by `Linha` (the first posted
part, `Principal`, even when it is not in the list, as one shown from the other
database (`Outras`) is not; the price of the first valid row, `Primeira`; all quantities, the total of all rows, never below zero) when there is a
database and announces it all the same when there is none, `Enviar` mails what was
computed, `LerGuardado` and `Reenviar` what was stored, `Vista` is the page of a stored
quotation. `MudarPreco` is `pecas.php`, at any time.

### Conexao, Iniciador and Implantacao

In `Conexao` each database has rows of its own whose ids overlap. `Conectar` is the
choice, `Escolha`, kept until the request ends; the statement is a later step. It
fails when MySQL stopped after the connection was made, may fail on either database
(a busy SQLite), and so does the request when neither opened and the page uses the
null that `db_connect` returns (`Falhar`); an `INSERT` may also be done and the user not
told. Forms and lists remember, as history, which database they came from and when.

In `Iniciador` a run of the script goes through `etapa`; its server through
`servidor`: nothing, on its way, listening, gone. `NetstatMostra` is what the probe
sees, other programs and lingering connections included. `Ouvir` always sets
`SO_REUSEADDR`, which on Windows lets a server share a port with whoever has it,
another program too, and elsewhere does not: both outcomes are there. A poll may
fail although somebody listens, as the only worker may be busy.

`Implantacao` composes them: the servers of the script are the workers of the
requests (`Servidores = Lancamentos`). `Navegar` needs a server that listens, `Fechar`
takes the request in course along, everything else is a step of one side.

## 3. Runs

| run | instance | shows |
|---|---|---|
| `um_atendente` | 1 worker, 2 sessions, an editor, deaths, 3 requests, 2 forms with the parts in opposite orders | stock never below zero (`EstoqueNaoNegativo`), `ServicoTemBaixa`, `MensagemVerdadeira`, `EmailSoDeServico`, and the refinement `ServicoAtomico`; 1.1 million states |
| `varios_atendentes` | 2 workers, 2 sessions, 4 requests, 2 units of each part, 3 forms, one incomplete and one of a client with no address | `ContasFecham` (no `UPDATE` lost), `DescobertoLimitado` (how far below zero), `MensagemVerdadeira`, `TelaNaoRetrocede`; a request whose parts start leaving the stock is recorded (`AceitoFicaRegistrado`) |
| `form_itens` | up to 3 rows of two fields, 2 of them removed from above others | `PerdaLimitada`: at most one row lost per such removal, none when only last rows are removed; `NadaMisturado`: what arrives is some row of the screen, part and quantity together |
| `autenticacao` | 1 browser, 3 workers that may end anywhere, 3 files, 2 e-mails, 2 passwords, an inactive user, with and without buffering | `SaidaVale` (logout is final), `LoginTemEfeito`, `PaginaDeQuemEntrou`, `SessaoDeUsuario`, `EmailUnico`, `CadastroVerdadeiro` |
| `registros` | 2 sessions, 2 workers, 2 posts, 2 rows, either database, the agenda with clients or the requests of parts with suppliers | `AvisoDoGravado`, `UltimoAvisoVale`, `SoMudaOQueFoiMudado`, `SolicitacaoEncontrada`, `ConcluidaFica` |
| `orcamentos` | 2 sessions, 2 posts, 2 parts and one of the other database, 2 prices | `UmPreco`, `VistaSomaComUmPreco`, `SalvoSeHouveBanco` |
| `implantacao` | 2 runs of the script, 1 poll, 1 user, 2 saves, MySQL changing twice, 1 window closed | `GravaNaMinha`, `SumicoExplicado`, `UmServidorPorPorta` |

Each run but `varios_atendentes` checks its module's type invariant too. Five runs expect a violation: each states what the repository says of itself
and TLC shows what the code does instead ("findings" quotes the line).

| run | what happens |
|---|---|
| `peca_repetida` | two rows with one part are both granted the whole stock |
| `edicao` | saving a price writes the old stock back |
| `registro_duplo` | the second of two registrations ends in an exception |
| `sem_buffer` | with PHP's default of no buffering, which is how `iniciar_oficina.bat:78` starts it, a login with the right password neither redirects (`AUTENTICACAO.md:81`) nor logs in |
| `segunda_porta` | port 8000 in use: the script gives up with 8080 free |

**What the conditional properties do not say.** Eight properties hold unless the very
thing that endangers them happened, and are silent when it did. They bound the
damage and name its one cause; they do not catch it:

| property | silent when |
|---|---|
| `UltimoAvisoVale` | two requests on the row overlapped: the older may mail last (`manutencoes.php:31`) |
| `SolicitacaoEncontrada` | the row is not one the page saved: rows `Atendida`, and the save of `Atendido` that MySQL's ENUM refuses |
| `SoMudaOQueFoiMudado` | the form was stale: a save then undoes the saves made since it was loaded (`clientes.php:19`) |
| `VistaSomaComUmPreco` | the parts of the quotation have different prices: the view then does not add up (`orcamentos.php:165`) |
| `SalvoSeHouveBanco` | there was no database: "salvo" is then said of nothing (`orcamentos.php:206`) |
| `GravaNaMinha`, `SumicoExplicado` | the choice of database changed in between: another row may be overwritten, and rows may be missing from lists |
| `UmServidorPorPorta` | a port was probed while a server was on its way to it: two servers may share it |

The same goes for a service finished twice by a reload: `ContasFecham` and
`ServicoTemBaixa` say that each of the two took its parts, not that there is one.
`LoginTemEfeito` is silent about a login whose own process ended before the write.

**Why the bounds are enough.** `MaxPedidos` bounds the requests: the hazards need
two requests in contention and one more that sees the result. Two parts in
opposite orders in two forms give the interleavings of the loops; a stock of 2 or 3
with uses of 2 and 1 makes a request be granted, refused, and granted from a
snapshot that is no longer true. Two removals and three rows allow a collision to
be made, posted, redrawn and made again. Of a browser's requests, three at once
are what the session files need: one that holds a file without a name, one that
waits for it, and one at the file that replaced it; browsers share nothing but the
table of users, where the race takes two. In `registros` two posts and as many
reads of a row give the late mail and the stale form; each pair of tables is
checked by itself, as no page writes a table of the other pair. Prices 1 and 4 with
quantities 2 and 1 tell every mistaken sum from the right one. A part that the list does not have tells the first
posted part from the first valid one. MySQL has to go and
come back once, two saves let a row of one database be overwritten with the form of
another, and two servers on one port already take requests in any order.
`MaxTentativas` is 20 in the script; what happens at the last poll does not depend on
how many came before.

**Deadlock.** `CHECK_DEADLOCK FALSE` is set where the system may stop: requests are
bounded and there is no editor (`varios_atendentes`, `peca_repetida`), or each run of
the script has ended (`segunda_porta`, `implantacao`).

**Symmetry** of browsers, workers and files (`autenticacao`), sessions and data
(`registros`), sessions (`orcamentos`) and runs of the script (`implantacao`): they are
only compared, and no run that uses it checks liveness.

**Fairness.** Only `Estoque` states it, and `AceitoFicaRegistrado` is the only liveness
property: `WF` of a worker's own steps. A script that started runs to its end, since
PHP schedules nothing else on the worker, SQLite and MySQL return from every
statement (or throw: `Abortar`) and PHPMailer gives up after its timeout. Nothing is
assumed of users or of which waiting request is served next. The run with liveness
takes `Falhas = FALSE`: a request that died does not get recorded. The other modules
claim safety only.

## 4. Proofs

Nothing is assumed but the named assumptions on the constants, which TLC evaluates
in every run, and the hypotheses each theorem states. Every theorem is for any
values of the constants.

**Estoque** (`EstoqueProofs`)

* `TypeCorrect`. `TypeOK` is not inductive: a row is only indexed because its worker is
  busy with a request. `PedidoEmCurso` adds that.
* `ServicoComBaixa`, deaths included. `BaixasFeitas` says of a request in its loop that
  every row before `linha` has its `UPDATE`; it becomes the claim when `linha` passes
  the last row.
* `SemDescoberto`: `EstoqueNaoNegativo` when there is one worker, each form names a part
  once and editors type naturals. `SaldoInv` says that the rows still ahead of the
  running request are covered by the stock, and that an open part form holds a
  natural. The three hypotheses are each necessary: with two workers both may check
  before either takes (`varios_atendentes` reaches the limit of `DescobertoLimitado`),
  run `peca_repetida` drops the second, and a negative number typed in `pecas.php:109`
  (no `min`) is the third.
* `MensagensVerdadeiras`. `MensagemInv` follows a request from its number (not used
  before, so nothing of it is in the tables when it is refused) to the answer.
* `EmailDeServicoGravado`: a request in its mail is recorded.
* `TelasEmOrdem`, an action property. `OrdemInv`: a running request has a number above
  that of its session's screen, and no session has two requests, which is the lock.
* `EstoqueContasProofs!Refinamento`: with one worker, `Spec` implements `EstoqueAbstrato`,
  deaths included. `DarBaixa` maps to a stutter because the mapped balance counts rows
  already taken by the running request as still on the shelf; the `INSERT` maps to
  `Finalizar`, whose guard is `SaldoInv`; a death in the loop maps to `Perder` of the rows
  before `linha`; an edit maps to a count, and the form it was typed in to the sheet
(`AberturaPegaFolha`).
* `EstoqueContasProofs!ContasSempreFecham`: `ContasFecham` for any finite number of
  workers, with nobody editing parts and no request dying. Both are needed: an edit
  overwrites the stock, and a dead request leaves rows taken that no service and no
  running request accounts for. `ContasFecham` is inductive once the rows already
  taken are within the form (`LinhaInv`) and the services are finitely many: an `UPDATE`
  moves one row from the stock to its request (`SomaPrimeiro` adds a row to a prefix,
  `SomaTroca` changes one term), the `INSERT` moves a request's rows to a new service
  (`SomaAcrescenta`).
* `EstoqueContasProofs!DescobertoSempreLimitado`: `DescobertoLimitado` for any finite number
  of workers, deaths included; nobody edits parts and a form names each part once.
  `DescobertoLimitado` alone is not inductive: the next `UPDATE` of a granted request could
  cross the limit. `DescobertoInv` says it of the stock less everything the running
  requests have still to take. An `UPDATE` leaves that as it is, the end or the death of
  a request can only raise it, and the one step that lowers it, `Aceitar`, has just
  compared each row with the stock: what can be missing then is what the others have
  still to take, and each of them at most `MaiorConsumo`.

**Autenticacao** (`AutenticacaoProofs`). `SessaoInv` is the inductive invariant of the
session files: which phases have a file open (`ArquivoDaFase`), no two names lead to
one file (`NomesDistintos`), an open file is that of its request's session or lost its
name (`ArquivoDoPedido`), one lock per file (`UmTrancado`), a new file is empty
(`NovoVazio`), a page's user is in its file (`PaginaNoArquivo`), and what is about to be
written logged in (`ValorEntrou`). From it `SaidaDefinitiva`, `LoginNaoSePerde` and
`PaginaProtegida`. What `LoginNaoSePerde` rests on is the lock: between the answer of a
login and its write no other request of the session is past its own `flock`, and one
that ends leaves the file as it was. `SoAtivosEntram` follows a value from the table
of users through the request to the file (lemma `Procedencia`, `UsuarioInv`), and so does
`SemBufferSemEntrada` (`SemBufferInv`), which is no property of a run: it says that what
`sem_buffer` shows of one login goes for all, that without buffering nobody is ever in
a session; `SemEmailRepetido` and `CadastroNaoMente` need only the types.

**Registros** (`RegistrosProofs`). `RegistrosInv` adds to the three safety invariants what
makes them inductive: a notice on its way tells a version of its row, the present one
unless somebody else saved the row meanwhile (`AvisosInv`); a form that is up to date
shows its row but for the changed field (`FormInv`, which is also what `SoOMudado` rests
on); and whoever a notice goes to is in a table (`QuemInv`), from which rows never
disappear. `OQueGrava` says what the one statement leaves; `ConcluidaFicaSempre` follows
from it, since the column is not among those the agenda writes.

**Orcamentos** (`OrcamentosProofs`). Every row is `Linha(form, lidos, n)` for one form and
one reading of the prices, rows are only added, and a request on its way to a mail
has the row it is about (`PedidoBom`): so `UmPrecoSempre` and `SalvoQuerDizerSalvo`.
`TypeCorrect` and `VistaSoma` open the sums. A form whose rows name a part has at least
one unit (`QuantidadeTotalPositiva`), and a sum of products by one price is the price
times the sum (`SomaFator`), so `LinhaSoma` gives the page's line as price times
quantity, plus labour, less discount, or zero: `VistaSomaComUmPreco`, whatever the
number of rows.

**FormItens** (`FormItensProofs`). What has to be counted is neither rows nor
collisions but `Faltam`, the indices no row has among those from 0 to the number of
rows less one. A new row takes as its index the number of rows, so it adds none even
when it repeats another's; removing a row from above others adds one at most;
removing the last adds none, because rows never are below the place their index
says (`EmOrdem`); and the array of a POST has every index once (`ColetarFaz`), so the
page that answers lacks no other. With `n` rows and `k` indices missing at most `k` rows
share an index with another (`FaltamPoucas`): `PerdaSempreLimitada`, whose second half
is that `Coletar` is the identity on rows with distinct indices. `NadaSeMistura` is the
rest of `ColetarFaz`: an entry is changed by the first field of a row and again by the
second, under one index, so after each row every entry is some row, whole.

**Inductions over data.** What a sum or the array of a form is for every form would
be an induction over sets or rows, which takes an operator as a parameter that the
provers cannot instantiate. `Somas` and `FormItensProofs` take a smallest
counterexample instead: the finite sets, or the lengths, for which a lemma fails
have a least one (`ConjuntoMinimo`, `MenorExiste`, from the library's theorems that these
orders are well founded), and one element less gives the contradiction. That the
recursive functions are defined at all (`ParciaisExistem`, `ColhidasExistem`) is proved
the same way.

**Iniciador** (`ImplantacaoProofs`, first part). `PortasInv` relates a run's stage to its server, and
says that while no probe overlapped a start, all that is on its way to a port or
listens on it belongs to one run. `UmPorPorta` is its consequence for cardinalities.

**Conexao and Implantacao** (`ImplantacaoProofs`). Each step
of the whole is a step of one side or of both, so the two invariants are proved
apart. The core of `ConexaoInv` is `BancoEm`:
MySQL flips at each change, so the count of changes and the state now determine,
by parity, which database any past request was given. Forms, lists and saves then
carry a pair of database and count that agree with it (`MarcasInv`), a row loaded
from a database stays at its id there since nothing is ever deleted (`FormulariosInv`,
`AlvoInv`), and two requests with the same count have used the same database.
`SalvoNoLugar`, `SumicoSoPelaTroca`, `UmPorPortaNoSistema` and `TypeCorrect` follow.

**Only model-checked.** The liveness property, `AceitoFicaRegistrado`: fairness and
`ENABLED` are out of the prover's reach. Every invariant
and every action property that a passing run checks is a theorem; where a theorem has
hypotheses, the instance of the run satisfies them.

## 5. Not modelled

* `relatorios.php`: five `SELECT`s, one after the other, and nothing written.
* The `INSERT` of a new part: its type string has eight characters for seven values,
  so it throws in every call, before the statement, and changes nothing.
* The rest of `create_db.sql`. It lacks `usuarios` and `orcamentos`, which `db.php` creates
  in SQLite only; under MySQL a login therefore ends in an exception, always.
  `Autenticacao` and `Orcamentos` are of databases that have their tables.
* A user deactivated while logged in: no page of the repository changes
  `usuarios.ativo`. `SessaoDeUsuario` is about the login only.
* Wording, layout, searches, and conversions between texts: the view of a saved
  service looks for words its description does not contain (`servicos.php:125`), and
  a quotation's client name is bound as an integer (`orcamentos.php:175`). One call
  shows each of them.
* Pages that show what was read before their own writes: nothing is decided on it.
* SQL isolation below one statement: SQLite locks the file for a write, and InnoDB
  the row.
* What PHPMailer does inside `send`, the installer, the shortcuts, the icons.
* The rest of the interpreter. `php-8.5.9-src/` is a vendored copy of PHP, some 1.8
  million lines of the repository's C; the application rests on a few hundred of
  them (`mod_files.c`, `session.c`, `main.c`, `php_cli_server.c`), which `Sessao`,
  `Autenticacao` and `Iniciador` translate. The share of the repository's lines that
  these specifications stand for is small for that reason; of the application's own
  code they cover nearly all that changes state.

## 6. Plan

The components that change state are modelled. What is left, in order:

1. Proofs: an abstract stock for several workers, with the overdraft it allows, and
   its refinement; what `EstoqueAbstrato` promises, proved of it and carried over.
2. `FormItens` composed with `Estoque`, so that a row lost on the screen is followed to
   the stock.
3. The two databases of `Conexao` under the tables of `Registros`, in place of one
   that is chosen at the start.
