----------------------------- MODULE Autenticacao -----------------------------
(***************************************************************************)
(* inc/auth.php with the pages that call it: login.php (login and          *)
(* registration), logout.php and the protected pages.  A step is one SQL   *)
(* statement or one use of the session file (Sessao).                      *)
(*                                                                         *)
(* Every page but login.php opens the session before any output, and has   *)
(* its file locked until the request ends, which is after its answer left. *)
(* login.php prints 81 lines of HTML before it requires auth.php: unless   *)
(* PHP buffers them, the headers are gone, session_start fails, what is    *)
(* put in $_SESSION is not kept and header('Location') does nothing.       *)
(*                                                                         *)
(* A worker is a process of its own, which may end at any point of its     *)
(* request, as when its window is closed: its file is closed as it is, and *)
(* the lock goes with it.                                                  *)
(***************************************************************************)
EXTENDS Sessao

CONSTANTS
  Senhas,       \* the passwords of the form's minimum length
  Tabelas,      \* the contents usuarios may start with
  Buffers       \* the settings of output_buffering considered

Usuario == [email: Emails, senha: Senhas, ativo: BOOLEAN]

ASSUME AutenticacaoConstantes ==
  /\ Tabelas \subseteq SUBSET Usuario
  /\ \A t \in Tabelas : \A u, v \in t : u.email = v.email => u = v
  /\ Buffers \subseteq BOOLEAN
  /\ Ninguem \notin Emails
  /\ Ninguem \notin Arquivos

VARIABLES
  usuarios,   \* table usuarios
  buffer,     \* output_buffering: TRUE for a php.ini with 4096, FALSE for PHP's default
  fase,       \* what each worker is doing
  pedido,     \* for whom, with the posted e-mail and password
  resposta,   \* the last answer each browser got since it last sent a request
  entraram,   \* history: who logged in to each session since its name was last removed
  confirmado  \* history: a request of n sent the redirect of a login and did not end before
              \* it had written it, and the name of the session has not been removed

vars == <<varsSessao, usuarios, buffer, fase, pedido, resposta, entraram, confirmado>>

Operacoes == {"login", "verificar", "pagina", "apagar"}

Fases == Operacoes \cup {"livre", "espera", "inserir", "fechar"}

Respostas == {"nenhuma", "login", "inicio", "pagina", "sem_efeito", "mensagem",
              "cadastrado", "ja_cadastrado", "excecao"}

Pedido == [nav: Navegadores, op: Operacoes, email: Emails \cup {Ninguem},
           senha: Senhas \cup {Ninguem}]

TypeOK ==
  /\ TypeOKSessao
  /\ usuarios \subseteq Usuario
  /\ buffer \in BOOLEAN
  /\ fase \in [Atendentes -> Fases]
  /\ pedido \in [Atendentes -> Pedido \cup {Ninguem}]
  /\ resposta \in [Navegadores -> Respostas]
  /\ entraram \in [Navegadores -> SUBSET Emails]
  /\ confirmado \in [Navegadores -> BOOLEAN]

Init ==
  /\ InitSessao
  /\ usuarios \in Tabelas
  /\ buffer \in Buffers
  /\ fase = [a \in Atendentes |-> "livre"]
  /\ pedido = [a \in Atendentes |-> Ninguem]
  /\ resposta = [n \in Navegadores |-> "nenhuma"]
  /\ entraram = [n \in Navegadores |-> {}]
  /\ confirmado = [n \in Navegadores |-> FALSE]

-----------------------------------------------------------------------------
(* A request, from the worker that takes it to its end *)

\* login.php opens the session only where no output has left yet.
ComSessao(op) == op \in {"pagina", "apagar"} \/ buffer

\* session_start opens the file, and then waits for its lock.
Comecar(a, p) ==
  /\ fase[a] = "livre"
  /\ pedido' = [pedido EXCEPT ![a] = p]
  /\ \/ /\ ComSessao(p.op)
        /\ AbrirArquivo(a, p.nav)
        /\ fase' = [fase EXCEPT ![a] = "espera"]
     \/ /\ ~ComSessao(p.op)
        /\ fase' = [fase EXCEPT ![a] = p.op]
        /\ UNCHANGED varsSessao
  /\ resposta' = [resposta EXCEPT ![p.nav] = "nenhuma"]
  /\ UNCHANGED <<usuarios, buffer, entraram, confirmado>>

Entrar(a, n) == \E e \in Emails, s \in Senhas :
  Comecar(a, [nav |-> n, op |-> "login", email |-> e, senha |-> s])

\* Variant: the password is read under the name it has in the other form.
Cadastrar_OutroCampo(a, n) == \E e \in Emails :
  Comecar(a, [nav |-> n, op |-> "verificar", email |-> e, senha |-> ""])

Cadastrar(a, n) == \E e \in Emails, s \in Senhas :
  Comecar(a, [nav |-> n, op |-> "verificar", email |-> e, senha |-> s])

AbrirPagina(a, n) ==
  Comecar(a, [nav |-> n, op |-> "pagina", email |-> Ninguem, senha |-> Ninguem])

Sair(a, n) ==
  Comecar(a, [nav |-> n, op |-> "apagar", email |-> Ninguem, senha |-> Ninguem])

Mostrar(a, tipo) == resposta' = [resposta EXCEPT ![pedido[a].nav] = tipo]

Liberar(a) ==
  /\ fase' = [fase EXCEPT ![a] = "livre"]
  /\ pedido' = [pedido EXCEPT ![a] = Ninguem]

\* The answer of a request that leaves $_SESSION as it is: nobody can tell the end of
\* the session from the end of the request.
Responder(a, tipo) ==
  /\ Mostrar(a, tipo)
  /\ Liberar(a)
  /\ IF aberto[a] = Ninguem THEN UNCHANGED varsSessao ELSE SoltarArquivo(a)

\* The process ends: the browser is left without an answer, unless it was flushed
\* already, and nothing is written.  A user whose own login was answered and not yet
\* written is not in the session after all.
Cair(a) ==
  /\ fase[a] # "livre"
  /\ IF fase[a] = "fechar" THEN UNCHANGED resposta ELSE Mostrar(a, "nenhuma")
  /\ confirmado' = IF fase[a] = "fechar" /\ ~apagada[a]
                     THEN [confirmado EXCEPT ![pedido[a].nav] = FALSE]
                     ELSE confirmado
  /\ IF aberto[a] = Ninguem THEN UNCHANGED varsSessao ELSE FecharArquivo(a, conteudo[aberto[a]])
  /\ Liberar(a)
  /\ UNCHANGED <<usuarios, buffer, entraram>>

\* Who is in the session that the request has just been given.
Obter(a, ops, quem) ==
  /\ fase[a] = "espera"
  /\ pedido[a].op \in ops
  /\ Livre(aberto[a])
  /\ conteudo[aberto[a]] \in quem
  /\ UNCHANGED <<usuarios, buffer, entraram, confirmado>>

\* Somebody who is logged in is sent from login.php to index.php whatever was posted.
JaEntrou(a) == Obter(a, {"login", "verificar"}, Emails) /\ Responder(a, "inicio")

Prosseguir(a) ==
  /\ Obter(a, {"login", "verificar"}, {Ninguem})
  /\ TrancarArquivo(a)
  /\ fase' = [fase EXCEPT ![a] = pedido[a].op]
  /\ UNCHANGED <<pedido, resposta>>

\* require_login: without a user in the session, back to login.php.
Barrar(a) == Obter(a, {"pagina"}, {Ninguem}) /\ Responder(a, "login")

\* The script builds the page, for the user whose name it shows.
Autorizar(a) ==
  /\ Obter(a, {"pagina"}, Emails)
  /\ TrancarArquivo(a)
  /\ fase' = [fase EXCEPT ![a] = "pagina"]
  /\ pedido' = [pedido EXCEPT ![a].email = conteudo[aberto[a]]]
  /\ UNCHANGED resposta

EntregarPagina(a) ==
  /\ fase[a] = "pagina"
  /\ Responder(a, "pagina")
  /\ UNCHANGED <<usuarios, buffer, entraram, confirmado>>

\* RSHUTDOWN of the session extension, after the answer of a login was flushed.
Fechar(a) ==
  /\ fase[a] = "fechar"
  /\ GravarArquivo(a, pedido[a].nav)
  /\ Liberar(a)
  /\ UNCHANGED <<usuarios, buffer, resposta, entraram, confirmado>>

-----------------------------------------------------------------------------
(* logout.php and the collector of old sessions *)

\* session_destroy closes the file; $_SESSION = [] comes when nothing is open.
Soltar(a) ==
  /\ Obter(a, {"apagar"}, Emails \cup {Ninguem})
  /\ SoltarArquivo(a)
  /\ fase' = [fase EXCEPT ![a] = "apagar"]
  /\ UNCHANGED <<pedido, resposta>>

\* The name of n's session goes; requests of n that run keep the file they opened.
Remover(n) ==
  /\ ApagarNome(n)
  /\ entraram' = [entraram EXCEPT ![n] = {}]
  /\ confirmado' = [confirmado EXCEPT ![n] = FALSE]

\* Also when the process ends with the name removed and nothing answered.
Apagar(a) ==
  /\ fase[a] = "apagar"
  /\ Remover(pedido[a].nav)
  /\ Mostrar(a, "login") \/ Mostrar(a, "nenhuma")
  /\ Liberar(a)
  /\ UNCHANGED <<usuarios, buffer>>

\* session_start of any request, now and then, removes the files not written for
\* session.gc_maxlifetime; one may just have been opened.
Coletar(n) ==
  /\ nome[n] # Ninguem
  /\ Remover(n)
  /\ UNCHANGED <<usuarios, buffer, fase, pedido, resposta>>

-----------------------------------------------------------------------------
(* login.php *)

\* What is answered before any query: no database could be opened, the passwords
\* differ, a field is empty, the password is short or the e-mail malformed.
RecusarFormulario(a) ==
  /\ fase[a] \in {"login", "verificar"}
  /\ Responder(a, "mensagem")
  /\ UNCHANGED <<usuarios, buffer, entraram, confirmado>>

\* Variant: an inactive user gets in.
Confere_Inativo(u, p) == u.email = p.email /\ u.senha = p.senha

\* WHERE email = ? AND ativo = 1, then password_verify.
Confere(u, p) == u.email = p.email /\ u.ativo /\ u.senha = p.senha

\* fazer_login: the user goes into $_SESSION and the page redirects; the answer is
\* flushed before the session is written.  Where no session could be opened neither
\* the assignment nor the header has any effect.
FazerLogin(a) ==
  /\ fase[a] = "login"
  /\ \E u \in usuarios : Confere(u, pedido[a])
  /\ LET n == pedido[a].nav  e == pedido[a].email IN
       \/ /\ ComSessao("login")
          /\ Mostrar(a, "inicio")
          /\ valor' = [valor EXCEPT ![a] = e]
          /\ fase' = [fase EXCEPT ![a] = "fechar"]
          /\ pedido' = [pedido EXCEPT ![a].email = Ninguem, ![a].senha = Ninguem]
          /\ entraram' = IF apagada[a] THEN entraram
                         ELSE [entraram EXCEPT ![n] = @ \cup {e}]
          /\ confirmado' = IF apagada[a] THEN confirmado ELSE [confirmado EXCEPT ![n] = TRUE]
          /\ UNCHANGED <<nome, conteudo, aberto, trancado, apagada>>
       \/ /\ ~ComSessao("login")
          /\ Responder(a, "sem_efeito")
          /\ UNCHANGED <<entraram, confirmado>>
  /\ UNCHANGED <<usuarios, buffer>>

\* The message is "Email ou senha incorretos."
FalharLogin(a) ==
  /\ fase[a] = "login"
  /\ \A u \in usuarios : ~Confere(u, pedido[a])
  /\ Responder(a, "mensagem")
  /\ UNCHANGED <<usuarios, buffer, entraram, confirmado>>

\* fazer_registro, first statement: SELECT the e-mail.
VerificarEmail(a) ==
  /\ fase[a] = "verificar"
  /\ \/ /\ \E u \in usuarios : u.email = pedido[a].email
        /\ Responder(a, "ja_cadastrado")
     \/ /\ \A u \in usuarios : u.email # pedido[a].email
        /\ fase' = [fase EXCEPT ![a] = "inserir"]
        /\ UNCHANGED <<varsSessao, pedido, resposta>>
  /\ UNCHANGED <<usuarios, buffer, entraram, confirmado>>

\* Variant: usuarios.email without its UNIQUE.
Repetido_Nunca(email) == FALSE

\* The UNIQUE of usuarios.email.
Repetido(email) == \E u \in usuarios : u.email = email

Inserido(a) == usuarios \cup {[email |-> pedido[a].email, senha |-> pedido[a].senha, ativo |-> TRUE]}

\* Variant: a failed INSERT reported as a success.
InserirUsuario_Otimista(a) ==
  /\ fase[a] = "inserir"
  /\ Responder(a, "cadastrado")
  /\ usuarios' = IF Repetido(pedido[a].email) THEN usuarios ELSE Inserido(a)
  /\ UNCHANGED <<buffer, entraram, confirmado>>

\* fazer_registro, second statement: the INSERT, whose violation of UNIQUE is a
\* PDOException that nobody catches, not the FALSE that the code tests for.  The user
\* stays when the process ends between the INSERT and the answer.
InserirUsuario(a) ==
  /\ fase[a] = "inserir"
  /\ \/ /\ Repetido(pedido[a].email)
        /\ Responder(a, "excecao")
        /\ UNCHANGED usuarios
     \/ /\ ~Repetido(pedido[a].email)
        /\ Responder(a, "cadastrado") \/ Responder(a, "nenhuma")
        /\ usuarios' = Inserido(a)
  /\ UNCHANGED <<buffer, entraram, confirmado>>

-----------------------------------------------------------------------------
Andar(a) ==
  \/ JaEntrou(a) \/ Prosseguir(a) \/ Barrar(a) \/ Autorizar(a) \/ EntregarPagina(a)
  \/ Fechar(a) \/ Soltar(a) \/ Apagar(a) \/ Cair(a)
  \/ RecusarFormulario(a) \/ FazerLogin(a) \/ FalharLogin(a)
  \/ VerificarEmail(a) \/ InserirUsuario(a)

Next ==
  \/ \E a \in Atendentes, n \in Navegadores :
       Entrar(a, n) \/ Cadastrar(a, n) \/ AbrirPagina(a, n) \/ Sair(a, n)
  \/ \E a \in Atendentes : Andar(a)
  \/ \E n \in Navegadores : Coletar(n)

Spec == Init /\ [][Next]_vars

-----------------------------------------------------------------------------
\* "Email Único: impede registro com email duplicado", also when two workers
\* have both found the e-mail free.
EmailUnico == \A u, v \in usuarios : u.email = v.email => u = v

\* What a registration answers is true of the table: after a success the user
\* can log in with the e-mail and the password just typed, and "já cadastrado"
\* is only said of an e-mail that is there.
RespostaVerdadeira ==
  \A a \in Atendentes :
    fase[a] \in {"verificar", "inserir"} /\ fase'[a] = "livre" =>
      LET p == pedido[a]  r == resposta'[p.nav] IN
        /\ r = "cadastrado" => \E u \in usuarios' : Confere(u, p)
        /\ r = "ja_cadastrado" => \E u \in usuarios' : u.email = p.email

CadastroVerdadeiro == [][RespostaVerdadeira]_vars

\* Logout is final: what a session holds was put there by a login that opened it
\* after its name was last removed.  A request that overlapped the logout, or was
\* waiting for its lock, writes into a file that no later request finds.
SaidaVale == \A n \in Navegadores : Visivel(n) # Ninguem => Visivel(n) \in entraram[n]

\* A file, also one that lost its name, only ever holds an active user.
SessaoDeUsuario ==
  \A i \in Arquivos : conteudo[i] # Ninguem =>
    \E u \in usuarios : u.email = conteudo[i] /\ u.ativo

\* An answered login is not lost to others: once the redirect of a login was sent,
\* the session has a user, or the request that is about to write it has the lock, so
\* the page that follows is let in, whatever other requests of the session end in any
\* way, wait, or write into files that lost their name; until a logout, or the
\* collector, removes the session.  What may lose it is the end of its own process,
\* between the answer and the write.
LoginTemEfeito ==
  \A n \in Navegadores : confirmado[n] =>
    \/ Visivel(n) # Ninguem
    \/ \E a \in Atendentes :
         nome[n] # Ninguem /\ aberto[a] = nome[n] /\ trancado[a] /\ valor[a] # Ninguem

\* "Será redirecionado para a página inicial": a login whose e-mail and password are
\* right has its redirect sent.
LoginRedireciona == \A n \in Navegadores : resposta[n] # "sem_efeito"

\* The page in the hands of worker a is for the user that is in the session now;
\* only a logout (or the collector) in the course of the request can part them.
PaginaDoDono(a) == Visivel(pedido[a].nav) = pedido[a].email \/ apagada[a]

\* A protected page reaches the browser only while its session is that of the
\* user whose name the page shows, or after a logout that overlapped the request:
\* no other login slips in between require_login and the end of the page, and no
\* request that came after a logout is let in by what it left behind.
PaginaDeQuemEntrou == \A a \in Atendentes : fase[a] = "pagina" => PaginaDoDono(a)

\* fazer_registro answers TRUE or a message: "@return bool|string true se
\* sucesso, string com mensagem de erro".
RegistroResponde == \A n \in Navegadores : resposta[n] # "excecao"

=============================================================================
