-------------------------- MODULE AutenticacaoProofs --------------------------
(***************************************************************************)
(* Theorems of Autenticacao for any number of browsers, workers, files and *)
(* users, with and without output buffering.                               *)
(***************************************************************************)
EXTENDS Autenticacao, TLAPS

(* Types. *)

Preenchido(p) == p.email \in Emails /\ p.senha \in Senhas

\* What a busy worker carries.
PedidoEmCurso ==
  \A a \in Atendentes : fase[a] # "livre" =>
    /\ pedido[a] \in Pedido
    /\ fase[a] \in {"login", "verificar", "inserir"} => Preenchido(pedido[a])
    /\ fase[a] = "espera" /\ pedido[a].op \in {"login", "verificar"} => Preenchido(pedido[a])
    /\ fase[a] = "pagina" => pedido[a].email \in Emails

TypeInv == TypeOK /\ PedidoEmCurso

LEMMA AbrirTipos ==
  ASSUME TypeOKSessao, NEW a \in Atendentes, NEW n \in Navegadores, AbrirArquivo(a, n)
  PROVE  TypeOKSessao'
BY DEF AbrirArquivo, TypeOKSessao

LEMMA TrancarTipos ==
  ASSUME TypeOKSessao, NEW a \in Atendentes, TrancarArquivo(a)
  PROVE  TypeOKSessao'
BY DEF TrancarArquivo, TypeOKSessao

LEMMA FecharTipos ==
  ASSUME TypeOKSessao, NEW a \in Atendentes, NEW c \in Emails \cup {Ninguem}, FecharArquivo(a, c)
  PROVE  TypeOKSessao'
BY DEF FecharArquivo, TypeOKSessao

LEMMA ApagarTipos ==
  ASSUME TypeOKSessao, NEW n \in Navegadores, ApagarNome(n)
  PROVE  TypeOKSessao'
BY DEF ApagarNome, TypeOKSessao

\* A request that ends with an answer keeps the types.
LEMMA ResponderTipos ==
  ASSUME TypeInv, NEW a \in Atendentes, NEW tipo \in Respostas,
         fase[a] # "livre", Responder(a, tipo)
  PROVE  /\ TypeOKSessao'
         /\ resposta' \in [Navegadores -> Respostas]
         /\ fase' \in [Atendentes -> Fases]
         /\ pedido' \in [Atendentes -> Pedido \cup {Ninguem}]
         /\ PedidoEmCurso'
<1>1. TypeOKSessao'
  <2>1. CASE aberto[a] = Ninguem
    BY <2>1 DEF Responder, varsSessao, TypeInv, TypeOK, TypeOKSessao
  <2>2. CASE aberto[a] # Ninguem
    <3>1. conteudo[aberto[a]] \in Emails \cup {Ninguem}
      BY <2>2 DEF TypeInv, TypeOK, TypeOKSessao
    <3>2. QED BY <2>2, <3>1, FecharTipos DEF Responder, SoltarArquivo, TypeInv, TypeOK
  <2>3. QED BY <2>1, <2>2
<1>2. pedido[a] \in Pedido
  BY DEF TypeInv, PedidoEmCurso
<1>3. QED
  BY <1>1, <1>2 DEF Responder, Mostrar, Liberar, TypeInv, TypeOK, PedidoEmCurso, Fases

\* So does one that ends without.
LEMMA CairTipos ==
  ASSUME TypeInv, NEW a \in Atendentes, Cair(a)
  PROVE  TypeInv'
<1>1. TypeOKSessao'
  <2>1. CASE aberto[a] = Ninguem
    BY <2>1 DEF Cair, varsSessao, TypeInv, TypeOK, TypeOKSessao
  <2>2. CASE aberto[a] # Ninguem
    <3>1. conteudo[aberto[a]] \in Emails \cup {Ninguem}
      BY <2>2 DEF TypeInv, TypeOK, TypeOKSessao
    <3>2. QED BY <2>2, <3>1, FecharTipos DEF Cair, TypeInv, TypeOK
  <2>3. QED BY <2>1, <2>2
<1>2. resposta' \in [Navegadores -> Respostas] /\ confirmado' \in [Navegadores -> BOOLEAN]
  <2>1. resposta' \in {resposta, [resposta EXCEPT ![pedido[a].nav] = "nenhuma"]}
    BY DEF Cair, Mostrar
  <2>2. confirmado' \in {confirmado, [confirmado EXCEPT ![pedido[a].nav] = FALSE]}
    BY DEF Cair
  <2>3. QED BY <2>1, <2>2 DEF TypeInv, TypeOK, Respostas
<1>3. PedidoEmCurso' /\ fase' \in [Atendentes -> Fases] /\ pedido' \in [Atendentes -> Pedido \cup {Ninguem}]
  BY DEF Cair, Liberar, TypeInv, TypeOK, PedidoEmCurso, Fases
<1>4. QED BY <1>1, <1>2, <1>3 DEF Cair, TypeInv, TypeOK

\* Taking a request keeps the types.
LEMMA ComecarTipos ==
  ASSUME TypeInv, NEW a \in Atendentes, NEW p \in Pedido, Comecar(a, p),
         p.op \in {"login", "verificar"} => Preenchido(p)
  PROVE  TypeInv'
<1>1. TypeOKSessao'
  BY AbrirTipos DEF Comecar, varsSessao, TypeInv, TypeOK, TypeOKSessao, Pedido
<1>2. p.op \in Operacoes /\ (~ComSessao(p.op) => p.op \in {"login", "verificar"})
  BY DEF Pedido, Operacoes, ComSessao
<1>3. PICK f \in Fases \ {"livre"} :
        /\ fase' = [fase EXCEPT ![a] = f]
        /\ (f = "espera" \/ (f = p.op /\ p.op \in {"login", "verificar"}))
  BY <1>2 DEF Comecar, Fases, Operacoes
<1>4. TypeOK'
  BY <1>1, <1>3 DEF Comecar, TypeInv, TypeOK, Respostas
<1>5. PedidoEmCurso'
  BY <1>3 DEF Comecar, TypeInv, TypeOK, PedidoEmCurso
<1>6. QED BY <1>4, <1>5 DEF TypeInv

\* Type correctness, and a well-formed request in every busy worker.
THEOREM TypeCorrect == Spec => [](TypeOK /\ PedidoEmCurso)
<1>1. Init => TypeInv
  BY AutenticacaoConstantes
  DEF Init, InitSessao, TypeInv, TypeOK, TypeOKSessao, PedidoEmCurso, Fases, Operacoes, Respostas
<1>2. TypeInv /\ [Next]_vars => TypeInv'
  <2> SUFFICES ASSUME TypeInv, [Next]_vars PROVE TypeInv'
    OBVIOUS
  <2>1. ASSUME NEW a \in Atendentes, NEW n \in Navegadores,
               Entrar(a, n) \/ Cadastrar(a, n)
        PROVE  TypeInv'
    <3>1. PICK op \in {"login", "verificar"}, e \in Emails, s \in Senhas :
            Comecar(a, [nav |-> n, op |-> op, email |-> e, senha |-> s])
      BY <2>1 DEF Entrar, Cadastrar
    <3> DEFINE p == [nav |-> n, op |-> op, email |-> e, senha |-> s]
    <3>2. p \in Pedido /\ Preenchido(p)
      BY DEF Pedido, Operacoes, Preenchido
    <3>3. QED BY <3>1, <3>2, ComecarTipos
  <2>2. ASSUME NEW a \in Atendentes, NEW n \in Navegadores,
               AbrirPagina(a, n) \/ Sair(a, n)
        PROVE  TypeInv'
    <3>1. PICK op \in {"pagina", "apagar"} :
            Comecar(a, [nav |-> n, op |-> op, email |-> Ninguem, senha |-> Ninguem])
      BY <2>2 DEF AbrirPagina, Sair
    <3> DEFINE p == [nav |-> n, op |-> op, email |-> Ninguem, senha |-> Ninguem]
    <3>2. p \in Pedido /\ p.op \notin {"login", "verificar"}
      BY DEF Pedido, Operacoes
    <3>3. QED BY <3>1, <3>2, ComecarTipos
  <2>3. ASSUME NEW a \in Atendentes,
               JaEntrou(a) \/ Barrar(a) \/ EntregarPagina(a) \/ RecusarFormulario(a)
                 \/ FalharLogin(a)
        PROVE  TypeInv'
    <3>1. PICK tipo \in Respostas : Responder(a, tipo)
      BY <2>3 DEF JaEntrou, Barrar, EntregarPagina, RecusarFormulario, FalharLogin, Respostas
    <3>2. fase[a] # "livre" /\ UNCHANGED <<usuarios, buffer, entraram, confirmado>>
      BY <2>3 DEF JaEntrou, Barrar, EntregarPagina, RecusarFormulario, FalharLogin, Obter
    <3>3. QED BY <3>1, <3>2, ResponderTipos DEF TypeInv, TypeOK
  <2>4. ASSUME NEW a \in Atendentes, Prosseguir(a) \/ Autorizar(a)
        PROVE  TypeInv'
    <3>1. TypeOKSessao'
      BY <2>4, TrancarTipos DEF Prosseguir, Autorizar, TypeInv, TypeOK
    <3>2. fase[a] = "espera" /\ pedido[a] \in Pedido
      BY <2>4 DEF Prosseguir, Autorizar, Obter, TypeInv, PedidoEmCurso
    <3>3. CASE Prosseguir(a)
      BY <3>1, <3>2, <3>3
      DEF Prosseguir, Obter, TypeInv, TypeOK, PedidoEmCurso, Fases, Operacoes, Preenchido
    <3>4. CASE Autorizar(a)
      <4>1. conteudo[aberto[a]] \in Emails
        BY <3>4 DEF Autorizar, Obter
      <4>2. [pedido[a] EXCEPT !.email = conteudo[aberto[a]]] \in Pedido
        BY <3>2, <4>1 DEF Pedido
      <4>3. pedido' = [pedido EXCEPT ![a] = [pedido[a] EXCEPT !.email = conteudo[aberto[a]]]]
        BY <3>4 DEF Autorizar
      <4>4. pedido'[a].email = conteudo[aberto[a]]
        BY <3>2, <4>3 DEF Pedido, TypeInv, TypeOK
      <4>5. PedidoEmCurso'
        BY <3>4, <4>1, <4>2, <4>3, <4>4
        DEF Autorizar, Obter, TypeInv, TypeOK, PedidoEmCurso
      <4>6. TypeOK'
        BY <3>1, <3>4, <4>2, <4>3
        DEF Autorizar, Obter, TypeInv, TypeOK, Fases, Operacoes
      <4>7. QED BY <4>5, <4>6 DEF TypeInv
    <3>5. QED BY <2>4, <3>3, <3>4
  <2>5. ASSUME NEW a \in Atendentes, Fechar(a)
        PROVE  TypeInv'
    <3>1. TypeOKSessao'
      BY <2>5, FecharTipos DEF Fechar, GravarArquivo, TypeInv, TypeOK, TypeOKSessao
    <3>2. QED BY <2>5, <3>1 DEF Fechar, Liberar, TypeInv, TypeOK, PedidoEmCurso, Fases
  <2>6. ASSUME NEW a \in Atendentes, Soltar(a)
        PROVE  TypeInv'
    <3>1. TypeOKSessao'
      BY <2>6, FecharTipos DEF Soltar, Obter, SoltarArquivo, TypeInv, TypeOK
    <3>2. QED
      BY <2>6, <3>1 DEF Soltar, Obter, TypeInv, TypeOK, PedidoEmCurso, Fases, Operacoes
  <2>7. ASSUME NEW a \in Atendentes, Apagar(a)
        PROVE  TypeInv'
    <3>1. pedido[a] \in Pedido
      BY <2>7 DEF Apagar, TypeInv, PedidoEmCurso
    <3>2. TypeOKSessao'
      BY <2>7, <3>1, ApagarTipos DEF Apagar, Remover, Pedido, TypeInv, TypeOK
    <3>3. QED
      BY <2>7, <3>1, <3>2
      DEF Apagar, Remover, Mostrar, Liberar, TypeInv, TypeOK, PedidoEmCurso, Fases, Respostas
  <2>8. ASSUME NEW n \in Navegadores, Coletar(n)
        PROVE  TypeInv'
    BY <2>8, ApagarTipos DEF Coletar, Remover, TypeInv, TypeOK, PedidoEmCurso
  <2>9. ASSUME NEW a \in Atendentes, FazerLogin(a)
        PROVE  TypeInv'
    <3>1. pedido[a] \in Pedido /\ pedido[a].email \in Emails
      BY <2>9 DEF FazerLogin, TypeInv, PedidoEmCurso, Preenchido
    <3>2. CASE ComSessao("login")
      <4> DEFINE q == [pedido[a] EXCEPT !.email = Ninguem, !.senha = Ninguem]
      <4>1. q \in Pedido
        BY <3>1 DEF Pedido
      <4>2. pedido' = [pedido EXCEPT ![a] = q]
        BY <2>9, <3>2 DEF FazerLogin
      <4>3. TypeOKSessao'
        BY <2>9, <3>1, <3>2 DEF FazerLogin, TypeInv, TypeOK, TypeOKSessao
      <4>4. PedidoEmCurso'
        BY <2>9, <3>2, <4>1, <4>2 DEF FazerLogin, TypeInv, TypeOK, PedidoEmCurso
      <4>5. TypeOK'
        <5>1. /\ entraram' \in [Navegadores -> SUBSET Emails]
              /\ confirmado' \in [Navegadores -> BOOLEAN]
          <6>1. pedido[a].nav \in Navegadores /\ entraram[pedido[a].nav] \cup {pedido[a].email} \in SUBSET Emails
            BY <3>1 DEF Pedido, TypeInv, TypeOK
          <6>2. entraram' \in [Navegadores -> SUBSET Emails]
            BY <2>9, <3>2, <6>1 DEF FazerLogin, TypeInv, TypeOK
          <6>3. confirmado' \in [Navegadores -> BOOLEAN]
            <7>1. confirmado' \in {confirmado, [confirmado EXCEPT ![pedido[a].nav] = TRUE]}
              BY <2>9, <3>2 DEF FazerLogin
            <7>2. QED BY <7>1 DEF TypeInv, TypeOK
          <6>4. QED BY <6>2, <6>3
        <5>2. resposta' \in [Navegadores -> Respostas] /\ fase' \in [Atendentes -> Fases]
          BY <2>9, <3>2 DEF FazerLogin, Mostrar, TypeInv, TypeOK, Respostas, Fases
        <5>3. QED BY <2>9, <4>1, <4>2, <4>3, <5>1, <5>2 DEF FazerLogin, TypeInv, TypeOK
      <4>6. QED BY <4>4, <4>5 DEF TypeInv
    <3>3. CASE ~ComSessao("login")
      BY <2>9, <3>3, ResponderTipos DEF FazerLogin, Respostas, TypeInv, TypeOK
    <3>4. QED BY <3>2, <3>3
  <2>10. ASSUME NEW a \in Atendentes, VerificarEmail(a)
         PROVE  TypeInv'
    <3>1. CASE Responder(a, "ja_cadastrado")
      BY <2>10, <3>1, ResponderTipos DEF VerificarEmail, Respostas, TypeInv, TypeOK
    <3>2. CASE fase' = [fase EXCEPT ![a] = "inserir"] /\ UNCHANGED <<varsSessao, pedido, resposta>>
      <4>1. TypeOKSessao'
        BY <3>2 DEF varsSessao, TypeInv, TypeOK, TypeOKSessao
      <4>2. QED BY <2>10, <3>2, <4>1 DEF VerificarEmail, TypeInv, TypeOK, PedidoEmCurso, Fases
    <3>3. QED BY <2>10, <3>1, <3>2 DEF VerificarEmail
  <2>11. ASSUME NEW a \in Atendentes, InserirUsuario(a)
         PROVE  TypeInv'
    <3>1. [email |-> pedido[a].email, senha |-> pedido[a].senha, ativo |-> TRUE] \in Usuario
      BY <2>11 DEF InserirUsuario, Usuario, TypeInv, PedidoEmCurso, Preenchido
    <3>2. usuarios' \subseteq Usuario
      BY <2>11, <3>1 DEF InserirUsuario, Inserido, TypeInv, TypeOK
    <3>3. QED BY <2>11, <3>2, ResponderTipos DEF InserirUsuario, Respostas, TypeInv, TypeOK
  <2>12. ASSUME NEW a \in Atendentes, Cair(a)
         PROVE  TypeInv'
    BY <2>12, CairTipos
  <2>13. CASE UNCHANGED vars
    BY <2>13 DEF vars, varsSessao, TypeInv, TypeOK, TypeOKSessao, PedidoEmCurso
  <2>14. QED
    BY <2>1, <2>2, <2>3, <2>4, <2>5, <2>6, <2>7, <2>8, <2>9, <2>10, <2>11, <2>12, <2>13
    DEF Next, Andar
<1>3. QED BY <1>1, <1>2, PTL DEF Spec, TypeInv

-----------------------------------------------------------------------------
(* The session files. *)

\* What each phase says of the worker's file.
ArquivoDaFase ==
  \A a \in Atendentes :
    /\ fase[a] \in {"livre", "apagar"} => aberto[a] = Ninguem
    /\ fase[a] = "espera" => aberto[a] # Ninguem /\ ~trancado[a]
    /\ fase[a] \in {"pagina", "fechar"} => trancado[a]
    /\ fase[a] \in {"login", "verificar", "inserir"} => trancado[a] \/ aberto[a] = Ninguem
    /\ fase[a] = "login" /\ buffer => trancado[a]
    /\ trancado[a] \/ apagada[a] => aberto[a] # Ninguem
    /\ fase[a] = "fechar" <=> valor[a] # Ninguem

\* Different names lead to different files.
NomesDistintos ==
  \A n, m \in Navegadores : nome[n] # Ninguem /\ nome[n] = nome[m] => n = m

\* An open file is still the one that the name leads to, or no name leads to it.
ArquivoDoPedido ==
  \A a \in Atendentes : aberto[a] # Ninguem =>
    IF apagada[a] THEN \A n \in Navegadores : nome[n] # aberto[a]
                  ELSE nome[pedido[a].nav] = aberto[a]

\* A file has one lock.
UmTrancado ==
  \A a, b \in Atendentes : a # b /\ trancado[a] /\ trancado[b] => aberto[a] # aberto[b]

\* A new file is empty.
NovoVazio == \A i \in Arquivos : ~Existe(i) => conteudo[i] = Ninguem

\* The page is for the user in the locked file.
PaginaNoArquivo ==
  \A a \in Atendentes : fase[a] = "pagina" => conteudo[aberto[a]] = pedido[a].email

\* What is going to be written was allowed by a login that counts.
ValorEntrou ==
  \A a \in Atendentes : fase[a] = "fechar" /\ ~apagada[a] =>
    valor[a] \in entraram[pedido[a].nav]

SessaoInv ==
  /\ ArquivoDaFase
  /\ NomesDistintos
  /\ ArquivoDoPedido
  /\ UmTrancado
  /\ NovoVazio
  /\ PaginaNoArquivo
  /\ ValorEntrou
  /\ SaidaVale
  /\ LoginTemEfeito

\* Nothing of a worker but a changes.
Alheio(a) ==
  \A b \in Atendentes \ {a} :
    /\ fase'[b] = fase[b] /\ pedido'[b] = pedido[b]
    /\ aberto'[b] = aberto[b] /\ trancado'[b] = trancado[b]
    /\ valor'[b] = valor[b] /\ apagada'[b] = apagada[b]

\* A request opens the session's file, old or new.
LEMMA AbrirSessao ==
  ASSUME TypeInv, SessaoInv, NEW a \in Atendentes, NEW p \in Pedido,
         Comecar(a, p), ComSessao(p.op)
  PROVE  SessaoInv'
<1>1. PICK i \in Arquivos :
        /\ aberto' = [aberto EXCEPT ![a] = i]
        /\ \/ nome' = nome /\ nome[p.nav] = i
           \/ nome' = [nome EXCEPT ![p.nav] = i] /\ nome[p.nav] = Ninguem /\ ~Existe(i)
  BY DEF Comecar, AbrirArquivo, TypeInv, TypeOK, TypeOKSessao, Pedido
<1>2. /\ aberto[a] = Ninguem /\ fase[a] = "livre"
      /\ UNCHANGED <<conteudo, trancado, valor, apagada, buffer, entraram, confirmado>>
  BY DEF Comecar, AbrirArquivo
<1>3. /\ Alheio(a)
      /\ fase'[a] = "espera" /\ pedido'[a] = p /\ aberto'[a] = i
      /\ nome'[p.nav] = i /\ p.nav \in Navegadores
      /\ ~trancado[a] /\ ~apagada[a] /\ valor[a] = Ninguem
  BY <1>1, <1>2
  DEF Comecar, TypeInv, TypeOK, TypeOKSessao, Pedido, Alheio, SessaoInv, ArquivoDaFase
<1>4. i # Ninguem /\ \A n \in Navegadores : n # p.nav => nome'[n] = nome[n]
  BY <1>1, AutenticacaoConstantes DEF TypeInv, TypeOK, TypeOKSessao
<1>5. ArquivoDaFase'
  BY <1>2, <1>3, <1>4 DEF Alheio, SessaoInv, ArquivoDaFase
<1>6. NomesDistintos'
  BY <1>1, <1>3, <1>4 DEF SessaoInv, NomesDistintos, Existe
<1>7. ArquivoDoPedido'
  <2> SUFFICES ASSUME NEW b \in Atendentes, aberto'[b] # Ninguem
               PROVE  IF apagada'[b] THEN \A n \in Navegadores : nome'[n] # aberto'[b]
                                     ELSE nome'[pedido'[b].nav] = aberto'[b]
    BY DEF ArquivoDoPedido
  <2>1. CASE b = a
    BY <1>2, <1>3, <2>1
  <2>2. CASE b # a
    <3>1. aberto[b] # Ninguem /\ aberto'[b] = aberto[b] /\ pedido'[b] = pedido[b]
      BY <1>3, <2>2 DEF Alheio
    <3>2. CASE nome' = nome
      BY <1>2, <3>1, <3>2 DEF SessaoInv, ArquivoDoPedido
    <3>3. CASE nome[p.nav] = Ninguem /\ ~Existe(i)
      BY <1>2, <1>3, <1>4, <3>1, <3>3 DEF SessaoInv, ArquivoDoPedido, Existe,
         TypeInv, PedidoEmCurso, ArquivoDaFase, Pedido
    <3>4. QED BY <1>1, <3>2, <3>3
  <2>3. QED BY <2>1, <2>2
<1>8. UmTrancado'
  BY <1>2, <1>3 DEF Alheio, SessaoInv, UmTrancado
<1>9. NovoVazio'
  <2>1. \A j \in Arquivos : ~Existe(j)' => ~Existe(j)
    BY <1>1, <1>2, <1>3, <1>4, AutenticacaoConstantes
    DEF Existe, TypeInv, TypeOK, TypeOKSessao, Alheio
  <2>2. QED BY <1>2, <2>1 DEF SessaoInv, NovoVazio
<1>10. PaginaNoArquivo' /\ ValorEntrou'
  BY <1>2, <1>3 DEF Alheio, SessaoInv, PaginaNoArquivo, ValorEntrou
<1>11. \A n \in Navegadores : Visivel(n)' = Visivel(n)
  BY <1>1, <1>2, <1>3, <1>4 DEF Visivel, SessaoInv, NovoVazio
<1>12. SaidaVale'
  BY <1>2, <1>11 DEF SessaoInv, SaidaVale
<1>13. LoginTemEfeito'
  <2> SUFFICES ASSUME NEW n \in Navegadores, confirmado[n], Visivel(n) = Ninguem
               PROVE  \E b \in Atendentes :
                        nome'[n] # Ninguem /\ aberto'[b] = nome'[n] /\ trancado'[b] /\ valor'[b] # Ninguem
    BY <1>2, <1>11 DEF LoginTemEfeito
  <2>1. PICK b \in Atendentes :
          nome[n] # Ninguem /\ aberto[b] = nome[n] /\ trancado[b] /\ valor[b] # Ninguem
    BY DEF SessaoInv, LoginTemEfeito
  <2>2. nome'[n] = nome[n]
    BY <1>1, <1>4, <2>1
  <2>3. QED BY <1>2, <1>3, <2>1, <2>2 DEF Alheio
<1>14. QED BY <1>5, <1>6, <1>7, <1>8, <1>9, <1>10, <1>12, <1>13 DEF SessaoInv

\* A request gets the lock.
LEMMA TrancarSessao ==
  ASSUME TypeInv, SessaoInv, NEW a \in Atendentes, NEW f \in {"login", "verificar", "pagina"},
         TrancarArquivo(a), fase[a] = "espera", fase' = [fase EXCEPT ![a] = f],
         pedido'[a].nav = pedido[a].nav,
         \A b \in Atendentes \ {a} : pedido'[b] = pedido[b],
         f = "pagina" => conteudo[aberto[a]] = pedido'[a].email,
         UNCHANGED <<buffer, entraram, confirmado>>
  PROVE  SessaoInv'
<1>1. /\ UNCHANGED <<nome, conteudo, aberto, valor, apagada>>
      /\ trancado'[a] /\ fase'[a] = f /\ aberto[a] # Ninguem
      /\ Alheio(a)
      /\ \A b \in Atendentes : trancado[b] => trancado'[b]
  BY DEF TrancarArquivo, TypeInv, TypeOK, TypeOKSessao, Alheio
<1>2. \A b \in Atendentes : pedido'[b].nav = pedido[b].nav
  OBVIOUS
<1>3. ArquivoDaFase'
  BY <1>1 DEF Alheio, SessaoInv, ArquivoDaFase
<1>4. NomesDistintos' /\ ArquivoDoPedido'
  BY <1>1, <1>2 DEF SessaoInv, NomesDistintos, ArquivoDoPedido
<1>5. UmTrancado'
  BY <1>1 DEF Alheio, SessaoInv, UmTrancado, TrancarArquivo, Livre
<1>6. NovoVazio'
  BY <1>1 DEF SessaoInv, NovoVazio, Existe
<1>7. PaginaNoArquivo' /\ ValorEntrou'
  BY <1>1 DEF Alheio, SessaoInv, PaginaNoArquivo, ValorEntrou
<1>8. SaidaVale' /\ LoginTemEfeito'
  BY <1>1 DEF SessaoInv, SaidaVale, LoginTemEfeito, Visivel
<1>9. QED BY <1>3, <1>4, <1>5, <1>6, <1>7, <1>8 DEF SessaoInv

\* A request closes its file, with the value of its login or, the lock or not, as it was;
\* a login that does not write what it answered is confirmed no longer.
LEMMA FecharSessao ==
  ASSUME TypeInv, SessaoInv, NEW a \in Atendentes, NEW f \in {"livre", "apagar"}, NEW c,
         fase[a] # "livre", aberto[a] # Ninguem, FecharArquivo(a, c),
         fase' = [fase EXCEPT ![a] = f],
         \A b \in Atendentes \ {a} : pedido'[b] = pedido[b],
         \/ fase[a] = "fechar" /\ c = valor[a] /\ confirmado' = confirmado
         \/ fase[a] # "fechar" /\ c = conteudo[aberto[a]] /\ confirmado' = confirmado
         \/ /\ fase[a] = "fechar" /\ c = conteudo[aberto[a]]
            /\ confirmado' = IF apagada[a] THEN confirmado
                             ELSE [confirmado EXCEPT ![pedido[a].nav] = FALSE],
         UNCHANGED <<buffer, entraram>>
  PROVE  SessaoInv'
<1>1. /\ nome' = nome
      /\ fase'[a] = f /\ aberto'[a] = Ninguem /\ ~trancado'[a] /\ valor'[a] = Ninguem /\ ~apagada'[a]
      /\ Alheio(a)
      /\ aberto[a] \in Arquivos
  BY DEF FecharArquivo, TypeInv, TypeOK, TypeOKSessao, Alheio
<1>2. /\ conteudo'[aberto[a]] = IF Sobra(a) THEN c ELSE Ninguem
      /\ \A i \in Arquivos : i # aberto[a] => conteudo'[i] = conteudo[i]
  BY <1>1 DEF FecharArquivo, TypeInv, TypeOK, TypeOKSessao
<1>3. \A b \in Atendentes \ {a} : trancado[b] /\ aberto[b] # Ninguem =>
        conteudo'[aberto[b]] = conteudo[aberto[b]]
  BY <1>2 DEF Sobra, SessaoInv, UmTrancado, ArquivoDaFase, TypeInv, TypeOK, TypeOKSessao
<1>4. ArquivoDaFase'
  BY <1>1 DEF Alheio, SessaoInv, ArquivoDaFase
<1>5. NomesDistintos' /\ ArquivoDoPedido' /\ UmTrancado'
  BY <1>1 DEF Alheio, SessaoInv, NomesDistintos, ArquivoDoPedido, UmTrancado
<1>6. NovoVazio'
  <2> SUFFICES ASSUME NEW i \in Arquivos, ~Existe(i)'
               PROVE  conteudo'[i] = Ninguem
    BY DEF NovoVazio
  <2>1. CASE i = aberto[a]
    BY <1>1, <1>2, <2>1 DEF Existe, Sobra, Alheio
  <2>2. CASE i # aberto[a]
    BY <1>1, <1>2, <2>2 DEF Existe, Alheio, SessaoInv, NovoVazio
  <2>3. QED BY <2>1, <2>2
<1>7. PaginaNoArquivo'
  <2> SUFFICES ASSUME NEW b \in Atendentes, fase'[b] = "pagina"
               PROVE  conteudo'[aberto'[b]] = pedido'[b].email
    BY DEF PaginaNoArquivo
  <2>1. b # a /\ fase[b] = "pagina" /\ aberto'[b] = aberto[b] /\ pedido'[b] = pedido[b]
    BY <1>1 DEF Alheio
  <2>2. trancado[b] /\ aberto[b] # Ninguem
    BY <2>1 DEF SessaoInv, ArquivoDaFase
  <2>3. QED BY <1>3, <2>1, <2>2 DEF SessaoInv, PaginaNoArquivo
<1>8. ValorEntrou'
  BY <1>1 DEF Alheio, SessaoInv, ValorEntrou
<1>9. \A n \in Navegadores :
        Visivel(n)' = IF nome[n] = aberto[a] THEN c ELSE Visivel(n)
  BY <1>1, <1>2, AutenticacaoConstantes DEF Visivel, Sobra, TypeInv, TypeOK, TypeOKSessao
<1>10. \A n \in Navegadores : nome[n] = aberto[a] => ~apagada[a] /\ n = pedido[a].nav
  BY DEF SessaoInv, ArquivoDoPedido, NomesDistintos, TypeInv, PedidoEmCurso, Pedido
<1>11. \A n \in Navegadores : nome[n] = aberto[a] /\ c = conteudo[aberto[a]] => Visivel(n) = c
  BY DEF Visivel
<1>12. SaidaVale'
  BY <1>9, <1>10, <1>11 DEF SessaoInv, SaidaVale, ValorEntrou
<1>13. LoginTemEfeito'
  <2> SUFFICES ASSUME NEW n \in Navegadores, confirmado'[n], Visivel(n)' = Ninguem
               PROVE  \E b \in Atendentes :
                        nome[n] # Ninguem /\ aberto'[b] = nome[n] /\ trancado'[b] /\ valor'[b] # Ninguem
    BY <1>1 DEF LoginTemEfeito
  <2>1. confirmado[n]
    BY DEF TypeInv, TypeOK
  <2>2. Visivel(n) = Ninguem
    BY <1>9, <1>11 DEF SessaoInv, ArquivoDaFase
  <2>3. PICK b \in Atendentes :
          nome[n] # Ninguem /\ aberto[b] = nome[n] /\ trancado[b] /\ valor[b] # Ninguem
    BY <2>1, <2>2 DEF SessaoInv, LoginTemEfeito
  <2>4. b # a
    <3> SUFFICES ASSUME b = a PROVE FALSE
      OBVIOUS
    <3>1. fase[a] = "fechar" /\ ~apagada[a] /\ n = pedido[a].nav
      BY <1>10, <2>3 DEF SessaoInv, ArquivoDaFase
    <3>2. c # valor[a]
      BY <1>9, <2>3
    <3>3. confirmado' = [confirmado EXCEPT ![pedido[a].nav] = FALSE]
      BY <3>1, <3>2
    <3>4. QED BY <3>1, <3>3 DEF TypeInv, TypeOK
  <2>5. QED BY <1>1, <2>3, <2>4 DEF Alheio
<1>14. QED BY <1>4, <1>5, <1>6, <1>7, <1>8, <1>12, <1>13 DEF SessaoInv

\* A name is removed, by a logout whose request ends or by the collector.
LEMMA RemoverSessao ==
  ASSUME TypeInv, SessaoInv, NEW n \in Navegadores, Remover(n),
         \/ UNCHANGED <<fase, pedido>>
         \/ \E a \in Atendentes : fase[a] = "apagar" /\ Liberar(a),
         UNCHANGED buffer
  PROVE  SessaoInv'
<1>1. /\ UNCHANGED <<aberto, trancado, valor>>
      /\ nome'[n] = Ninguem
      /\ \A m \in Navegadores : m # n => nome'[m] = nome[m]
      /\ \A a \in Atendentes : apagada'[a] <=> apagada[a] \/ (aberto[a] = nome[n] /\ aberto[a] # Ninguem)
      /\ \A i \in Arquivos : conteudo'[i] =
           IF i = nome[n] /\ ~(\E a \in Atendentes : aberto[a] = i) THEN Ninguem ELSE conteudo[i]
  BY DEF Remover, ApagarNome, TypeInv, TypeOK, TypeOKSessao
<1>2. /\ entraram'[n] = {} /\ ~confirmado'[n]
      /\ \A m \in Navegadores : m # n => entraram'[m] = entraram[m] /\ confirmado'[m] = confirmado[m]
  BY DEF Remover, TypeInv, TypeOK
<1>3. \A a \in Atendentes :
        \/ fase'[a] = fase[a] /\ pedido'[a] = pedido[a]
        \/ fase[a] = "apagar" /\ fase'[a] = "livre"
  BY DEF Liberar, TypeInv, TypeOK
<1>4. ArquivoDaFase'
  <2> SUFFICES ASSUME NEW a \in Atendentes
               PROVE  ArquivoDaFase!(a)'
    BY DEF ArquivoDaFase
  <2>1. ArquivoDaFase!(a)
    BY DEF SessaoInv, ArquivoDaFase
  <2>2. QED BY <1>1, <1>3, <2>1
<1>5. NomesDistintos'
  BY <1>1 DEF SessaoInv, NomesDistintos
<1>6. ArquivoDoPedido'
  <2> SUFFICES ASSUME NEW a \in Atendentes, aberto[a] # Ninguem
               PROVE  IF apagada'[a] THEN \A m \in Navegadores : nome'[m] # aberto[a]
                                     ELSE nome'[pedido'[a].nav] = aberto[a]
    BY <1>1 DEF ArquivoDoPedido
  <2>1. fase[a] \notin {"livre", "apagar"}
    BY DEF SessaoInv, ArquivoDaFase
  <2>2. pedido'[a] = pedido[a] /\ pedido[a].nav \in Navegadores
    BY <1>3, <2>1 DEF TypeInv, PedidoEmCurso, Pedido
  <2>3. CASE apagada[a]
    BY <1>1, <2>3 DEF SessaoInv, ArquivoDoPedido
  <2>4. CASE ~apagada[a] /\ aberto[a] = nome[n]
    <3>1. \A m \in Navegadores : m # n => nome[m] # aberto[a]
      BY <2>4 DEF SessaoInv, NomesDistintos
    <3>2. QED BY <1>1, <2>4, <3>1
  <2>5. CASE ~apagada[a] /\ aberto[a] # nome[n]
    BY <1>1, <2>2, <2>5 DEF SessaoInv, ArquivoDoPedido
  <2>6. QED BY <2>3, <2>4, <2>5
<1>7. UmTrancado'
  BY <1>1 DEF SessaoInv, UmTrancado
<1>8. NovoVazio'
  BY <1>1 DEF SessaoInv, NovoVazio, Existe
<1>9. PaginaNoArquivo'
  BY <1>1, <1>3 DEF SessaoInv, PaginaNoArquivo, ArquivoDaFase, TypeInv, TypeOK, TypeOKSessao
<1>10. ValorEntrou'
  <2> SUFFICES ASSUME NEW a \in Atendentes, fase'[a] = "fechar", ~apagada'[a]
               PROVE  valor[a] \in entraram'[pedido'[a].nav]
    BY <1>1 DEF ValorEntrou
  <2>1. fase[a] = "fechar" /\ pedido'[a] = pedido[a] /\ ~apagada[a]
    BY <1>1, <1>3
  <2>2. aberto[a] # Ninguem /\ pedido[a].nav \in Navegadores
    BY <2>1 DEF SessaoInv, ArquivoDaFase, TypeInv, PedidoEmCurso, Pedido
  <2>3. nome[pedido[a].nav] = aberto[a] /\ aberto[a] # nome[n]
    BY <1>1, <2>1, <2>2 DEF SessaoInv, ArquivoDoPedido
  <2>4. QED BY <1>2, <2>1, <2>2, <2>3 DEF SessaoInv, ValorEntrou
<1>11. \A m \in Navegadores : Visivel(m)' = IF m = n THEN Ninguem ELSE Visivel(m)
  BY <1>1 DEF Visivel, SessaoInv, NomesDistintos, TypeInv, TypeOK, TypeOKSessao
<1>12. SaidaVale'
  BY <1>2, <1>11 DEF SessaoInv, SaidaVale
<1>13. LoginTemEfeito'
  BY <1>1, <1>2, <1>11 DEF SessaoInv, LoginTemEfeito
<1>14. QED BY <1>4, <1>5, <1>6, <1>7, <1>8, <1>9, <1>10, <1>12, <1>13 DEF SessaoInv

\* A login is accepted by a request that has the lock.
LEMMA EntrarSessao ==
  ASSUME TypeInv, SessaoInv, NEW a \in Atendentes, FazerLogin(a), ComSessao("login")
  PROVE  SessaoInv'
<1> DEFINE n == pedido[a].nav
           e == pedido[a].email
<1>1. n \in Navegadores /\ e \in Emails /\ e # Ninguem /\ pedido[a] \in Pedido
  BY AutenticacaoConstantes DEF FazerLogin, TypeInv, PedidoEmCurso, Preenchido, Pedido
<1>2. /\ fase[a] = "login" /\ trancado[a] /\ aberto[a] # Ninguem
      /\ UNCHANGED <<nome, conteudo, aberto, trancado, apagada, buffer>>
  BY DEF FazerLogin, ComSessao, SessaoInv, ArquivoDaFase
<1>3. /\ Alheio(a)
      /\ fase'[a] = "fechar" /\ valor'[a] = e
      /\ pedido' = [pedido EXCEPT ![a] = [pedido[a] EXCEPT !.email = Ninguem, !.senha = Ninguem]]
  BY <1>2 DEF FazerLogin, TypeInv, TypeOK, TypeOKSessao, Alheio
<1>4. pedido'[a].nav = n
  BY <1>1, <1>3 DEF TypeInv, TypeOK, Pedido
<1>5. /\ confirmado' = IF apagada[a] THEN confirmado ELSE [confirmado EXCEPT ![n] = TRUE]
      /\ entraram' = IF apagada[a] THEN entraram ELSE [entraram EXCEPT ![n] = @ \cup {e}]
  BY DEF FazerLogin
<1>6. /\ \A m \in Navegadores : entraram[m] \subseteq entraram'[m]
      /\ ~apagada[a] => e \in entraram'[n]
      /\ apagada[a] => confirmado' = confirmado
      /\ \A m \in Navegadores : m # n => confirmado'[m] = confirmado[m]
  BY <1>1, <1>5 DEF TypeInv, TypeOK
<1>7. ArquivoDaFase'
  BY <1>1, <1>2, <1>3 DEF Alheio, SessaoInv, ArquivoDaFase
<1>8. NomesDistintos' /\ UmTrancado' /\ NovoVazio'
  BY <1>2 DEF SessaoInv, NomesDistintos, UmTrancado, NovoVazio, Existe
<1>9. ArquivoDoPedido'
  BY <1>2, <1>3, <1>4 DEF Alheio, SessaoInv, ArquivoDoPedido
<1>10. PaginaNoArquivo'
  BY <1>2, <1>3 DEF Alheio, SessaoInv, PaginaNoArquivo
<1>11. ValorEntrou'
  <2> SUFFICES ASSUME NEW b \in Atendentes, fase'[b] = "fechar", ~apagada[b]
               PROVE  valor'[b] \in entraram'[pedido'[b].nav]
    BY <1>2 DEF ValorEntrou
  <2>1. CASE b = a
    BY <1>3, <1>4, <1>6, <2>1
  <2>2. CASE b # a
    <3>1. fase[b] = "fechar" /\ valor'[b] = valor[b] /\ pedido'[b] = pedido[b]
      BY <1>3, <2>2 DEF Alheio
    <3>2. pedido[b].nav \in Navegadores /\ valor[b] \in entraram[pedido[b].nav]
      BY <3>1 DEF SessaoInv, ValorEntrou, TypeInv, PedidoEmCurso, Pedido
    <3>3. QED BY <1>6, <3>1, <3>2
  <2>3. QED BY <2>1, <2>2
<1>12. SaidaVale'
  BY <1>2, <1>6 DEF SessaoInv, SaidaVale, Visivel
<1>13. LoginTemEfeito'
  <2> SUFFICES ASSUME NEW m \in Navegadores, confirmado'[m], Visivel(m) = Ninguem
               PROVE  \E b \in Atendentes :
                        nome[m] # Ninguem /\ aberto[b] = nome[m] /\ trancado[b] /\ valor'[b] # Ninguem
    BY <1>2 DEF LoginTemEfeito, Visivel
  <2>1. CASE m = n /\ ~apagada[a]
    BY <1>1, <1>2, <1>3, <2>1 DEF SessaoInv, ArquivoDoPedido
  <2>2. CASE m # n \/ apagada[a]
    <3>1. PICK b \in Atendentes :
            nome[m] # Ninguem /\ aberto[b] = nome[m] /\ trancado[b] /\ valor[b] # Ninguem
      BY <1>6, <2>2 DEF SessaoInv, LoginTemEfeito
    <3>2. b # a
      BY <1>2, <3>1 DEF SessaoInv, ArquivoDaFase
    <3>3. QED BY <1>3, <3>1, <3>2 DEF Alheio
  <2>3. QED BY <2>1, <2>2
<1>14. QED BY <1>7, <1>8, <1>9, <1>10, <1>11, <1>12, <1>13 DEF SessaoInv

\* A request that has no file, or keeps it locked for its second statement, moves on.
LEMMA SemArquivo ==
  ASSUME TypeInv, SessaoInv, NEW a \in Atendentes, NEW f \in Fases,
         UNCHANGED <<varsSessao, buffer, entraram, confirmado>>,
         fase' = [fase EXCEPT ![a] = f],
         \A b \in Atendentes \ {a} : pedido'[b] = pedido[b],
         \/ aberto[a] = Ninguem /\ f \in {"livre", "login", "verificar"} /\ (f = "login" => ~buffer)
         \/ fase[a] = "verificar" /\ f = "inserir" /\ pedido' = pedido
  PROVE  SessaoInv'
<1>1. /\ UNCHANGED <<nome, conteudo, aberto, trancado, valor, apagada>>
      /\ Alheio(a) /\ fase'[a] = f
  BY DEF varsSessao, TypeInv, TypeOK, Alheio
<1>2. fase[a] # "fechar"
  BY DEF SessaoInv, ArquivoDaFase
<1>3. ArquivoDaFase'
  BY <1>1, <1>2 DEF Alheio, SessaoInv, ArquivoDaFase
<1>4. NomesDistintos' /\ UmTrancado' /\ NovoVazio' /\ SaidaVale' /\ LoginTemEfeito'
  BY <1>1 DEF SessaoInv, NomesDistintos, UmTrancado, NovoVazio, Existe, SaidaVale,
              LoginTemEfeito, Visivel
<1>5. ArquivoDoPedido' /\ PaginaNoArquivo' /\ ValorEntrou'
  BY <1>1 DEF Alheio, SessaoInv, ArquivoDoPedido, PaginaNoArquivo, ValorEntrou
<1>6. QED BY <1>3, <1>4, <1>5 DEF SessaoInv

\* The end of a request that leaves $_SESSION alone.
LEMMA ResponderSessao ==
  ASSUME TypeInv, SessaoInv, NEW a \in Atendentes, NEW tipo, Responder(a, tipo),
         fase[a] \notin {"livre", "fechar"}, UNCHANGED <<buffer, entraram, confirmado>>
  PROVE  SessaoInv'
<1>1. /\ fase' = [fase EXCEPT ![a] = "livre"]
      /\ \A b \in Atendentes \ {a} : pedido'[b] = pedido[b]
  BY DEF Responder, Liberar, TypeInv, TypeOK
<1>2. CASE aberto[a] = Ninguem
  BY <1>1, <1>2, SemArquivo DEF Responder, Fases
<1>3. CASE aberto[a] # Ninguem
  BY <1>1, <1>3, FecharSessao DEF Responder, SoltarArquivo
<1>4. QED BY <1>2, <1>3

\* The end of the process, wherever the request was.
LEMMA CairSessao ==
  ASSUME TypeInv, SessaoInv, NEW a \in Atendentes, Cair(a)
  PROVE  SessaoInv'
<1>1. /\ fase[a] # "livre" /\ fase' = [fase EXCEPT ![a] = "livre"]
      /\ \A b \in Atendentes \ {a} : pedido'[b] = pedido[b]
      /\ UNCHANGED <<buffer, entraram>>
  BY DEF Cair, Liberar, TypeInv, TypeOK
<1>2. CASE aberto[a] = Ninguem
  <2>1. fase[a] # "fechar"
    BY <1>2 DEF SessaoInv, ArquivoDaFase
  <2>2. QED BY <1>1, <1>2, <2>1, SemArquivo DEF Cair, Fases
<1>3. CASE aberto[a] # Ninguem
  <2>1. FecharArquivo(a, conteudo[aberto[a]])
    BY <1>3 DEF Cair
  <2>2. \/ fase[a] # "fechar" /\ confirmado' = confirmado
        \/ /\ fase[a] = "fechar"
           /\ confirmado' = IF apagada[a] THEN confirmado
                            ELSE [confirmado EXCEPT ![pedido[a].nav] = FALSE]
    BY DEF Cair
  <2>3. QED BY <1>1, <1>3, <2>1, <2>2, FecharSessao
<1>4. QED BY <1>2, <1>3

\* The session files in their inductive form.
LEMMA SessaoInvariante == Spec => []SessaoInv
<1>1. Init => SessaoInv
  BY DEF Init, InitSessao, SessaoInv, ArquivoDaFase, NomesDistintos, ArquivoDoPedido, UmTrancado,
         NovoVazio, PaginaNoArquivo, ValorEntrou, SaidaVale, LoginTemEfeito, Visivel
<1>2. TypeInv /\ SessaoInv /\ [Next]_vars => SessaoInv'
  <2> SUFFICES ASSUME TypeInv, SessaoInv, [Next]_vars PROVE SessaoInv'
    OBVIOUS
  <2>1. ASSUME NEW a \in Atendentes, NEW p \in Pedido, Comecar(a, p)
        PROVE  SessaoInv'
    <3>1. CASE ComSessao(p.op)
      BY <2>1, <3>1, AbrirSessao
    <3>2. CASE ~ComSessao(p.op)
      <4>1. p.op \in {"login", "verificar"} /\ ~buffer /\ p.op \in Fases
        BY <3>2 DEF ComSessao, Pedido, Operacoes, Fases
      <4>2. aberto[a] = Ninguem
        BY <2>1 DEF Comecar, SessaoInv, ArquivoDaFase
      <4>3. UNCHANGED <<varsSessao, buffer, entraram, confirmado>> /\ fase' = [fase EXCEPT ![a] = p.op]
        BY <2>1, <3>2 DEF Comecar
      <4>4. \A b \in Atendentes \ {a} : pedido'[b] = pedido[b]
        BY <2>1 DEF Comecar, TypeInv, TypeOK
      <4>5. QED BY <4>1, <4>2, <4>3, <4>4, SemArquivo
    <3>3. QED BY <3>1, <3>2
  <2>2. ASSUME NEW a \in Atendentes, NEW n \in Navegadores,
               Entrar(a, n) \/ Cadastrar(a, n) \/ AbrirPagina(a, n) \/ Sair(a, n)
        PROVE  SessaoInv'
    BY <2>1, <2>2
    DEF Entrar, Cadastrar, AbrirPagina, Sair, Pedido, Operacoes
  <2>3. ASSUME NEW a \in Atendentes,
               JaEntrou(a) \/ Barrar(a) \/ EntregarPagina(a) \/ RecusarFormulario(a)
                 \/ FalharLogin(a) \/ InserirUsuario(a)
        PROVE  SessaoInv'
    <3>1. PICK tipo \in Respostas : Responder(a, tipo)
      BY <2>3 DEF JaEntrou, Barrar, EntregarPagina, RecusarFormulario, FalharLogin, InserirUsuario,
                  Respostas
    <3>2. fase[a] \notin {"livre", "fechar"} /\ UNCHANGED <<buffer, entraram, confirmado>>
      BY <2>3 DEF JaEntrou, Barrar, EntregarPagina, RecusarFormulario, FalharLogin, InserirUsuario,
                  Obter
    <3>3. QED BY <3>1, <3>2, ResponderSessao
  <2>4. ASSUME NEW a \in Atendentes, Prosseguir(a)
        PROVE  SessaoInv'
    <3>1. pedido[a].op \in {"login", "verificar"} /\ fase' = [fase EXCEPT ![a] = pedido[a].op]
      BY <2>4 DEF Prosseguir, Obter
    <3>2. QED BY <2>4, <3>1, TrancarSessao DEF Prosseguir, Obter
  <2>5. ASSUME NEW a \in Atendentes, Autorizar(a)
        PROVE  SessaoInv'
    <3>1. fase[a] = "espera" /\ pedido[a] \in Pedido
      BY <2>5 DEF Autorizar, Obter, TypeInv, PedidoEmCurso
    <3>2. pedido' = [pedido EXCEPT ![a] = [pedido[a] EXCEPT !.email = conteudo[aberto[a]]]]
      BY <2>5 DEF Autorizar
    <3>3. pedido'[a].nav = pedido[a].nav /\ pedido'[a].email = conteudo[aberto[a]]
      BY <3>1, <3>2 DEF Pedido, TypeInv, TypeOK
    <3>4. \A b \in Atendentes \ {a} : pedido'[b] = pedido[b]
      BY <3>2 DEF TypeInv, TypeOK
    <3>5. QED BY <2>5, <3>3, <3>4, TrancarSessao DEF Autorizar, Obter
  <2>6. ASSUME NEW a \in Atendentes, Fechar(a)
        PROVE  SessaoInv'
    <3>1. trancado[a] /\ aberto[a] # Ninguem
      BY <2>6 DEF Fechar, SessaoInv, ArquivoDaFase
    <3>2. \A b \in Atendentes \ {a} : pedido'[b] = pedido[b]
      BY <2>6 DEF Fechar, Liberar, TypeInv, TypeOK
    <3>3. QED BY <2>6, <3>1, <3>2, FecharSessao DEF Fechar, Liberar, GravarArquivo
  <2>7. ASSUME NEW a \in Atendentes, Soltar(a)
        PROVE  SessaoInv'
    <3>1. fase[a] = "espera" /\ aberto[a] # Ninguem
      BY <2>7 DEF Soltar, Obter, SessaoInv, ArquivoDaFase
    <3>2. QED BY <2>7, <3>1, FecharSessao DEF Soltar, Obter, SoltarArquivo
  <2>8. ASSUME NEW a \in Atendentes, Apagar(a)
        PROVE  SessaoInv'
    <3>1. pedido[a].nav \in Navegadores
      BY <2>8 DEF Apagar, TypeInv, PedidoEmCurso, Pedido
    <3>2. QED BY <2>8, <3>1, RemoverSessao DEF Apagar
  <2>9. ASSUME NEW n \in Navegadores, Coletar(n)
        PROVE  SessaoInv'
    BY <2>9, RemoverSessao DEF Coletar
  <2>10. ASSUME NEW a \in Atendentes, FazerLogin(a)
         PROVE  SessaoInv'
    BY <2>10, EntrarSessao, ResponderSessao DEF FazerLogin
  <2>11. ASSUME NEW a \in Atendentes, VerificarEmail(a)
         PROVE  SessaoInv'
    <3>1. CASE Responder(a, "ja_cadastrado")
      BY <2>11, <3>1, ResponderSessao DEF VerificarEmail
    <3>2. CASE fase' = [fase EXCEPT ![a] = "inserir"] /\ UNCHANGED <<varsSessao, pedido, resposta>>
      BY <2>11, <3>2, SemArquivo DEF VerificarEmail, Fases
    <3>3. QED BY <2>11, <3>1, <3>2 DEF VerificarEmail
  <2>12. ASSUME NEW a \in Atendentes, Cair(a)
         PROVE  SessaoInv'
    BY <2>12, CairSessao
  <2>13. CASE UNCHANGED vars
    BY <2>13 DEF vars, varsSessao, SessaoInv, ArquivoDaFase, NomesDistintos, ArquivoDoPedido,
                 UmTrancado, NovoVazio, Existe, PaginaNoArquivo, ValorEntrou, SaidaVale,
                 LoginTemEfeito, Visivel
  <2>14. QED
    BY <2>2, <2>3, <2>4, <2>5, <2>6, <2>7, <2>8, <2>9, <2>10, <2>11, <2>12, <2>13 DEF Next, Andar
<1>3. QED BY <1>1, <1>2, TypeCorrect, PTL DEF Spec, TypeInv

\* A logout is final, whatever the requests that overlapped it write when they end.
THEOREM SaidaDefinitiva == Spec => []SaidaVale
BY SessaoInvariante, PTL DEF SessaoInv

\* A login that was answered is in the session, or about to be written by a request
\* that keeps everyone else out, until the session is removed or that request itself
\* ends before it writes; whatever other requests do, and wherever they end.
THEOREM LoginNaoSePerde == Spec => []LoginTemEfeito
BY SessaoInvariante, PTL DEF SessaoInv

\* A page in the hands of a worker is for the user who is in the session, unless a
\* logout, or the collector, removed it meanwhile.
THEOREM PaginaProtegida == Spec => []PaginaDeQuemEntrou
<1>1. TypeInv /\ SessaoInv => PaginaDeQuemEntrou
  <2> SUFFICES ASSUME TypeInv, SessaoInv, NEW a \in Atendentes, fase[a] = "pagina", ~apagada[a]
               PROVE  Visivel(pedido[a].nav) = pedido[a].email
    BY DEF PaginaDeQuemEntrou, PaginaDoDono
  <2>1. aberto[a] # Ninguem
    BY DEF SessaoInv, ArquivoDaFase
  <2>2. nome[pedido[a].nav] = aberto[a]
    BY <2>1 DEF SessaoInv, ArquivoDoPedido
  <2>3. QED BY <2>1, <2>2 DEF SessaoInv, PaginaNoArquivo, Visivel
<1>2. QED BY <1>1, TypeCorrect, SessaoInvariante, PTL DEF TypeInv

-----------------------------------------------------------------------------
(* The table of users. *)

\* Only a registration that found no row with its e-mail changes the table.
LEMMA TabelaCresce ==
  ASSUME TypeInv, [Next]_vars
  PROVE  \/ UNCHANGED usuarios
         \/ \E a \in Atendentes :
              InserirUsuario(a) /\ ~Repetido(pedido[a].email) /\ usuarios' = Inserido(a)
<1>1. ASSUME NEW a \in Atendentes, NEW n \in Navegadores,
             Entrar(a, n) \/ Cadastrar(a, n) \/ AbrirPagina(a, n) \/ Sair(a, n)
      PROVE  UNCHANGED usuarios
  BY <1>1 DEF Entrar, Cadastrar, AbrirPagina, Sair, Comecar
<1>2. ASSUME NEW a \in Atendentes, Andar(a), ~InserirUsuario(a)
      PROVE  UNCHANGED usuarios
  BY <1>2 DEF Andar, JaEntrou, Prosseguir, Barrar, Autorizar, EntregarPagina, Fechar, Soltar,
     Apagar, Cair, RecusarFormulario, FazerLogin, FalharLogin, VerificarEmail, Obter
<1>3. ASSUME NEW n \in Navegadores, Coletar(n)
      PROVE  UNCHANGED usuarios
  BY <1>3 DEF Coletar
<1>4. CASE UNCHANGED vars
  BY <1>4 DEF vars
<1>5. QED BY <1>1, <1>2, <1>3, <1>4 DEF Next, InserirUsuario

\* E-mails stay unique although the check and the INSERT are two statements: the
\* column's UNIQUE decides.
THEOREM SemEmailRepetido == Spec => []EmailUnico
<1>1. Init => EmailUnico
  BY AutenticacaoConstantes DEF Init, EmailUnico
<1>2. TypeInv /\ EmailUnico /\ [Next]_vars => EmailUnico'
  <2> SUFFICES ASSUME TypeInv, EmailUnico, [Next]_vars PROVE EmailUnico'
    OBVIOUS
  <2>1. CASE UNCHANGED usuarios
    BY <2>1 DEF EmailUnico
  <2>2. ASSUME NEW a \in Atendentes, ~Repetido(pedido[a].email), usuarios' = Inserido(a)
        PROVE  EmailUnico'
    <3> SUFFICES ASSUME NEW u \in usuarios', NEW v \in usuarios', u.email = v.email
                 PROVE  u = v
      BY DEF EmailUnico
    <3>1. \A w \in usuarios : w.email # pedido[a].email
      BY <2>2 DEF Repetido
    <3>2. \A w \in usuarios' \ usuarios :
            w = [email |-> pedido[a].email, senha |-> pedido[a].senha, ativo |-> TRUE]
      BY <2>2 DEF Inserido
    <3>3. \A w \in usuarios' \ usuarios : w.email = pedido[a].email
      BY <3>2
    <3>4. CASE u \in usuarios /\ v \in usuarios
      BY <3>4 DEF EmailUnico
    <3>5. CASE u \in usuarios /\ v \notin usuarios
      BY <3>5, <3>1, <3>3
    <3>6. CASE u \notin usuarios /\ v \in usuarios
      BY <3>6, <3>1, <3>3
    <3>7. CASE u \notin usuarios /\ v \notin usuarios
      BY <3>7, <3>2
    <3>8. QED BY <3>4, <3>5, <3>6, <3>7
  <2>3. QED BY <2>1, <2>2, TabelaCresce
<1>3. QED BY <1>1, <1>2, TypeCorrect, PTL DEF Spec, TypeInv

\* Users are never taken away.
LEMMA UsuariosFicam ==
  ASSUME TypeInv, [Next]_vars
  PROVE  usuarios \subseteq usuarios'
BY TabelaCresce DEF Inserido

\* What the request of worker b is told at its end.
LEMMA RespostaDe ==
  ASSUME TypeInv, Next, NEW b \in Atendentes,
         fase[b] \in {"verificar", "inserir"}, fase'[b] = "livre"
  PROVE  RecusarFormulario(b) \/ VerificarEmail(b) \/ InserirUsuario(b) \/ Cair(b)
<1>1. ASSUME NEW a \in Atendentes, NEW n \in Navegadores,
             Entrar(a, n) \/ Cadastrar(a, n) \/ AbrirPagina(a, n) \/ Sair(a, n)
      PROVE  FALSE
  BY <1>1 DEF Entrar, Cadastrar, AbrirPagina, Sair, Comecar, TypeInv, TypeOK
<1>2. ASSUME NEW n \in Navegadores, Coletar(n)
      PROVE  FALSE
  BY <1>2 DEF Coletar
<1>3. ASSUME NEW a \in Atendentes, Andar(a), a # b
      PROVE  FALSE
  BY <1>3 DEF Andar, JaEntrou, Prosseguir, Barrar, Autorizar, EntregarPagina, Fechar, Soltar,
     Apagar, Cair, RecusarFormulario, FazerLogin, FalharLogin, VerificarEmail, InserirUsuario,
     Responder, Liberar, TypeInv, TypeOK
<1>4. ASSUME Andar(b)
      PROVE  RecusarFormulario(b) \/ VerificarEmail(b) \/ InserirUsuario(b) \/ Cair(b)
  BY <1>4 DEF Andar, JaEntrou, Prosseguir, Barrar, Autorizar, EntregarPagina, Fechar, Soltar,
     Apagar, FazerLogin, FalharLogin, Obter
<1>5. QED BY <1>1, <1>2, <1>3, <1>4 DEF Next

\* What a registration answers is true of the table, whoever else registers.
THEOREM CadastroNaoMente == Spec => CadastroVerdadeiro
<1>1. TypeInv /\ [Next]_vars => [RespostaVerdadeira]_vars
  <2> SUFFICES ASSUME TypeInv, Next, NEW a \in Atendentes,
                      fase[a] \in {"verificar", "inserir"}, fase'[a] = "livre"
               PROVE  /\ resposta'[pedido[a].nav] = "cadastrado" =>
                           \E u \in usuarios' : Confere(u, pedido[a])
                      /\ resposta'[pedido[a].nav] = "ja_cadastrado" =>
                           \E u \in usuarios' : u.email = pedido[a].email
    BY DEF RespostaVerdadeira
  <2>1. pedido[a].nav \in Navegadores
    BY DEF TypeInv, PedidoEmCurso, Pedido
  <2>2. ASSUME NEW tipo, Responder(a, tipo)
        PROVE  resposta'[pedido[a].nav] = tipo
    BY <2>1, <2>2 DEF Responder, Mostrar, TypeInv, TypeOK
  <2>3. CASE RecusarFormulario(a)
    BY <2>2, <2>3 DEF RecusarFormulario
  <2>4. CASE VerificarEmail(a)
    <3>1. fase'[a] # "inserir"
      OBVIOUS
    <3>2. Responder(a, "ja_cadastrado") /\ \E u \in usuarios : u.email = pedido[a].email
      BY <2>4, <3>1 DEF VerificarEmail, TypeInv, TypeOK
    <3>3. usuarios' = usuarios
      BY <2>4 DEF VerificarEmail
    <3>4. QED BY <2>2, <3>2, <3>3
  <2>5. CASE InserirUsuario(a)
    <3>1. CASE Responder(a, "excecao")
      BY <2>2, <3>1
    <3>2. CASE Responder(a, "cadastrado") /\ usuarios' = Inserido(a)
      <4> DEFINE u == [email |-> pedido[a].email, senha |-> pedido[a].senha, ativo |-> TRUE]
      <4>1. u \in usuarios' /\ Confere(u, pedido[a])
        BY <3>2 DEF Inserido, Confere
      <4>2. QED BY <2>2, <3>2, <4>1
    <3>3. CASE Responder(a, "nenhuma")
      BY <2>2, <3>3
    <3>4. QED BY <2>5, <3>1, <3>2, <3>3 DEF InserirUsuario
  <2>6. CASE Cair(a)
    <3>1. resposta'[pedido[a].nav] = "nenhuma"
      BY <2>1, <2>6 DEF Cair, Mostrar, TypeInv, TypeOK
    <3>2. QED BY <3>1
  <2>7. QED BY <2>3, <2>4, <2>5, <2>6, RespostaDe
<1>2. QED BY <1>1, TypeCorrect, PTL DEF Spec, TypeInv, CadastroVerdadeiro

-----------------------------------------------------------------------------
(* What the session files may hold. *)

Ativo(e) == \E u \in usuarios : u.email = e /\ u.ativo

\* Also what is about to be written is an active user.
UsuarioInv ==
  /\ \A i \in Arquivos : conteudo[i] # Ninguem => Ativo(conteudo[i])
  /\ \A a \in Atendentes : valor[a] # Ninguem => Ativo(valor[a])

\* Without output buffering nothing is ever going to be written.
SemBufferInv ==
  ~buffer =>
    /\ \A i \in Arquivos : conteudo[i] = Ninguem
    /\ \A a \in Atendentes : valor[a] = Ninguem /\ fase[a] # "pagina"
    /\ \A n \in Navegadores : resposta[n] # "pagina"

\* Where the contents of the files and the values to be written come from.
LEMMA Procedencia ==
  ASSUME TypeInv, SessaoInv, [Next]_vars
  PROVE  /\ \A i \in Arquivos :
              conteudo'[i] \in {conteudo[j] : j \in Arquivos} \cup {valor[a] : a \in Atendentes} \cup {Ninguem}
         /\ \A a \in Atendentes :
              \/ valor'[a] = valor[a] \/ valor'[a] = Ninguem
              \/ buffer /\ Ativo(valor'[a])
         /\ buffer' = buffer
<1> DEFINE De == {conteudo[j] : j \in Arquivos} \cup {valor[a] : a \in Atendentes} \cup {Ninguem}
           Conteudos == \A i \in Arquivos : conteudo'[i] \in De
           Valores == \A a \in Atendentes : valor'[a] = valor[a] \/ valor'[a] = Ninguem
<1>1. ASSUME UNCHANGED <<conteudo, valor>> PROVE Conteudos /\ Valores
  BY <1>1
<1>2. ASSUME NEW a \in Atendentes, NEW c \in De, FecharArquivo(a, c)
      PROVE  Conteudos /\ Valores
  BY <1>2 DEF FecharArquivo, TypeInv, TypeOK, TypeOKSessao
<1>3. ASSUME NEW a \in Atendentes, aberto[a] # Ninguem, SoltarArquivo(a)
      PROVE  Conteudos /\ Valores
  <2>1. conteudo[aberto[a]] \in De
    BY <1>3 DEF TypeInv, TypeOK, TypeOKSessao
  <2>2. QED BY <1>2, <1>3, <2>1 DEF SoltarArquivo
<1>4. ASSUME NEW a \in Atendentes, NEW tipo, Responder(a, tipo)
      PROVE  Conteudos /\ Valores
  BY <1>1, <1>3, <1>4 DEF Responder, varsSessao
<1>5. ASSUME NEW n \in Navegadores, ApagarNome(n)
      PROVE  Conteudos /\ Valores
  BY <1>5 DEF ApagarNome
<1>6. ASSUME NEW a \in Atendentes, NEW p, Comecar(a, p)
      PROVE  Conteudos /\ Valores /\ buffer' = buffer
  BY <1>1, <1>6 DEF Comecar, AbrirArquivo, varsSessao
<1>7. ASSUME NEW a \in Atendentes, NEW n \in Navegadores,
             Entrar(a, n) \/ Cadastrar(a, n) \/ AbrirPagina(a, n) \/ Sair(a, n)
      PROVE  Conteudos /\ Valores /\ buffer' = buffer
  BY <1>6, <1>7 DEF Entrar, Cadastrar, AbrirPagina, Sair
<1>8. ASSUME NEW a \in Atendentes,
             JaEntrou(a) \/ Barrar(a) \/ EntregarPagina(a) \/ RecusarFormulario(a)
               \/ FalharLogin(a) \/ InserirUsuario(a)
      PROVE  Conteudos /\ Valores /\ buffer' = buffer
  BY <1>4, <1>8 DEF JaEntrou, Barrar, EntregarPagina, RecusarFormulario, FalharLogin,
     InserirUsuario, Obter
<1>9. ASSUME NEW a \in Atendentes, Prosseguir(a) \/ Autorizar(a)
      PROVE  Conteudos /\ Valores /\ buffer' = buffer
  BY <1>1, <1>9 DEF Prosseguir, Autorizar, Obter, TrancarArquivo
<1>10. ASSUME NEW a \in Atendentes, Fechar(a)
       PROVE  Conteudos /\ Valores /\ buffer' = buffer
  BY <1>2, <1>10 DEF Fechar, GravarArquivo
<1>11. ASSUME NEW a \in Atendentes, Soltar(a)
       PROVE  Conteudos /\ Valores /\ buffer' = buffer
  BY <1>3, <1>11 DEF Soltar, Obter, SessaoInv, ArquivoDaFase
<1>12. ASSUME NEW a \in Atendentes, Apagar(a)
       PROVE  Conteudos /\ Valores /\ buffer' = buffer
  <2>1. pedido[a].nav \in Navegadores
    BY <1>12 DEF Apagar, TypeInv, PedidoEmCurso, Pedido
  <2>2. QED BY <1>5, <1>12, <2>1 DEF Apagar, Remover
<1>13. ASSUME NEW n \in Navegadores, Coletar(n)
       PROVE  Conteudos /\ Valores /\ buffer' = buffer
  BY <1>5, <1>13 DEF Coletar, Remover
<1>14. ASSUME NEW a \in Atendentes, VerificarEmail(a)
       PROVE  Conteudos /\ Valores /\ buffer' = buffer
  BY <1>1, <1>4, <1>14 DEF VerificarEmail, varsSessao
<1>15. ASSUME NEW a \in Atendentes, FazerLogin(a), ~ComSessao("login")
       PROVE  Conteudos /\ Valores /\ buffer' = buffer
  BY <1>4, <1>15 DEF FazerLogin
<1>16. ASSUME NEW a \in Atendentes, FazerLogin(a), ComSessao("login")
       PROVE  /\ Conteudos /\ buffer' = buffer /\ buffer
              /\ \A b \in Atendentes : valor'[b] = valor[b] \/ Ativo(valor'[b])
  <2>1. valor' = [valor EXCEPT ![a] = pedido[a].email] /\ Ativo(pedido[a].email)
    BY <1>16 DEF FazerLogin, Ativo, Confere
  <2>2. UNCHANGED <<conteudo, buffer>> /\ buffer
    BY <1>16 DEF FazerLogin, ComSessao
  <2>3. QED BY <2>1, <2>2 DEF TypeInv, TypeOK, TypeOKSessao
<1>17. ASSUME UNCHANGED vars PROVE Conteudos /\ Valores /\ buffer' = buffer
  BY <1>1, <1>17 DEF vars, varsSessao
<1>18. ASSUME NEW a \in Atendentes, Cair(a)
       PROVE  Conteudos /\ Valores /\ buffer' = buffer
  <2>1. CASE aberto[a] = Ninguem
    BY <1>1, <1>18, <2>1 DEF Cair, varsSessao
  <2>2. CASE aberto[a] # Ninguem
    <3>1. conteudo[aberto[a]] \in De
      BY <2>2 DEF TypeInv, TypeOK, TypeOKSessao
    <3>2. QED BY <1>2, <1>18, <2>2, <3>1 DEF Cair
  <2>3. QED BY <2>1, <2>2
<1> HIDE DEF Conteudos, Valores
<1>19. \/ Conteudos /\ Valores /\ buffer' = buffer
       \/ /\ Conteudos /\ buffer' = buffer /\ buffer
          /\ \A b \in Atendentes : valor'[b] = valor[b] \/ Ativo(valor'[b])
  BY <1>7, <1>8, <1>9, <1>10, <1>11, <1>12, <1>13, <1>14, <1>15, <1>16, <1>17, <1>18 DEF Next, Andar
<1>20. QED BY <1>19 DEF Conteudos, Valores

\* No session file, not even one that lost its name, holds anybody but an active user.
THEOREM SoAtivosEntram == Spec => []SessaoDeUsuario
<1>1. Init => UsuarioInv
  BY DEF Init, InitSessao, UsuarioInv
<1>2. TypeInv /\ SessaoInv /\ UsuarioInv /\ [Next]_vars => UsuarioInv'
  <2> SUFFICES ASSUME TypeInv, SessaoInv, UsuarioInv, [Next]_vars PROVE UsuarioInv'
    OBVIOUS
  <2>1. \A i \in Arquivos : conteudo'[i] # Ninguem => Ativo(conteudo'[i])
    BY Procedencia DEF UsuarioInv
  <2>2. \A a \in Atendentes : valor'[a] # Ninguem => Ativo(valor'[a])
    BY Procedencia DEF UsuarioInv
  <2>3. \A i \in Arquivos : conteudo'[i] # Ninguem => Ativo(conteudo[i])'
    <3> SUFFICES ASSUME NEW i \in Arquivos, conteudo'[i] # Ninguem PROVE Ativo(conteudo[i])'
      OBVIOUS
    <3>1. \E u \in usuarios : u.email = conteudo'[i] /\ u.ativo
      BY <2>1 DEF Ativo
    <3>2. QED BY <3>1, UsuariosFicam DEF Ativo
  <2>4. \A a \in Atendentes : valor'[a] # Ninguem => Ativo(valor[a])'
    <3> SUFFICES ASSUME NEW a \in Atendentes, valor'[a] # Ninguem PROVE Ativo(valor[a])'
      OBVIOUS
    <3>1. \E u \in usuarios : u.email = valor'[a] /\ u.ativo
      BY <2>2 DEF Ativo
    <3>2. QED BY <3>1, UsuariosFicam DEF Ativo
  <2>5. QED BY <2>3, <2>4 DEF UsuarioInv
<1>3. UsuarioInv => SessaoDeUsuario
  BY DEF UsuarioInv, Ativo, SessaoDeUsuario
<1>4. QED BY <1>1, <1>2, <1>3, TypeCorrect, SessaoInvariante, PTL DEF Spec, TypeInv

\* Nobody is in a session and no protected page is shown: what LoginRedireciona finds
\* for one login holds for all of them.
SemBufferNinguemEntra ==
  ~buffer => \A n \in Navegadores : Visivel(n) = Ninguem /\ resposta[n] # "pagina"

\* Without output buffering no session ever has a user and no page is ever shown.
THEOREM SemBufferSemEntrada == Spec => []SemBufferNinguemEntra
<1>1. Init => SemBufferInv
  BY DEF Init, InitSessao, SemBufferInv
<1>2. TypeInv /\ SessaoInv /\ SemBufferInv /\ [Next]_vars => SemBufferInv'
  <2> SUFFICES ASSUME TypeInv, SessaoInv, SemBufferInv, [Next]_vars, ~buffer
               PROVE  SemBufferInv'
    BY Procedencia DEF SemBufferInv
  <2>1. /\ \A i \in Arquivos : conteudo'[i] = Ninguem
        /\ \A a \in Atendentes : valor'[a] = Ninguem
    BY Procedencia DEF SemBufferInv
  <2>2. ASSUME NEW a \in Atendentes
        PROVE  fase'[a] # "pagina"
    <3>1. fase[a] # "pagina"
      BY DEF SemBufferInv
    <3>2. ASSUME NEW b \in Atendentes, Autorizar(b)
          PROVE  FALSE
      <4>1. conteudo[aberto[b]] \in Emails /\ aberto[b] # Ninguem
        BY <3>2 DEF Autorizar, Obter, TrancarArquivo
      <4>2. QED BY <4>1, AutenticacaoConstantes DEF SemBufferInv, TypeInv, TypeOK, TypeOKSessao
    <3>3. ASSUME NEW b \in Atendentes, NEW p, p.op \in Operacoes, Comecar(b, p)
          PROVE  fase'[a] # "pagina"
      BY <3>1, <3>3 DEF Comecar, ComSessao, Operacoes, TypeInv, TypeOK
    <3>4. ASSUME NEW b \in Atendentes, NEW n \in Navegadores,
                 Entrar(b, n) \/ Cadastrar(b, n) \/ AbrirPagina(b, n) \/ Sair(b, n)
          PROVE  fase'[a] # "pagina"
      <4>1. PICK op \in Operacoes, e \in Emails \cup {Ninguem}, x \in Senhas \cup {Ninguem} :
              Comecar(b, [nav |-> n, op |-> op, email |-> e, senha |-> x])
        BY <3>4 DEF Entrar, Cadastrar, AbrirPagina, Sair, Operacoes
      <4>2. QED BY <3>3, <4>1
    <3>5. ASSUME NEW b \in Atendentes, Prosseguir(b)
          PROVE  fase'[a] # "pagina"
      BY <3>1, <3>5 DEF Prosseguir, Obter, TypeInv, TypeOK
    <3>6. ASSUME NEW b \in Atendentes, NEW f \in Fases \ {"pagina"}, fase' = [fase EXCEPT ![b] = f]
          PROVE  fase'[a] # "pagina"
      BY <3>1, <3>6 DEF TypeInv, TypeOK
    <3>7. ASSUME NEW b \in Atendentes, Andar(b), ~Prosseguir(b), ~Autorizar(b)
          PROVE  \E f \in Fases \ {"pagina"} : fase' = [fase EXCEPT ![b] = f]
      BY <3>7 DEF Andar, JaEntrou, Barrar, EntregarPagina, Fechar, Soltar, Apagar, Cair,
         RecusarFormulario, FazerLogin, FalharLogin, VerificarEmail, InserirUsuario,
         Responder, Liberar, Fases, Operacoes
    <3>8. CASE UNCHANGED fase
      BY <3>1, <3>8
    <3>9. QED
      BY <3>2, <3>4, <3>5, <3>6, <3>7, <3>8 DEF Next, Coletar, vars
  <2>3. ASSUME NEW n \in Navegadores
        PROVE  resposta'[n] # "pagina"
    <3>1. resposta[n] # "pagina"
      BY DEF SemBufferInv
    <3>2. ASSUME NEW b \in Atendentes, NEW tipo, tipo # "pagina", Mostrar(b, tipo)
          PROVE  resposta'[n] # "pagina"
      BY <3>1, <3>2 DEF Mostrar, TypeInv, TypeOK
    <3>3. ASSUME NEW b \in Atendentes, Andar(b)
          PROVE  UNCHANGED resposta \/ \E tipo : tipo # "pagina" /\ Mostrar(b, tipo)
      <4>1. ~EntregarPagina(b)
        BY DEF EntregarPagina, SemBufferInv
      <4>2. QED
        BY <3>3, <4>1 DEF Andar, JaEntrou, Prosseguir, Barrar, Autorizar, Fechar, Soltar,
           Apagar, Cair, RecusarFormulario, FazerLogin, FalharLogin, VerificarEmail, InserirUsuario,
           Responder
    <3>4. CASE UNCHANGED resposta
      BY <3>1, <3>4
    <3>5. ASSUME NEW b \in Atendentes, NEW p, Comecar(b, p)
          PROVE  resposta'[n] # "pagina"
      BY <3>1, <3>5 DEF Comecar, TypeInv, TypeOK
    <3>6. QED
      BY <3>2, <3>3, <3>4, <3>5
      DEF Next, vars, Coletar, Entrar, Cadastrar, AbrirPagina, Sair
  <2>4. QED BY <2>1, <2>2, <2>3 DEF SemBufferInv
<1>3. TypeInv /\ SemBufferInv => SemBufferNinguemEntra
  BY DEF SemBufferInv, SemBufferNinguemEntra, Visivel, TypeInv, TypeOK, TypeOKSessao
<1>4. QED BY <1>1, <1>2, <1>3, TypeCorrect, SessaoInvariante, PTL DEF Spec, TypeInv

=============================================================================
