-------------------------------- MODULE Sessao --------------------------------
(***************************************************************************)
(* The session files under session_start and session_destroy, as the       *)
(* interpreter of this repository keeps them (ext/session/mod_files.c).    *)
(* A session is a name in a directory; opening creates the file when the   *)
(* name is missing, and only then waits for its lock.  Destroying closes   *)
(* the file first and removes the name afterwards, and the collector       *)
(* removes names of old sessions without any lock.  So a request may hold, *)
(* or wait for, a file that no name leads to any more.                     *)
(*                                                                         *)
(* The operators are steps of a request; Autenticacao puts them in order.  *)
(***************************************************************************)
EXTENDS Naturals, FiniteSets

CONSTANTS
  Navegadores,  \* browsers, each with its session cookie (PHPSESSID)
  Atendentes,   \* web-server workers
  Arquivos,     \* files that may exist at once: names and workers, less one, are enough
  Emails,
  Ninguem       \* no user in the session, no file, no request

VARIABLES
  nome,      \* the file that each session's name leads to
  conteudo,  \* the user in each file; Ninguem in those that do not exist
  aberto,    \* the file each worker has open
  trancado,  \* it has its lock
  valor,     \* the user that the script put in $_SESSION, to be written
  apagada    \* history: the name was removed since the worker opened the file

varsSessao == <<nome, conteudo, aberto, trancado, valor, apagada>>

TypeOKSessao ==
  /\ nome \in [Navegadores -> Arquivos \cup {Ninguem}]
  /\ conteudo \in [Arquivos -> Emails \cup {Ninguem}]
  /\ aberto \in [Atendentes -> Arquivos \cup {Ninguem}]
  /\ trancado \in [Atendentes -> BOOLEAN]
  /\ valor \in [Atendentes -> Emails \cup {Ninguem}]
  /\ apagada \in [Atendentes -> BOOLEAN]

InitSessao ==
  /\ nome = [n \in Navegadores |-> Ninguem]
  /\ conteudo = [i \in Arquivos |-> Ninguem]
  /\ aberto = [a \in Atendentes |-> Ninguem]
  /\ trancado = [a \in Atendentes |-> FALSE]
  /\ valor = [a \in Atendentes |-> Ninguem]
  /\ apagada = [a \in Atendentes |-> FALSE]

\* Who a new request of n would find in its session.
Visivel(n) == IF nome[n] = Ninguem THEN Ninguem ELSE conteudo[nome[n]]

Existe(i) == (\E n \in Navegadores : nome[n] = i) \/ (\E a \in Atendentes : aberto[a] = i)

\* open(O_CREAT): by name.
AbrirArquivo(a, n) ==
  /\ aberto[a] = Ninguem
  /\ \/ /\ nome[n] # Ninguem
        /\ aberto' = [aberto EXCEPT ![a] = nome[n]]
        /\ UNCHANGED nome
     \/ /\ nome[n] = Ninguem
        /\ \E i \in Arquivos :
             /\ ~Existe(i)
             /\ nome' = [nome EXCEPT ![n] = i]
             /\ aberto' = [aberto EXCEPT ![a] = i]
  /\ UNCHANGED <<conteudo, trancado, valor, apagada>>

\* Variant: sessions that are not locked.
Livre_Sempre(i) == TRUE

Livre(i) == \A b \in Atendentes : aberto[b] = i => ~trancado[b]

\* flock(LOCK_EX); what is read then is the file, whatever its name.
TrancarArquivo(a) ==
  /\ aberto[a] # Ninguem
  /\ ~trancado[a]
  /\ Livre(aberto[a])
  /\ trancado' = [trancado EXCEPT ![a] = TRUE]
  /\ UNCHANGED <<nome, conteudo, aberto, valor, apagada>>

\* A file is gone when it has no name and nobody else has it open.
Sobra(a) ==
  \/ \E n \in Navegadores : nome[n] = aberto[a]
  \/ \E b \in Atendentes \ {a} : aberto[b] = aberto[a]

FecharArquivo(a, c) ==
  /\ conteudo' = [conteudo EXCEPT ![aberto[a]] = IF Sobra(a) THEN c ELSE Ninguem]
  /\ aberto' = [aberto EXCEPT ![a] = Ninguem]
  /\ trancado' = [trancado EXCEPT ![a] = FALSE]
  /\ valor' = [valor EXCEPT ![a] = Ninguem]
  /\ apagada' = [apagada EXCEPT ![a] = FALSE]
  /\ UNCHANGED nome

\* Variant: the file is opened again, by name, to be written.
GravarArquivo_PeloNome(a, n) ==
  /\ conteudo' = [conteudo EXCEPT ![IF nome[n] = Ninguem THEN aberto[a] ELSE nome[n]] = valor[a]]
  /\ aberto' = [aberto EXCEPT ![a] = Ninguem]
  /\ trancado' = [trancado EXCEPT ![a] = FALSE]
  /\ valor' = [valor EXCEPT ![a] = Ninguem]
  /\ apagada' = [apagada EXCEPT ![a] = FALSE]
  /\ UNCHANGED nome

\* Variant: $_SESSION is taken for unchanged.
GravarArquivo_Igual(a, n) == FecharArquivo(a, conteudo[aberto[a]])

\* End of the request: $_SESSION, when it was changed (lazy_write), goes into the file
\* that is open, which is then closed.
GravarArquivo(a, n) == FecharArquivo(a, valor[a])

\* The file is closed as it was: session_destroy does this first of all, and so does
\* the end of a request that left $_SESSION alone, with or without a script in between.
SoltarArquivo(a) ==
  /\ Livre(aberto[a]) \/ trancado[a]
  /\ FecharArquivo(a, conteudo[aberto[a]])

\* unlink(name), whatever file is behind it by now.
ApagarNome(n) ==
  /\ nome' = [nome EXCEPT ![n] = Ninguem]
  /\ conteudo' = [i \in Arquivos |->
       IF i = nome[n] /\ ~(\E a \in Atendentes : aberto[a] = i) THEN Ninguem ELSE conteudo[i]]
  /\ apagada' = [a \in Atendentes |-> apagada[a] \/ (aberto[a] = nome[n] /\ aberto[a] # Ninguem)]
  /\ UNCHANGED <<aberto, trancado, valor>>

=============================================================================
