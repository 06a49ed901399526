----------------------------- MODULE Iniciador -----------------------------
(***************************************************************************)
(* iniciar_oficina.bat on Windows, run any number of times: it probes the  *)
(* ports with netstat, starts `php -S` in a window of its own, polls the   *)
(* login page and opens the browser, or gives up and leaves the server to  *)
(* its window.  The server binds as php_cli_server.c does.                 *)
(***************************************************************************)
EXTENDS Naturals, FiniteSets

CONSTANTS
  Lancamentos,     \* times the script is run
  MaxTentativas,   \* polls before it gives up: 20 in the code
  MaxFechados      \* bound: windows that are closed

ASSUME IniciadorConstantes == MaxTentativas \in Nat /\ MaxFechados \in Nat

Portas == {8000, 8080}

VARIABLES
  etapa,        \* where each run of the script stands
  porta,        \* its PORT
  tentativas,   \* its polls
  servidor,     \* the server it started
  navegador,    \* it opened the browser
  alheias,      \* ports another program listens on
  restos,       \* ports with connections that netstat still lists
  sobreposto    \* history: a port was probed while a server for it was on its way

varsIniciador == <<etapa, porta, tentativas, servidor, navegador, alheias, restos, sobreposto>>

Etapas == {"parado", "sonda8080", "partida", "espera", "abrir", "fim", "sem_porta", "sem_resposta"}

TypeOKIniciador ==
  /\ etapa \in [Lancamentos -> Etapas]
  /\ porta \in [Lancamentos -> Portas]
  /\ tentativas \in [Lancamentos -> 0..MaxTentativas]
  /\ servidor \in [Lancamentos -> {"nenhum", "subindo", "ouvindo", "caido"}]
  /\ navegador \in [Lancamentos -> BOOLEAN]
  /\ alheias \subseteq Portas
  /\ restos \subseteq Portas
  /\ sobreposto \in BOOLEAN

InitIniciador ==
  /\ etapa = [l \in Lancamentos |-> "parado"]
  /\ porta = [l \in Lancamentos |-> 8000]
  /\ tentativas = [l \in Lancamentos |-> 0]
  /\ servidor = [l \in Lancamentos |-> "nenhum"]
  /\ navegador = [l \in Lancamentos |-> FALSE]
  /\ alheias \in SUBSET Portas
  /\ restos = {}
  /\ sobreposto = FALSE

-----------------------------------------------------------------------------
OuvidaPorPhp(p) == \E l \in Lancamentos : servidor[l] = "ouvindo" /\ porta[l] = p

\* Variant: a search for the port of the local address only, which misses IPv6.
NetstatMostra_Nunca(p) == p \in alheias

\* netstat -ano | findstr ":p ": any line with the port, old connections included.
NetstatMostra(p) == OuvidaPorPhp(p) \/ p \in alheias \/ p \in restos

\* A run that has chosen p, or its server, is not listening yet.
ACaminho(p) ==
  \E l \in Lancamentos :
    porta[l] = p /\ (etapa[l] = "partida" \/ servidor[l] = "subindo")

Sondar8000(l) ==
  /\ etapa[l] = "parado"
  /\ etapa' = [etapa EXCEPT ![l] = IF NetstatMostra(8000) THEN "sonda8080" ELSE "partida"]
  /\ porta' = [porta EXCEPT ![l] = IF NetstatMostra(8000) THEN 8080 ELSE 8000]
  /\ sobreposto' = IF ACaminho(8000) THEN TRUE ELSE sobreposto
  /\ UNCHANGED <<tentativas, servidor, navegador, alheias, restos>>

\* Inside the block of line 56 %ERRORLEVEL% is what it was when cmd read the block: the
\* second netstat runs, but what is tested is the first one's result again, and 8080 is
\* never used.
Sondar8080(l) ==
  /\ etapa[l] = "sonda8080"
  /\ etapa' = [etapa EXCEPT ![l] = "sem_porta"]
  /\ UNCHANGED <<porta, tentativas, servidor, navegador, alheias, restos, sobreposto>>

\* start "Oficina Inteligente" cmd /c ...
Partir(l) ==
  /\ etapa[l] = "partida"
  /\ etapa' = [etapa EXCEPT ![l] = "espera"]
  /\ servidor' = [servidor EXCEPT ![l] = "subindo"]
  /\ UNCHANGED <<porta, tentativas, navegador, alheias, restos, sobreposto>>

\* bind and listen.  SO_REUSEADDR is always set: where it lets two sockets share a
\* port, as Windows does, whoever has the port need not be an obstacle, nor another
\* program any more than another php -S.
Ouvir(l) ==
  /\ servidor[l] = "subindo"
  /\ \/ servidor' = [servidor EXCEPT ![l] = "ouvindo"]
     \/ /\ porta[l] \in alheias \/ OuvidaPorPhp(porta[l])
        /\ servidor' = [servidor EXCEPT ![l] = "caido"]
  /\ UNCHANGED <<etapa, porta, tentativas, navegador, alheias, restos, sobreposto>>

\* Somebody answers on the port: any php -S, or the other program.
Responde(p) == OuvidaPorPhp(p) \/ p \in alheias

\* Invoke-WebRequest with a timeout of 3 seconds: no answer when nobody listens yet,
\* or when the only worker is busy.
Tentar(l) ==
  /\ etapa[l] = "espera"
  /\ tentativas[l] < MaxTentativas
  /\ \/ /\ Responde(porta[l])
        /\ etapa' = [etapa EXCEPT ![l] = "abrir"]
        /\ UNCHANGED tentativas
     \/ /\ tentativas' = [tentativas EXCEPT ![l] = @ + 1]
        /\ UNCHANGED etapa
  /\ UNCHANGED <<porta, servidor, navegador, alheias, restos, sobreposto>>

\* The message after the loop; the server, if it is only slow, stays.
Desistir(l) ==
  /\ etapa[l] = "espera"
  /\ tentativas[l] = MaxTentativas
  /\ etapa' = [etapa EXCEPT ![l] = "sem_resposta"]
  /\ UNCHANGED <<porta, tentativas, servidor, navegador, alheias, restos, sobreposto>>

Abrir(l) ==
  /\ etapa[l] = "abrir"
  /\ etapa' = [etapa EXCEPT ![l] = "fim"]
  /\ navegador' = [navegador EXCEPT ![l] = TRUE]
  /\ UNCHANGED <<porta, tentativas, servidor, alheias, restos, sobreposto>>

\* The server's window is closed; its connections linger in netstat for a while.
FecharJanela(l) ==
  /\ servidor[l] \in {"subindo", "ouvindo"}
  /\ Cardinality({m \in Lancamentos : servidor[m] = "caido"}) < MaxFechados
  /\ servidor' = [servidor EXCEPT ![l] = "caido"]
  /\ restos' \in IF servidor[l] = "ouvindo" THEN {restos, restos \cup {porta[l]}} ELSE {restos}
  /\ UNCHANGED <<etapa, porta, tentativas, navegador, alheias, sobreposto>>

Esquecer(p) ==
  /\ p \in restos
  /\ restos' = restos \ {p}
  /\ UNCHANGED <<etapa, porta, tentativas, servidor, navegador, alheias, sobreposto>>

\* Another program takes a free port.
Ocupar(p) ==
  /\ ~NetstatMostra(p)
  /\ alheias = {}
  /\ alheias' = {p}
  /\ UNCHANGED <<etapa, porta, tentativas, servidor, navegador, restos, sobreposto>>

Andamento(l) == Sondar8080(l) \/ Partir(l) \/ Ouvir(l) \/ Tentar(l) \/ Desistir(l) \/ Abrir(l)

NextIniciador ==
  \/ \E l \in Lancamentos : Sondar8000(l) \/ Andamento(l) \/ FecharJanela(l)
  \/ \E p \in Portas : Esquecer(p) \/ Ocupar(p)

SpecIniciador == InitIniciador /\ [][NextIniciador]_varsIniciador

-----------------------------------------------------------------------------
NaPorta(p) == {l \in Lancamentos : servidor[l] = "ouvindo" /\ porta[l] = p}

\* Two servers share a port only when a port was probed while a server was on its
\* way to it, as when a slow start is taken for a failure and tried again: run one
\* after the other, the script starts at most one server per port.
UmServidorPorPorta == ~sobreposto => \A p \in Portas : Cardinality(NaPorta(p)) <= 1

\* "Porta 8000 em uso. Tentando a porta 8080...": the script gives up for lack of a
\* port only when it saw that 8080 is taken too.
TentaSegundaPorta ==
  [][\A l \in Lancamentos :
       etapa[l] = "sonda8080" /\ etapa'[l] = "sem_porta" => NetstatMostra(8080)]_varsIniciador

=============================================================================
