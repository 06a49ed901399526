-------------------------- MODULE ImplantacaoProofs --------------------------
(***************************************************************************)
(* Theorems of the script that starts the servers (Iniciador), of the      *)
(* requests and the two databases (Conexao) and of the whole (Implantacao),*)
(* for any number of runs, servers, users, saves and changes of MySQL.     *)
(* The lemmas on a part speak of the part's own steps, so that the whole   *)
(* can cite them for the half of each step that is that part's.            *)
(***************************************************************************)
EXTENDS Implantacao, FiniteSetTheorems, TLAPS

-----------------------------------------------------------------------------
(* Iniciador *)

\* A step of the script, of its windows or of what surrounds it.
PassoIniciador == [NextIniciador]_varsIniciador

\* Type correctness of the script, as a step invariant.
LEMMA TiposDoIniciador ==
  /\ InitIniciador => TypeOKIniciador
  /\ TypeOKIniciador /\ PassoIniciador => TypeOKIniciador'
<1>1. ASSUME InitIniciador PROVE TypeOKIniciador
  <2>1. 0 \in 0..MaxTentativas
    BY IniciadorConstantes
  <2>2. 8000 \in Portas /\ "parado" \in Etapas /\ alheias \subseteq Portas
    BY <1>1 DEF InitIniciador, Portas, Etapas
  <2>3. sobreposto \in BOOLEAN
    BY <1>1, Zenon DEF InitIniciador
  <2>4. QED BY <1>1, <2>1, <2>2, <2>3 DEF InitIniciador, TypeOKIniciador
<1>2. ASSUME TypeOKIniciador, PassoIniciador PROVE TypeOKIniciador'
  <2>1. ASSUME NEW l \in Lancamentos, Sondar8000(l) \/ Sondar8080(l) \/ Partir(l)
        PROVE  TypeOKIniciador'
    <3>1. Sondar8000(l) => sobreposto' = IF ACaminho(8000) THEN TRUE ELSE sobreposto
      BY DEF Sondar8000
    <3>2. sobreposto' \in BOOLEAN
      <4>1. CASE Sondar8000(l)
        <5>1. sobreposto \in BOOLEAN
          BY <1>2 DEF TypeOKIniciador
        <5>2. CASE ACaminho(8000)
          <6>1. sobreposto' = TRUE
            BY <3>1, <4>1, <5>2
          <6>2. QED BY <6>1, Zenon
        <5>3. CASE ~ACaminho(8000)
          BY <3>1, <4>1, <5>1, <5>3
        <5>4. QED BY <5>2, <5>3
      <4>2. CASE Sondar8080(l) \/ Partir(l)
        BY <1>2, <4>2 DEF TypeOKIniciador, Sondar8080, Partir
      <4>3. QED BY <2>1, <4>1, <4>2
    <3>3. CASE Sondar8000(l)
      <4>1. /\ etapa' \in [Lancamentos -> Etapas]
            /\ porta' \in [Lancamentos -> Portas]
        BY <1>2, <3>3 DEF TypeOKIniciador, Sondar8000, Etapas, Portas
      <4>2. UNCHANGED <<tentativas, servidor, navegador, alheias, restos>>
        BY <3>3 DEF Sondar8000
      <4>3. QED BY <1>2, <3>2, <4>1, <4>2 DEF TypeOKIniciador
    <3>4. CASE Sondar8080(l) \/ Partir(l)
      BY <1>2, <3>2, <3>4 DEF TypeOKIniciador, Sondar8080, Partir, Etapas
    <3>5. QED BY <2>1, <3>3, <3>4
  <2>2. ASSUME NEW l \in Lancamentos, Ouvir(l) \/ FecharJanela(l)
        PROVE  TypeOKIniciador'
    <3>1. porta[l] \in Portas
      BY <1>2 DEF TypeOKIniciador
    <3>2. QED BY <1>2, <2>2, <3>1 DEF TypeOKIniciador, Ouvir, FecharJanela
  <2>3. ASSUME NEW l \in Lancamentos, Tentar(l) \/ Desistir(l) \/ Abrir(l)
        PROVE  TypeOKIniciador'
    <3>1. CASE Tentar(l)
      <4>1. tentativas[l] < MaxTentativas => tentativas[l] + 1 \in 0..MaxTentativas
        BY <1>2, IniciadorConstantes DEF TypeOKIniciador
      <4>2. UNCHANGED <<navegador, sobreposto>>
        BY <3>1 DEF Tentar
      <4>3. QED BY <1>2, <3>1, <4>1, <4>2 DEF TypeOKIniciador, Tentar, Etapas
    <3>2. CASE Desistir(l)
      BY <1>2, <3>2 DEF TypeOKIniciador, Desistir, Etapas
    <3>3. CASE Abrir(l)
      <4>1. navegador' \in [Lancamentos -> BOOLEAN]
        BY <1>2, <3>3, Zenon DEF TypeOKIniciador, Abrir
      <4>2. QED BY <1>2, <3>3, <4>1 DEF TypeOKIniciador, Abrir, Etapas
    <3>4. QED BY <2>3, <3>1, <3>2, <3>3
  <2>4. ASSUME NEW p \in Portas, Esquecer(p) \/ Ocupar(p)
        PROVE  TypeOKIniciador'
    BY <1>2, <2>4 DEF TypeOKIniciador, Esquecer, Ocupar
  <2>5. CASE UNCHANGED varsIniciador
    BY <1>2, <2>5 DEF varsIniciador, TypeOKIniciador
  <2>6. QED
    BY <1>2, <2>1, <2>2, <2>3, <2>4, <2>5
    DEF PassoIniciador, NextIniciador, Andamento
<1>3. QED BY <1>1, <1>2

-----------------------------------------------------------------------------
\* A run holds its port from the probe that found it free until its server is down.
Segura(l) == etapa[l] = "partida" \/ servidor[l] \in {"subindo", "ouvindo"}

\* The server of a run exists only after the run chose its port and started it.
EtapaDoServidor ==
  \A l \in Lancamentos :
    etapa[l] \in {"parado", "sonda8080", "partida", "sem_porta"} => servidor[l] = "nenhum"

\* Unless probes and starts overlapped, no port is held twice.
PortaDeUm ==
  ~sobreposto =>
    \A l, m \in Lancamentos : Segura(l) /\ Segura(m) /\ porta[l] = porta[m] => l = m

PortasInv == TypeOKIniciador /\ EtapaDoServidor /\ PortaDeUm

\* Nothing holds a port after a step that did not hold it before, but a run that
\* has just probed.
LEMMA PortasPasso ==
  /\ InitIniciador => PortasInv
  /\ PortasInv /\ PassoIniciador => PortasInv'
<1>1. InitIniciador => PortasInv
  <2>1. InitIniciador => EtapaDoServidor /\ PortaDeUm
    BY DEF InitIniciador, EtapaDoServidor, PortaDeUm, Segura
  <2>2. QED BY <2>1, TiposDoIniciador DEF PortasInv
<1>2. ASSUME PortasInv, PassoIniciador PROVE PortasInv'
  <2>1. TypeOKIniciador'
    BY <1>2, TiposDoIniciador DEF PortasInv
  <2>2. EtapaDoServidor' /\ PortaDeUm'
    <3>1. ASSUME NEW l \in Lancamentos, Sondar8000(l)
          PROVE  EtapaDoServidor' /\ PortaDeUm'
      <4>1. EtapaDoServidor'
        BY <1>2, <3>1 DEF PortasInv, TypeOKIniciador, EtapaDoServidor, Sondar8000
      <4>2. \A m \in Lancamentos : m # l =>
              /\ etapa'[m] = etapa[m] /\ porta'[m] = porta[m] /\ servidor'[m] = servidor[m]
        BY <1>2, <3>1 DEF PortasInv, TypeOKIniciador, Sondar8000
      <4>3. servidor'[l] = "nenhum"
        BY <1>2, <3>1 DEF PortasInv, EtapaDoServidor, Sondar8000
      <4>4. CASE NetstatMostra(8000)
        <5>1. etapa'[l] = "sonda8080"
          BY <1>2, <3>1, <4>4 DEF PortasInv, TypeOKIniciador, Sondar8000
        <5>2. QED
          BY <1>2, <3>1, <4>1, <4>2, <4>3, <5>1 DEF PortasInv, PortaDeUm, Segura, Sondar8000
      <4>5. CASE ~NetstatMostra(8000)
        <5>1. porta'[l] = 8000
          BY <1>2, <3>1, <4>5 DEF PortasInv, TypeOKIniciador, Sondar8000
        <5>2. ~sobreposto' =>
                \A m \in Lancamentos : m # l /\ porta'[m] = 8000 => ~Segura(m)'
          BY <1>2, <3>1, <4>2, <4>5
          DEF Sondar8000, NetstatMostra, OuvidaPorPhp, ACaminho, Segura
        <5>3. QED
          BY <1>2, <3>1, <4>1, <4>2, <5>1, <5>2 DEF PortasInv, PortaDeUm, Segura, Sondar8000
      <4>6. QED BY <4>4, <4>5
    <3>2. ASSUME porta' = porta, sobreposto' = sobreposto, EtapaDoServidor',
                 \A m \in Lancamentos : Segura(m)' => Segura(m)
          PROVE  EtapaDoServidor' /\ PortaDeUm'
      BY <1>2, <3>2 DEF PortasInv, PortaDeUm
    <3>3. ASSUME NEW l \in Lancamentos,
                 \/ Sondar8080(l) \/ Partir(l) \/ Ouvir(l) \/ FecharJanela(l)
                 \/ Tentar(l) \/ Desistir(l) \/ Abrir(l)
          PROVE  EtapaDoServidor' /\ PortaDeUm'
      <4>1. porta' = porta /\ sobreposto' = sobreposto
        BY <3>3 DEF Sondar8080, Partir, Ouvir, FecharJanela, Tentar, Desistir, Abrir
      <4>2. EtapaDoServidor'
        BY <1>2, <3>3
        DEF PortasInv, TypeOKIniciador, EtapaDoServidor, Sondar8080, Partir, Ouvir,
            FecharJanela, Tentar, Desistir, Abrir
      <4>3. \A m \in Lancamentos : Segura(m)' => Segura(m)
        BY <1>2, <3>3
        DEF PortasInv, TypeOKIniciador, Segura, Sondar8080, Partir, Ouvir, FecharJanela,
            Tentar, Desistir, Abrir
      <4>4. QED BY <3>2, <4>1, <4>2, <4>3
    <3>4. ASSUME UNCHANGED <<etapa, porta, servidor, sobreposto>>
          PROVE  EtapaDoServidor' /\ PortaDeUm'
      BY <1>2, <3>4 DEF PortasInv, EtapaDoServidor, PortaDeUm, Segura
    <3>5. QED
      BY <1>2, <3>1, <3>3, <3>4
      DEF PassoIniciador, NextIniciador, Andamento, Esquecer, Ocupar, varsIniciador
  <2>3. QED BY <2>1, <2>2 DEF PortasInv
<1>3. QED BY <1>1, <1>2

\* A port that nobody holds twice has at most one server listening.
LEMMA UmOuvinte ==
  ASSUME PortasInv
  PROVE  UmServidorPorPorta
<1>1. ASSUME ~sobreposto, NEW p \in Portas
      PROVE  Cardinality(NaPorta(p)) <= 1
  <2>1. \A l, m \in NaPorta(p) : l = m
    BY <1>1 DEF PortasInv, PortaDeUm, Segura, NaPorta
  <2>2. CASE NaPorta(p) = {}
    BY <2>2, FS_EmptySet
  <2>3. CASE NaPorta(p) # {}
    <3>1. PICK l : NaPorta(p) = {l}
      BY <2>1, <2>3
    <3>2. QED BY <3>1, FS_Singleton
  <2>4. QED BY <2>2, <2>3
<1>2. QED BY <1>1 DEF UmServidorPorPorta

\* Type correctness of the script and of its servers.
THEOREM TiposCertos == SpecIniciador => []TypeOKIniciador
<1>1. QED BY TiposDoIniciador, PTL DEF SpecIniciador, PassoIniciador

\* However many times the script is run, and however long each server takes to start:
\* one port has one server, unless a run probed the port while another was between its
\* probe and its server's listen.  So the probe is enough where runs do not overlap.
THEOREM UmPorPorta == SpecIniciador => []UmServidorPorPorta
<1>1. SpecIniciador => []PortasInv
  BY PortasPasso, PTL DEF SpecIniciador, PassoIniciador
<1>2. QED BY <1>1, UmOuvinte, PTL

-----------------------------------------------------------------------------
(* Conexao *)

\* The request in course at a is over, whatever it had done.
Interromper(a) ==
  /\ Terminar(a)
  /\ UNCHANGED <<mysql, trocas, linhas, salvos, form, pagina, ultimo>>

\* What may happen to the databases, the requests and the screens in one step.
PassoConexao ==
  \/ \E a \in Servidores : Atender(a) \/ Interromper(a) \/ \E u \in Usuarios : Pedir(a, u)
  \/ Trocar
  \/ UNCHANGED varsConexao

Ocupado(a) == curso[a] # Nada

ComLinha(u) == form[u] # Nada /\ form[u].id # Nada

-----------------------------------------------------------------------------
(* The parts of the inductive invariant *)

\* A form is saved by the only request of its user, with the id it shows.
PedidosInv ==
  /\ \A a, b \in Servidores :
       Ocupado(a) /\ Ocupado(b) /\ curso[a].de = curso[b].de => a = b
  /\ \A a \in Servidores : Ocupado(a) /\ curso[a].op = "carregar" => curso[a].id \in Ids
  /\ \A a \in Servidores : Ocupado(a) /\ curso[a].op = "salvar" =>
       form[curso[a].de] # Nada /\ form[curso[a].de].id = curso[a].id

\* Every row but the first of each database came from a save.
ContagemInv ==
  /\ \A b \in Bancos : Len(linhas[b]) <= salvos + 1
  /\ salvos + Cardinality(Gravando) <= MaxSalvos

\* The row of a form is where the form was loaded from: rows only get added.
FormulariosInv ==
  \A u \in Usuarios : ComLinha(u) =>
    /\ form[u].id \in 1..Len(linhas[form[u].banco])
    /\ linhas[form[u].banco][form[u].id] = form[u].linha

\* The database that db_connect would have chosen when trocas was q: MySQL comes and
\* goes in turns, so this never changes.
BancoEm(q) == IF (q % 2 = trocas % 2) <=> mysql THEN "mysql" ELSE "sqlite"

\* What names a database, with the time it was chosen.
FormMarcado(u) == ComLinha(u) => form[u].banco = BancoEm(form[u].quando)
PedidoMarcado(a) ==
  Ocupado(a) /\ curso[a].banco # Nada => curso[a].banco = BancoEm(curso[a].quando)
ListaMarcada(u) == pagina[u] # Nada => pagina[u].banco = BancoEm(pagina[u].quando)
SalvoMarcado(u) ==
  ultimo[u] # Nada =>
    /\ ultimo[u].banco = BancoEm(ultimo[u].quando)
    /\ ultimo[u].origem = BancoEm(ultimo[u].desde)

\* Whatever names a database names the one of its time.
MarcasInv ==
  /\ \A u \in Usuarios : FormMarcado(u) /\ ListaMarcada(u) /\ SalvoMarcado(u)
  /\ \A a \in Servidores : PedidoMarcado(a)

\* A save only misses its row in another database than its form's.
AlvoInv ==
  \A u \in Usuarios :
    ultimo[u] # Nada /\ ultimo[u].atingida # ultimo[u].pretendida
      => ultimo[u].banco # ultimo[u].origem

\* The saved row is still in its database, and on what was listed from there since.
VistaInv ==
  \A u \in Usuarios : ultimo[u] # Nada =>
    /\ ultimo[u].atingida \in Visiveis(ultimo[u].banco) \cup {Nada}
    /\ pagina[u] # Nada /\ pagina[u].banco = ultimo[u].banco =>
         ultimo[u].atingida \in pagina[u].linhas \cup {Nada}

ConexaoInv ==
  /\ TypeOKConexao /\ PedidosInv /\ ContagemInv
  /\ FormulariosInv /\ MarcasInv /\ AlvoInv /\ VistaInv

-----------------------------------------------------------------------------
(* Facts about the state *)

\* A request that is in course is one, and the form of a save has a row or is empty.
LEMMA CursoBemFormado ==
  ASSUME TypeOKConexao, PedidosInv, NEW a \in Servidores, Ocupado(a)
  PROVE  /\ curso[a] \in Pedido
         /\ curso[a].de \in Usuarios
         /\ curso[a].quando \in 0..MaxTrocas
         /\ curso[a].banco # Nada => curso[a].banco \in Bancos
         /\ curso[a].op = "salvar" /\ curso[a].id # Nada => ComLinha(curso[a].de)
BY DEF TypeOKConexao, PedidosInv, Ocupado, Pedido, ComLinha

\* A form with a row has all its fields.
LEMMA FormularioComLinha ==
  ASSUME TypeOKConexao, NEW u \in Usuarios, ComLinha(u)
  PROVE  /\ form[u] \in [banco : Bancos, id : Ids, linha : Origens, quando : 0..MaxTrocas]
         /\ form[u].banco \in Bancos /\ form[u].id \in Ids /\ form[u].linha \in Origens
         /\ form[u].quando \in 0..MaxTrocas
BY DEF TypeOKConexao, ComLinha, Formulario

\* A row that is added hides no other.
LEMMA LinhasCrescem ==
  ASSUME TypeOKConexao, NEW b \in Bancos, NEW n,
         linhas' = Inserida(b, n)
  PROVE  /\ linhas'[b] = Append(linhas[b], n)
         /\ \A c \in Bancos : c # b => linhas'[c] = linhas[c]
         /\ \A c \in Bancos : \A i \in 1..Len(linhas[c]) :
              i \in 1..Len(linhas'[c]) /\ linhas'[c][i] = linhas[c][i]
         /\ n \in Visiveis(b)'
         /\ \A c \in Bancos : Visiveis(c) \subseteq Visiveis(c)'
<1>1. /\ linhas'[b] = Append(linhas[b], n)
      /\ \A c \in Bancos : c # b => linhas'[c] = linhas[c]
  BY DEF TypeOKConexao, Inserida
<1>2. \A c \in Bancos : linhas[c] \in Seq(Origens)
  BY DEF TypeOKConexao
<1>3. /\ Len(linhas'[b]) = Len(linhas[b]) + 1
      /\ linhas'[b][Len(linhas[b]) + 1] = n
      /\ \A i \in 1..Len(linhas[b]) : linhas'[b][i] = linhas[b][i]
      /\ Len(linhas[b]) \in Nat
  BY <1>1, <1>2
<1>4. \A c \in Bancos : \A i \in 1..Len(linhas[c]) :
        i \in 1..Len(linhas'[c]) /\ linhas'[c][i] = linhas[c][i]
  BY <1>1, <1>3
<1>5. n \in Visiveis(b)'
  BY <1>3 DEF Visiveis
<1>6. \A c \in Bancos : Visiveis(c) \subseteq Visiveis(c)'
  BY <1>4 DEF Visiveis
<1>7. QED BY <1>1, <1>4, <1>5, <1>6

\* The database of a time stays what it was.
LEMMA BancoEmFixo ==
  ASSUME TypeOKConexao, PassoConexao
  PROVE  \A q \in 0..MaxTrocas : BancoEm(q)' = BancoEm(q)
<1>1. trocas \in Nat /\ mysql \in BOOLEAN
  BY DEF TypeOKConexao
<1>2. CASE UNCHANGED <<mysql, trocas>>
  BY <1>2 DEF BancoEm
<1>3. CASE trocas' = trocas + 1 /\ mysql' = ~mysql
  <2>1. \A q \in Nat : (q % 2 = (trocas + 1) % 2) <=> ~(q % 2 = trocas % 2)
    BY <1>1
  <2>2. \A q \in 0..MaxTrocas : (q % 2 = trocas' % 2) <=> ~(q % 2 = trocas % 2)
    BY <1>3, <2>1, ConexaoConstantes
  <2>3. mysql' <=> ~mysql
    BY <1>3
  <2>4. \A q \in 0..MaxTrocas :
          ((q % 2 = trocas' % 2) <=> mysql') <=> ((q % 2 = trocas % 2) <=> mysql)
    BY <2>2, <2>3, Zenon
  <2>5. QED BY <2>4, Zenon DEF BancoEm
<1>4. QED
  BY <1>2, <1>3
  DEF PassoConexao, Atender, Interromper, Pedir, PedirLista, PedirLinha, PedirNova,
      PedirGravacao, Receber, Conectar, Listar, Carregar, Editar, Inserir, Falhar, Trocar,
      varsConexao

\* The saves in course are finitely many.
LEMMA GravandoFinito ==
  ASSUME TypeOKConexao
  PROVE  IsFiniteSet(Gravando) /\ Cardinality(Gravando) \in Nat
<1>1. Gravando \subseteq Servidores
  BY DEF Gravando
<1>2. QED BY <1>1, ConexaoConstantes, FS_Subset, FS_CardinalityType

\* A request that is over leaves the others, which are of other users.
LEMMA TerminarCurso ==
  ASSUME TypeOKConexao, PedidosInv, NEW a \in Servidores, Terminar(a)
  PROVE  /\ curso' \in [Servidores -> Pedido \cup {Nada}]
         /\ \A b \in Servidores : Ocupado(b)' =>
              /\ b # a /\ Ocupado(b) /\ curso'[b] = curso[b]
              /\ Ocupado(a) => curso[b].de # curso[a].de
         /\ Cardinality(Gravando)' \in Nat
         /\ Cardinality(Gravando)' <= Cardinality(Gravando)
         /\ a \in Gravando => Cardinality(Gravando)' + 1 = Cardinality(Gravando)
<1>1. /\ curso'[a] = Nada
      /\ \A b \in Servidores : b # a => curso'[b] = curso[b]
  BY DEF Terminar, TypeOKConexao
<1>2. curso' \in [Servidores -> Pedido \cup {Nada}]
  BY DEF Terminar, TypeOKConexao
<1>3. \A b \in Servidores : Ocupado(b)' =>
        /\ b # a /\ Ocupado(b) /\ curso'[b] = curso[b]
        /\ Ocupado(a) => curso[b].de # curso[a].de
  BY <1>1 DEF Ocupado, PedidosInv
<1>4. Gravando' = Gravando \ {a}
  BY <1>1 DEF Gravando
<1>5. IsFiniteSet(Gravando) /\ Cardinality(Gravando) \in Nat
  BY GravandoFinito
<1>6. /\ Cardinality(Gravando \ {a}) \in Nat
      /\ Cardinality(Gravando \ {a}) <= Cardinality(Gravando)
      /\ a \in Gravando => Cardinality(Gravando \ {a}) + 1 = Cardinality(Gravando)
  <2>1. Cardinality(Gravando \ {a}) =
          IF a \in Gravando THEN Cardinality(Gravando) - 1 ELSE Cardinality(Gravando)
    BY <1>5, FS_RemoveElement
  <2>2. Cardinality(Gravando \ {a}) \in Nat
    BY <1>5, FS_RemoveElement, FS_CardinalityType
  <2>3. QED BY <1>5, <2>1, <2>2
<1>7. QED BY <1>2, <1>3, <1>4, <1>6

-----------------------------------------------------------------------------
(* What the steps keep *)

\* Every user's request, form and list are as before.
LEMMA PassoMudo ==
  ASSUME ConexaoInv, UNCHANGED varsConexao
  PROVE  ConexaoInv'
BY DEF varsConexao, ConexaoInv, TypeOKConexao, PedidosInv, ContagemInv, FormulariosInv,
       MarcasInv, AlvoInv, VistaInv, Ocupado, ComLinha, Gravando, BancoEm, Visiveis,
       FormMarcado, ListaMarcada, SalvoMarcado, PedidoMarcado

\* MySQL came or went.
LEMMA PassoTrocar ==
  ASSUME ConexaoInv, Trocar
  PROVE  ConexaoInv'
<1>1. \A q \in 0..MaxTrocas : BancoEm(q)' = BancoEm(q)
  BY BancoEmFixo DEF ConexaoInv, PassoConexao
<1>2. TypeOKConexao'
  <2>1. trocas' \in 0..MaxTrocas
    BY ConexaoConstantes DEF ConexaoInv, TypeOKConexao, Trocar
  <2>2. mysql' \in BOOLEAN
    <3>1. mysql' = ~mysql
      BY DEF Trocar
    <3>2. QED BY <3>1, Zenon
  <2>3. QED BY <2>1, <2>2 DEF ConexaoInv, TypeOKConexao, Trocar
<1>3. /\ UNCHANGED <<linhas, salvos, form, pagina, ultimo, curso>>
  BY DEF Trocar
<1>4. PedidosInv' /\ ContagemInv' /\ FormulariosInv' /\ AlvoInv' /\ VistaInv'
  BY <1>3 DEF ConexaoInv, PedidosInv, ContagemInv, FormulariosInv, AlvoInv, VistaInv,
              Ocupado, ComLinha, Gravando, Visiveis
<1>5. MarcasInv'
  <2>1. \A u \in Usuarios : ComLinha(u) => form[u].quando \in 0..MaxTrocas
    BY FormularioComLinha DEF ConexaoInv
  <2>2. \A a \in Servidores : Ocupado(a) => curso[a].quando \in 0..MaxTrocas
    BY CursoBemFormado DEF ConexaoInv
  <2>3. \A u \in Usuarios : pagina[u] # Nada => pagina[u].quando \in 0..MaxTrocas
    BY DEF ConexaoInv, TypeOKConexao
  <2>4. \A u \in Usuarios : ultimo[u] # Nada =>
          ultimo[u].quando \in 0..MaxTrocas /\ ultimo[u].desde \in 0..MaxTrocas
    BY DEF ConexaoInv, TypeOKConexao, Salvo
  <2>5. QED
    BY <1>1, <1>3, <2>1, <2>2, <2>3, <2>4
    DEF ConexaoInv, MarcasInv, FormMarcado, ListaMarcada, SalvoMarcado, PedidoMarcado,
        Ocupado, ComLinha
<1>6. QED BY <1>2, <1>4, <1>5 DEF ConexaoInv

\* A request is over without having shown or stored anything.
LEMMA PassoInterromper ==
  ASSUME ConexaoInv, NEW a \in Servidores, Interromper(a)
  PROVE  ConexaoInv'
<1>1. UNCHANGED <<mysql, trocas, linhas, salvos, form, pagina, ultimo>> /\ Terminar(a)
  BY DEF Interromper
<1>2. /\ curso' \in [Servidores -> Pedido \cup {Nada}]
      /\ \A b \in Servidores : Ocupado(b)' => Ocupado(b) /\ curso'[b] = curso[b]
      /\ Cardinality(Gravando)' \in Nat
      /\ Cardinality(Gravando)' <= Cardinality(Gravando)
  BY <1>1, TerminarCurso DEF ConexaoInv
<1>3. TypeOKConexao'
  BY <1>1, <1>2 DEF ConexaoInv, TypeOKConexao
<1>4. PedidosInv'
  BY <1>1, <1>2 DEF ConexaoInv, PedidosInv, Ocupado
<1>5. ContagemInv'
  BY <1>1, <1>2, GravandoFinito, ConexaoConstantes DEF ConexaoInv, ContagemInv, TypeOKConexao
<1>6. FormulariosInv' /\ AlvoInv' /\ VistaInv'
  BY <1>1 DEF ConexaoInv, FormulariosInv, AlvoInv, VistaInv, ComLinha, Visiveis
<1>7. MarcasInv'
  BY <1>1, <1>2
  DEF ConexaoInv, MarcasInv, FormMarcado, ListaMarcada, SalvoMarcado, PedidoMarcado,
      ComLinha, BancoEm
<1>8. QED BY <1>3, <1>4, <1>5, <1>6, <1>7 DEF ConexaoInv

\* A click: the worker a takes a request of u, who has no other.
LEMMA PassoReceber ==
  ASSUME ConexaoInv, NEW a \in Servidores, NEW u \in Usuarios,
         NEW op \in {"listar", "carregar", "salvar"}, NEW id \in Ids \cup {Nada},
         Receber(a, u, op, id),
         op = "carregar" => id \in Ids,
         op = "salvar" => /\ form[u] # Nada /\ form[u].id = id
                          /\ salvos + Cardinality(Gravando) < MaxSalvos
  PROVE  ConexaoInv'
<1> DEFINE p == [de |-> u, op |-> op, id |-> id, banco |-> Nada, quando |-> 0]
<1>1. /\ curso[a] = Nada /\ ~EmCurso(u)
      /\ curso' = [curso EXCEPT ![a] = p]
      /\ UNCHANGED <<mysql, trocas, linhas, salvos, form, pagina, ultimo>>
  BY DEF Receber
<1>2. p \in Pedido
  BY ConexaoConstantes DEF Pedido
<1>3. /\ curso'[a] = p
      /\ \A b \in Servidores : b # a => curso'[b] = curso[b]
  BY <1>1 DEF ConexaoInv, TypeOKConexao
<1>4. p.de = u /\ p.op = op /\ p.id = id /\ p.banco = Nada
  OBVIOUS
<1> HIDE DEF p
<1>5. TypeOKConexao'
  BY <1>1, <1>2 DEF ConexaoInv, TypeOKConexao
<1>6. PedidosInv'
  <2>1. ASSUME NEW b \in Servidores, NEW c \in Servidores, Ocupado(b)', Ocupado(c)',
               curso'[b].de = curso'[c].de
        PROVE  b = c
    BY <1>1, <1>3, <1>4, <2>1 DEF ConexaoInv, PedidosInv, Ocupado, EmCurso
  <2>2. \A b \in Servidores : Ocupado(b)' /\ curso'[b].op = "carregar" =>
          curso'[b].id \in Ids
    BY <1>3, <1>4 DEF ConexaoInv, PedidosInv, Ocupado
  <2>3. \A b \in Servidores : Ocupado(b)' /\ curso'[b].op = "salvar" =>
          form[curso'[b].de] # Nada /\ form[curso'[b].de].id = curso'[b].id
    BY <1>3, <1>4 DEF ConexaoInv, PedidosInv, Ocupado
  <2>4. QED BY <1>1, <2>1, <2>2, <2>3 DEF PedidosInv
<1>7. ContagemInv'
  <2>1. IsFiniteSet(Gravando) /\ Cardinality(Gravando) \in Nat /\ salvos \in Nat
    BY GravandoFinito DEF ConexaoInv, TypeOKConexao
  <2>2. CASE op = "salvar"
    <3>1. Gravando' \subseteq Gravando \cup {a}
      BY <1>3 DEF Gravando
    <3>2. a \notin Gravando
      BY <1>1 DEF Gravando
    <3>3. /\ IsFiniteSet(Gravando \cup {a})
          /\ Cardinality(Gravando \cup {a}) = Cardinality(Gravando) + 1
      BY <2>1, <3>2, FS_AddElement
    <3>4. /\ Cardinality(Gravando') \in Nat
          /\ Cardinality(Gravando') <= Cardinality(Gravando) + 1
      BY <3>1, <3>3, FS_Subset, FS_CardinalityType
    <3>5. salvos + Cardinality(Gravando') <= MaxSalvos
      BY <2>1, <2>2, <3>4, ConexaoConstantes
    <3>6. QED BY <1>1, <3>5 DEF ConexaoInv, ContagemInv
  <2>3. CASE op # "salvar"
    <3>1. Gravando' = Gravando
      BY <1>1, <1>3, <1>4, <2>3 DEF Gravando
    <3>2. QED BY <1>1, <3>1 DEF ConexaoInv, ContagemInv
  <2>4. QED BY <2>2, <2>3
<1>8. FormulariosInv' /\ AlvoInv' /\ VistaInv'
  BY <1>1 DEF ConexaoInv, FormulariosInv, AlvoInv, VistaInv, ComLinha, Visiveis
<1>9. MarcasInv'
  <2>1. \A b \in Servidores : Ocupado(b)' /\ curso'[b].banco # Nada =>
          Ocupado(b) /\ curso'[b] = curso[b]
    BY <1>3, <1>4 DEF Ocupado
  <2>2. QED
    BY <1>1, <2>1
    DEF ConexaoInv, MarcasInv, FormMarcado, ListaMarcada, SalvoMarcado, PedidoMarcado,
        ComLinha, BancoEm, Ocupado
<1>10. QED BY <1>5, <1>6, <1>7, <1>8, <1>9 DEF ConexaoInv

\* The clicks: list, edit a row of the list, take the empty form, save.
LEMMA PassoPedir ==
  ASSUME ConexaoInv, NEW a \in Servidores, NEW u \in Usuarios, Pedir(a, u)
  PROVE  ConexaoInv'
<1>1. CASE PedirLista(a, u)
  BY <1>1, PassoReceber DEF PedirLista
<1>2. CASE PedirLinha(a, u)
  BY <1>2, PassoReceber DEF PedirLinha
<1>3. CASE PedirNova(u)
  <2>1. /\ ~EmCurso(u)
        /\ form' = [form EXCEPT ![u] = [id |-> Nada]]
        /\ UNCHANGED <<mysql, trocas, linhas, salvos, pagina, ultimo, curso>>
    BY <1>3 DEF PedirNova
  <2>2. /\ ~ComLinha(u)'
        /\ \A v \in Usuarios : v # u => form'[v] = form[v]
        /\ form' \in [Usuarios -> Formulario \cup {Nada}]
    BY <2>1 DEF ConexaoInv, TypeOKConexao, ComLinha, Formulario
  <2>3. \A v \in Usuarios : ComLinha(v)' => ComLinha(v) /\ form'[v] = form[v]
    BY <2>2 DEF ComLinha
  <2>4. TypeOKConexao'
    BY <2>1, <2>2 DEF ConexaoInv, TypeOKConexao
  <2>5. PedidosInv'
    <3>1. \A b \in Servidores : Ocupado(b) =>
            curso[b].de # u /\ form'[curso[b].de] = form[curso[b].de]
      BY <2>1, <2>2, CursoBemFormado DEF ConexaoInv, EmCurso, Ocupado
    <3>2. QED BY <2>1, <3>1 DEF ConexaoInv, PedidosInv, Ocupado
  <2>6. ContagemInv' /\ AlvoInv' /\ VistaInv'
    BY <2>1 DEF ConexaoInv, ContagemInv, AlvoInv, VistaInv, Gravando, Visiveis
  <2>7. FormulariosInv' /\ MarcasInv'
    BY <2>1, <2>3
    DEF ConexaoInv, FormulariosInv, MarcasInv, FormMarcado, ListaMarcada, SalvoMarcado,
        PedidoMarcado, Ocupado, BancoEm
  <2>8. QED BY <2>4, <2>5, <2>6, <2>7 DEF ConexaoInv
<1>4. CASE PedirGravacao(a, u)
  <2>1. form[u].id \in Ids \cup {Nada}
    BY <1>4 DEF PedirGravacao, ConexaoInv, TypeOKConexao, Formulario
  <2>2. QED BY <1>4, <2>1, PassoReceber DEF PedirGravacao
<1>5. QED BY <1>1, <1>2, <1>3, <1>4 DEF Pedir

\* db_connect.
LEMMA PassoConectar ==
  ASSUME ConexaoInv, NEW a \in Servidores, Conectar(a)
  PROVE  ConexaoInv'
<1> DEFINE p == [curso[a] EXCEPT !.banco = Escolha(curso[a].op), !.quando = trocas]
<1>1. /\ Ocupado(a)
      /\ curso' = [curso EXCEPT ![a] = p]
      /\ UNCHANGED <<mysql, trocas, linhas, salvos, form, pagina, ultimo>>
  BY DEF Conectar, Ocupado
<1>2. curso[a] \in Pedido /\ trocas \in 0..MaxTrocas
  BY <1>1, CursoBemFormado DEF ConexaoInv, TypeOKConexao
<1>3. Escolha(curso[a].op) \in Bancos /\ Escolha(curso[a].op) = BancoEm(trocas)
  BY DEF Escolha, Bancos, BancoEm
<1>4. /\ p \in Pedido
      /\ p.de = curso[a].de /\ p.op = curso[a].op /\ p.id = curso[a].id
      /\ p.banco = BancoEm(trocas) /\ p.quando = trocas
  BY <1>2, <1>3 DEF Pedido
<1>5. /\ curso'[a] = p
      /\ \A b \in Servidores : b # a => curso'[b] = curso[b]
  BY <1>1 DEF ConexaoInv, TypeOKConexao
<1> HIDE DEF p
<1>6. TypeOKConexao'
  BY <1>1, <1>4 DEF ConexaoInv, TypeOKConexao
<1>7. \A b \in Servidores : Ocupado(b)' =>
        /\ Ocupado(b) /\ curso'[b].de = curso[b].de
        /\ curso'[b].op = curso[b].op /\ curso'[b].id = curso[b].id
  BY <1>1, <1>4, <1>5 DEF Ocupado
<1>8. PedidosInv'
  BY <1>1, <1>7 DEF ConexaoInv, PedidosInv
<1>9. ContagemInv'
  <2>1. Gravando' \subseteq Gravando
    BY <1>7 DEF Gravando, Ocupado
  <2>2. Cardinality(Gravando') \in Nat /\ Cardinality(Gravando') <= Cardinality(Gravando)
    BY <2>1, GravandoFinito, FS_Subset, FS_CardinalityType DEF ConexaoInv
  <2>3. QED
    BY <1>1, <2>2, GravandoFinito, ConexaoConstantes DEF ConexaoInv, ContagemInv, TypeOKConexao
<1>10. FormulariosInv' /\ AlvoInv' /\ VistaInv'
  BY <1>1 DEF ConexaoInv, FormulariosInv, AlvoInv, VistaInv, ComLinha, Visiveis
<1>11. MarcasInv'
  <2>1. \A b \in Servidores : PedidoMarcado(b)'
    BY <1>1, <1>4, <1>5 DEF ConexaoInv, MarcasInv, PedidoMarcado, Ocupado, BancoEm
  <2>2. QED
    BY <1>1, <2>1
    DEF ConexaoInv, MarcasInv, FormMarcado, ListaMarcada, SalvoMarcado, ComLinha, BancoEm
<1>12. QED BY <1>6, <1>8, <1>9, <1>10, <1>11 DEF ConexaoInv

\* The end of a request that shows its user the form f, rows having been added at most.
LEMMA PassoResponder ==
  ASSUME ConexaoInv, NEW a \in Servidores, Ocupado(a), Terminar(a),
         UNCHANGED <<mysql, trocas>>,
         NEW f \in Formulario \cup {Nada}, form' = [form EXCEPT ![curso[a].de] = f],
         \A c \in Bancos : \A i \in 1..Len(linhas[c]) :
           i \in 1..Len(linhas'[c]) /\ linhas'[c][i] = linhas[c][i],
         f # Nada /\ f.id # Nada =>
           /\ f.id \in 1..Len(linhas'[f.banco])
           /\ linhas'[f.banco][f.id] = f.linha
           /\ f.banco = BancoEm(f.quando)
  PROVE  /\ form' \in [Usuarios -> Formulario \cup {Nada}]
         /\ curso' \in [Servidores -> Pedido \cup {Nada}]
         /\ PedidosInv'
         /\ FormulariosInv'
         /\ \A v \in Usuarios : FormMarcado(v)'
         /\ \A b \in Servidores : PedidoMarcado(b)'
<1> DEFINE u == curso[a].de
<1>1. u \in Usuarios
  BY CursoBemFormado DEF ConexaoInv
<1>2. /\ form' \in [Usuarios -> Formulario \cup {Nada}]
      /\ form'[u] = f
      /\ \A v \in Usuarios : v # u => form'[v] = form[v]
  BY <1>1 DEF ConexaoInv, TypeOKConexao
<1>3. /\ curso' \in [Servidores -> Pedido \cup {Nada}]
      /\ \A b \in Servidores : Ocupado(b)' =>
           /\ b # a /\ Ocupado(b) /\ curso'[b] = curso[b]
           /\ curso[b].de # u /\ curso[b].de \in Usuarios
  BY TerminarCurso, CursoBemFormado DEF ConexaoInv
<1>4. mysql' = mysql /\ trocas' = trocas
  OBVIOUS
<1> HIDE DEF u
<1>5. PedidosInv'
  BY <1>2, <1>3 DEF ConexaoInv, PedidosInv
<1>6. FormulariosInv'
  <2>1. ASSUME NEW v \in Usuarios, ComLinha(v)'
        PROVE  /\ form'[v].id \in 1..Len(linhas'[form'[v].banco])
               /\ linhas'[form'[v].banco][form'[v].id] = form'[v].linha
    <3>1. CASE v = u
      BY <1>2, <2>1, <3>1 DEF ComLinha
    <3>2. CASE v # u
      <4>1. ComLinha(v) /\ form'[v] = form[v]
        BY <1>2, <2>1, <3>2 DEF ComLinha
      <4>2. form[v].banco \in Bancos
        BY <4>1, FormularioComLinha DEF ConexaoInv
      <4>3. QED BY <4>1, <4>2 DEF ConexaoInv, FormulariosInv
    <3>3. QED BY <3>1, <3>2
  <2>2. QED BY <2>1 DEF FormulariosInv
<1>7. \A v \in Usuarios : FormMarcado(v)'
  BY <1>2, <1>4 DEF ConexaoInv, MarcasInv, FormMarcado, ComLinha, BancoEm
<1>8. \A b \in Servidores : PedidoMarcado(b)'
  BY <1>3, <1>4 DEF ConexaoInv, MarcasInv, PedidoMarcado, BancoEm
<1>9. QED BY <1>2, <1>3, <1>5, <1>6, <1>7, <1>8

\* The list, with the form of a row or the empty one beside it.
LEMMA PassoMostrar ==
  ASSUME ConexaoInv, NEW a \in Servidores, Listar(a) \/ Carregar(a)
  PROVE  ConexaoInv'
<1> DEFINE c == curso[a]
<1> DEFINE lista == [banco |-> c.banco, quando |-> c.quando, linhas |-> Visiveis(c.banco)]
<1> DEFINE cheio == [banco |-> c.banco, id |-> c.id, linha |-> linhas[c.banco][c.id],
                     quando |-> c.quando]
<1> DEFINE vazio == [id |-> Nada]
<1>1. /\ Ocupado(a) /\ Terminar(a) /\ c.banco # Nada
      /\ UNCHANGED <<mysql, trocas, linhas, salvos, ultimo>>
      /\ pagina' = [pagina EXCEPT ![c.de] = lista]
  BY DEF Listar, Carregar, Conectado, Ocupado
<1>2. /\ c.de \in Usuarios /\ c.banco \in Bancos /\ c.quando \in 0..MaxTrocas
      /\ c.banco = BancoEm(c.quando)
  BY <1>1, CursoBemFormado DEF ConexaoInv, MarcasInv, PedidoMarcado
<1>3. /\ linhas[c.banco] \in Seq(Origens) /\ Len(linhas[c.banco]) \in Nat
      /\ Visiveis(c.banco) \subseteq Origens
  BY <1>2 DEF ConexaoInv, TypeOKConexao, Visiveis
<1>4. PICK f \in Formulario \cup {Nada} :
        /\ form' = [form EXCEPT ![c.de] = f]
        /\ f # Nada /\ f.id # Nada =>
             /\ f.id \in 1..Len(linhas[f.banco])
             /\ linhas[f.banco][f.id] = f.linha
             /\ f.banco = BancoEm(f.quando)
  <2>1. CASE Listar(a)
    BY <2>1 DEF Listar
  <2>2. CASE Carregar(a)
    <3>1. c.id \in Ids
      BY <1>1, <2>2 DEF Carregar, Conectado, ConexaoInv, PedidosInv
    <3>2. CASE c.id <= Len(linhas[c.banco])
      <4>1. c.id \in 1..Len(linhas[c.banco])
        BY <1>3, <3>1, <3>2, ConexaoConstantes DEF Ids
      <4>2. linhas[c.banco][c.id] \in Origens
        BY <1>3, <4>1
      <4>3. cheio \in Formulario
        BY <1>2, <3>1, <4>2 DEF Formulario
      <4>4. form' = [form EXCEPT ![c.de] = cheio]
        BY <2>2, <3>2 DEF Carregar
      <4>5. /\ cheio.id = c.id /\ cheio.banco = c.banco /\ cheio.quando = c.quando
            /\ cheio.linha = linhas[c.banco][c.id]
        OBVIOUS
      <4> HIDE DEF cheio
      <4>6. QED BY <1>2, <4>1, <4>3, <4>4, <4>5
    <3>3. CASE ~(c.id <= Len(linhas[c.banco]))
      <4>1. vazio \in Formulario /\ vazio.id = Nada
        BY DEF Formulario
      <4>2. form' = [form EXCEPT ![c.de] = vazio]
        BY <2>2, <3>3 DEF Carregar
      <4>3. QED BY <4>1, <4>2
    <3>4. QED BY <3>2, <3>3
  <2>3. QED BY <2>1, <2>2
<1>5. /\ form' \in [Usuarios -> Formulario \cup {Nada}]
      /\ curso' \in [Servidores -> Pedido \cup {Nada}]
      /\ PedidosInv' /\ FormulariosInv'
      /\ \A u \in Usuarios : FormMarcado(u)'
      /\ \A b \in Servidores : PedidoMarcado(b)'
  BY <1>1, <1>4, PassoResponder
<1>6. /\ pagina'[c.de] = lista
      /\ \A u \in Usuarios : u # c.de => pagina'[u] = pagina[u]
      /\ lista.banco = c.banco /\ lista.quando = c.quando
      /\ lista.linhas = Visiveis(c.banco)
  BY <1>1, <1>2 DEF ConexaoInv, TypeOKConexao
<1>7. TypeOKConexao'
  <2>1. lista \in [banco : Bancos, quando : 0..MaxTrocas, linhas : SUBSET Origens]
    BY <1>2, <1>3
  <2>2. QED BY <1>1, <1>5, <2>1 DEF ConexaoInv, TypeOKConexao
<1> HIDE DEF lista, c
<1>8. ContagemInv'
  <2>1. Cardinality(Gravando)' \in Nat /\ Cardinality(Gravando)' <= Cardinality(Gravando)
    BY <1>1, TerminarCurso DEF ConexaoInv
  <2>2. QED
    BY <1>1, <2>1, GravandoFinito, ConexaoConstantes DEF ConexaoInv, ContagemInv, TypeOKConexao
<1>9. MarcasInv'
  <2>1. mysql' = mysql /\ trocas' = trocas
    BY <1>1
  <2>2. \A u \in Usuarios : ListaMarcada(u)'
    BY <1>2, <1>6, <2>1 DEF ConexaoInv, MarcasInv, ListaMarcada, BancoEm
  <2>3. \A u \in Usuarios : SalvoMarcado(u)'
    BY <1>1, <2>1 DEF ConexaoInv, MarcasInv, SalvoMarcado, BancoEm
  <2>4. QED BY <1>5, <2>2, <2>3 DEF MarcasInv
<1>10. AlvoInv'
  BY <1>1 DEF ConexaoInv, AlvoInv
<1>11. VistaInv'
  BY <1>1, <1>6 DEF ConexaoInv, VistaInv, Visiveis
<1>12. QED BY <1>5, <1>7, <1>8, <1>9, <1>10, <1>11 DEF ConexaoInv

\* A save that is done leaves room for those in course, in the tables too.
LEMMA LinhasContadas ==
  ASSUME ConexaoInv, NEW a \in Servidores, a \in Gravando, Terminar(a), salvos' = salvos + 1,
         linhas' \in [Bancos -> Seq(Origens)],
         \A c \in Bancos : Len(linhas'[c]) <= Len(linhas[c]) + 1,
         \A c \in Bancos : \A i \in 1..Len(linhas[c]) :
           i \in 1..Len(linhas'[c]) /\ linhas'[c][i] = linhas[c][i]
  PROVE  ContagemInv' /\ salvos' \in 0..MaxSalvos /\ \A c \in Bancos : Len(linhas'[c]) \in Ids
<1>1. ContagemInv'
  <2>1. /\ Cardinality(Gravando)' \in Nat
        /\ Cardinality(Gravando)' + 1 = Cardinality(Gravando)
    BY TerminarCurso DEF ConexaoInv
  <2>2. \A c \in Bancos : Len(linhas'[c]) \in Nat /\ Len(linhas[c]) \in Nat
    BY DEF ConexaoInv, TypeOKConexao
  <2>3. QED
    BY <2>1, <2>2, GravandoFinito, ConexaoConstantes DEF ConexaoInv, ContagemInv, TypeOKConexao
<1>2. salvos' \in 0..MaxSalvos
  BY <1>1, TerminarCurso, ConexaoConstantes DEF ConexaoInv, ContagemInv, TypeOKConexao
<1>3. \A c \in Bancos : Len(linhas'[c]) \in Ids
  <2>1. ASSUME NEW c \in Bancos PROVE Len(linhas'[c]) \in Ids
    <3>1. Len(linhas'[c]) \in Nat /\ Len(linhas'[c]) >= Len(linhas[c])
      <4>1. linhas[c] \in Seq(Origens) /\ linhas'[c] \in Seq(Origens)
        BY DEF ConexaoInv, TypeOKConexao
      <4>2. Len(linhas[c]) \in Nat /\ Len(linhas'[c]) \in Nat
        BY <4>1
      <4>3. Len(linhas[c]) >= 1
        BY DEF ConexaoInv, TypeOKConexao, Ids
      <4>4. \A i \in 1..Len(linhas[c]) : i \in 1..Len(linhas'[c])
        OBVIOUS
      <4>5. Len(linhas[c]) \in 1..Len(linhas[c])
        BY <4>2, <4>3
      <4>6. QED BY <4>2, <4>4, <4>5
    <3>2. Len(linhas[c]) \in 1..MaxSalvos + 1
      BY DEF ConexaoInv, TypeOKConexao, Ids
    <3>3. Len(linhas'[c]) <= salvos' + 1
      BY <1>1 DEF ContagemInv
    <3>4. QED BY <1>2, <3>1, <3>2, <3>3, ConexaoConstantes DEF Ids
  <2>2. QED BY <2>1
<1>4. QED BY <1>1, <1>2, <1>3

\* A save is done: the row it wrote is told to its user, whose form and list are gone.
LEMMA PassoSalvar ==
  ASSUME ConexaoInv, NEW a \in Servidores, Conectado(a, "salvar"), Terminar(a),
         UNCHANGED <<mysql, trocas>>, salvos' = salvos + 1,
         form' = [form EXCEPT ![curso[a].de] = Nada],
         pagina' = [pagina EXCEPT ![curso[a].de] = Nada],
         NEW s \in Salvo, ultimo' = [ultimo EXCEPT ![curso[a].de] = s],
         linhas' \in [Bancos -> Seq(Origens)],
         \A c \in Bancos : Len(linhas'[c]) <= Len(linhas[c]) + 1,
         \A c \in Bancos : \A i \in 1..Len(linhas[c]) :
           i \in 1..Len(linhas'[c]) /\ linhas'[c][i] = linhas[c][i],
         \A c \in Bancos : Visiveis(c) \subseteq Visiveis(c)',
         s.atingida \in Visiveis(s.banco)' \cup {Nada},
         s.atingida # s.pretendida => s.banco # s.origem,
         s.banco = BancoEm(s.quando), s.origem = BancoEm(s.desde)
  PROVE  ConexaoInv'
<1> DEFINE u == curso[a].de
<1>1. Ocupado(a) /\ u \in Usuarios /\ a \in Gravando
  BY CursoBemFormado DEF ConexaoInv, Conectado, Ocupado, Gravando
<1>2. /\ form' \in [Usuarios -> Formulario \cup {Nada}]
      /\ curso' \in [Servidores -> Pedido \cup {Nada}]
      /\ PedidosInv' /\ FormulariosInv'
      /\ \A v \in Usuarios : FormMarcado(v)'
      /\ \A b \in Servidores : PedidoMarcado(b)'
  BY <1>1, PassoResponder
<1>3. /\ pagina'[u] = Nada /\ ultimo'[u] = s
      /\ \A v \in Usuarios : v # u => pagina'[v] = pagina[v] /\ ultimo'[v] = ultimo[v]
  BY <1>1 DEF ConexaoInv, TypeOKConexao
<1>4. ContagemInv' /\ salvos' \in 0..MaxSalvos /\ \A c \in Bancos : Len(linhas'[c]) \in Ids
  BY <1>1, LinhasContadas
<1>5. TypeOKConexao'
  BY <1>2, <1>3, <1>4 DEF ConexaoInv, TypeOKConexao
<1> HIDE DEF u
<1>6. MarcasInv'
  <2>1. \A v \in Usuarios : ListaMarcada(v)'
    BY <1>3 DEF ConexaoInv, MarcasInv, ListaMarcada, BancoEm
  <2>2. \A v \in Usuarios : SalvoMarcado(v)'
    <3>1. \A v \in Usuarios : v # u => SalvoMarcado(v)'
      BY <1>3 DEF ConexaoInv, MarcasInv, SalvoMarcado, BancoEm
    <3>2. \A v \in Usuarios : v = u => SalvoMarcado(v)'
      BY <1>3 DEF SalvoMarcado, BancoEm
    <3>3. QED BY <3>1, <3>2
  <2>3. QED BY <1>2, <2>1, <2>2 DEF MarcasInv
<1>7. AlvoInv'
  BY <1>3 DEF ConexaoInv, AlvoInv
<1>8. VistaInv'
  <2>1. \A v \in Usuarios : ultimo[v] # Nada => ultimo[v].banco \in Bancos
    BY DEF ConexaoInv, TypeOKConexao, Salvo
  <2>2. ASSUME NEW v \in Usuarios, ultimo'[v] # Nada
        PROVE  /\ ultimo'[v].atingida \in Visiveis(ultimo[v].banco)' \cup {Nada}
               /\ pagina'[v] # Nada /\ pagina'[v].banco = ultimo'[v].banco =>
                    ultimo'[v].atingida \in pagina'[v].linhas \cup {Nada}
    <3>1. CASE v = u
      <4>1. Visiveis(ultimo[v].banco)' = Visiveis(s.banco)'
        BY <1>3, <3>1 DEF Visiveis
      <4>2. QED BY <1>3, <3>1, <4>1
    <3>2. CASE v # u
      <4>1. ultimo'[v] = ultimo[v] /\ pagina'[v] = pagina[v] /\ ultimo[v].banco \in Bancos
        BY <1>3, <2>1, <2>2, <3>2
      <4>2. Visiveis(ultimo[v].banco)' = {linhas'[ultimo[v].banco][i] :
                                            i \in 1..Len(linhas'[ultimo[v].banco])}
        BY <4>1 DEF Visiveis
      <4>3. Visiveis(ultimo[v].banco) \subseteq Visiveis(ultimo[v].banco)'
        BY <4>1, <4>2 DEF Visiveis
      <4>4. QED BY <2>2, <4>1, <4>3 DEF ConexaoInv, VistaInv
    <3>3. QED BY <3>1, <3>2
  <2>3. QED BY <2>2 DEF VistaInv
<1>9. QED BY <1>2, <1>4, <1>5, <1>6, <1>7, <1>8 DEF ConexaoInv

\* UPDATE ... WHERE id, in the database that was opened.
LEMMA PassoEditar ==
  ASSUME ConexaoInv, NEW a \in Servidores, Editar(a)
  PROVE  ConexaoInv'
<1> DEFINE c == curso[a]
<1> DEFINE f == form[c.de]
<1> DEFINE s == [banco |-> c.banco, quando |-> c.quando, editado |-> TRUE,
                 pretendida |-> f.linha, atingida |-> Atingida(c.banco, c.id),
                 origem |-> f.banco, desde |-> f.quando]
<1>1. /\ Conectado(a, "salvar") /\ Terminar(a) /\ c.id # Nada /\ c.banco # Nada
      /\ Ocupado(a) /\ c.op = "salvar"
      /\ UNCHANGED <<mysql, trocas, linhas>> /\ salvos' = salvos + 1
      /\ form' = [form EXCEPT ![curso[a].de] = Nada]
      /\ pagina' = [pagina EXCEPT ![curso[a].de] = Nada]
      /\ ultimo' = [ultimo EXCEPT ![curso[a].de] = s]
  BY DEF Editar, Conectado, Ocupado
<1>2. /\ c.de \in Usuarios /\ c.banco \in Bancos /\ c.quando \in 0..MaxTrocas
      /\ ComLinha(c.de) /\ f.id = c.id
      /\ c.banco = BancoEm(c.quando) /\ f.banco = BancoEm(f.quando)
  BY <1>1, CursoBemFormado
  DEF ConexaoInv, PedidosInv, MarcasInv, PedidoMarcado, FormMarcado
<1>3. /\ f.banco \in Bancos /\ f.id \in Ids /\ f.linha \in Origens /\ f.quando \in 0..MaxTrocas
      /\ f.id \in 1..Len(linhas[f.banco]) /\ linhas[f.banco][f.id] = f.linha
  BY <1>2, FormularioComLinha DEF ConexaoInv, FormulariosInv
<1>4. /\ linhas[c.banco] \in Seq(Origens) /\ Len(linhas[c.banco]) \in Nat
      /\ \A d \in Bancos : Len(linhas[d]) \in Nat
  BY <1>2 DEF ConexaoInv, TypeOKConexao
<1>5. Atingida(c.banco, c.id) \in (Visiveis(c.banco) \cap Origens) \cup {Nada}
  <2>1. CASE c.id <= Len(linhas[c.banco])
    <3>1. c.id \in 1..Len(linhas[c.banco])
      BY <1>2, <1>3, <1>4, <2>1, ConexaoConstantes DEF Ids
    <3>2. linhas[c.banco][c.id] \in Origens
      BY <1>4, <3>1
    <3>3. QED BY <2>1, <3>1, <3>2 DEF Atingida, Visiveis
  <2>2. CASE ~(c.id <= Len(linhas[c.banco]))
    BY <2>2 DEF Atingida
  <2>3. QED BY <2>1, <2>2
<1>6. c.banco = f.banco => Atingida(c.banco, c.id) = f.linha
  BY <1>2, <1>3, <1>4 DEF Atingida
<1>7. /\ s \in Salvo
      /\ s.banco = c.banco /\ s.quando = c.quando /\ s.origem = f.banco
      /\ s.desde = f.quando /\ s.pretendida = f.linha
      /\ s.atingida = Atingida(c.banco, c.id)
  BY <1>2, <1>3, <1>5 DEF Salvo
<1>8. PICK t \in Salvo : t = s
  BY <1>7
<1>9. /\ t.banco = c.banco /\ t.quando = c.quando /\ t.origem = f.banco
      /\ t.desde = f.quando /\ t.pretendida = f.linha
      /\ t.atingida = Atingida(c.banco, c.id)
  BY <1>7, <1>8
<1>10. ultimo' = [ultimo EXCEPT ![curso[a].de] = t]
  BY <1>1, <1>8
<1> HIDE DEF s, f
<1>11. \A d \in Bancos : Visiveis(d)' = Visiveis(d)
  BY <1>1 DEF Visiveis
<1>12. /\ \A d \in Bancos : Visiveis(d) \subseteq Visiveis(d)'
       /\ \A d \in Bancos : Len(linhas'[d]) <= Len(linhas[d]) + 1
       /\ linhas' \in [Bancos -> Seq(Origens)]
  BY <1>1, <1>4, <1>11 DEF ConexaoInv, TypeOKConexao
<1>13. t.atingida \in Visiveis(t.banco)' \cup {Nada}
  BY <1>1, <1>5, <1>9 DEF Visiveis
<1>14. /\ t.atingida # t.pretendida => t.banco # t.origem
       /\ t.banco = BancoEm(t.quando) /\ t.origem = BancoEm(t.desde)
  BY <1>2, <1>6, <1>9
<1>15. \A d \in Bancos : \A i \in 1..Len(linhas[d]) :
         i \in 1..Len(linhas'[d]) /\ linhas'[d][i] = linhas[d][i]
  BY <1>1
<1> HIDE DEF c
<1>16. QED BY <1>1, <1>10, <1>12, <1>13, <1>14, <1>15, PassoSalvar

\* A row is added, and its user is not told.
LEMMA PassoSemResposta ==
  ASSUME ConexaoInv, NEW a \in Servidores, Conectado(a, "salvar"), Terminar(a),
         UNCHANGED <<mysql, trocas, form, pagina, ultimo>>, salvos' = salvos + 1,
         linhas' \in [Bancos -> Seq(Origens)],
         \A c \in Bancos : Len(linhas'[c]) <= Len(linhas[c]) + 1,
         \A c \in Bancos : \A i \in 1..Len(linhas[c]) :
           i \in 1..Len(linhas'[c]) /\ linhas'[c][i] = linhas[c][i],
         \A c \in Bancos : Visiveis(c) \subseteq Visiveis(c)'
  PROVE  ConexaoInv'
<1>1. Ocupado(a) /\ curso[a].de \in Usuarios /\ a \in Gravando
  BY CursoBemFormado DEF ConexaoInv, Conectado, Ocupado, Gravando
<1>2. PICK f \in Formulario \cup {Nada} : f = form[curso[a].de]
  BY <1>1 DEF ConexaoInv, TypeOKConexao
<1>3. form' = [form EXCEPT ![curso[a].de] = f]
  BY <1>2 DEF ConexaoInv, TypeOKConexao
<1>4. f # Nada /\ f.id # Nada =>
        /\ f.id \in 1..Len(linhas'[f.banco])
        /\ linhas'[f.banco][f.id] = f.linha
        /\ f.banco = BancoEm(f.quando)
  <2> SUFFICES ASSUME f # Nada, f.id # Nada
               PROVE  /\ f.id \in 1..Len(linhas'[f.banco])
                      /\ linhas'[f.banco][f.id] = f.linha
                      /\ f.banco = BancoEm(f.quando)
    OBVIOUS
  <2>1. ComLinha(curso[a].de)
    BY <1>2 DEF ComLinha
  <2>2. f.banco \in Bancos
    BY <1>1, <1>2, <2>1, FormularioComLinha DEF ConexaoInv
  <2>3. f.id \in 1..Len(linhas[f.banco]) /\ linhas[f.banco][f.id] = f.linha
    BY <1>1, <1>2, <2>1 DEF ConexaoInv, FormulariosInv
  <2>4. f.banco = BancoEm(f.quando)
    BY <1>1, <1>2, <2>1 DEF ConexaoInv, MarcasInv, FormMarcado
  <2>5. QED BY <2>2, <2>3, <2>4
<1>5. /\ form' \in [Usuarios -> Formulario \cup {Nada}]
      /\ curso' \in [Servidores -> Pedido \cup {Nada}]
      /\ PedidosInv' /\ FormulariosInv'
      /\ \A v \in Usuarios : FormMarcado(v)'
      /\ \A b \in Servidores : PedidoMarcado(b)'
  BY <1>1, <1>3, <1>4, PassoResponder
<1>6. ContagemInv' /\ salvos' \in 0..MaxSalvos /\ \A c \in Bancos : Len(linhas'[c]) \in Ids
  BY <1>1, LinhasContadas
<1>7. TypeOKConexao'
  BY <1>5, <1>6 DEF ConexaoInv, TypeOKConexao
<1>8. MarcasInv' /\ AlvoInv'
  BY <1>5 DEF ConexaoInv, MarcasInv, AlvoInv, ListaMarcada, SalvoMarcado, BancoEm
<1>9. VistaInv'
  <2> SUFFICES ASSUME NEW v \in Usuarios, ultimo[v] # Nada
               PROVE  /\ ultimo[v].atingida \in Visiveis(ultimo[v].banco)' \cup {Nada}
                      /\ pagina[v] # Nada /\ pagina[v].banco = ultimo[v].banco =>
                           ultimo[v].atingida \in pagina[v].linhas \cup {Nada}
    BY DEF VistaInv, Visiveis
  <2>1. PICK c \in Bancos : c = ultimo[v].banco
    BY DEF ConexaoInv, TypeOKConexao, Salvo
  <2>2. Visiveis(c) \subseteq Visiveis(c)'
    BY <2>1
  <2>3. Visiveis(ultimo[v].banco)' = Visiveis(c)'
    BY <2>1 DEF Visiveis
  <2>4. QED BY <2>1, <2>2, <2>3 DEF ConexaoInv, VistaInv
<1>10. QED BY <1>5, <1>6, <1>7, <1>8, <1>9 DEF ConexaoInv

\* INSERT, in the database that was opened.
LEMMA PassoInserir ==
  ASSUME ConexaoInv, NEW a \in Servidores, Inserir(a)
  PROVE  ConexaoInv'
<1> DEFINE c == curso[a]
<1> DEFINE n == salvos + 1
<1> DEFINE s == [banco |-> c.banco, quando |-> c.quando, editado |-> FALSE,
                 pretendida |-> n, atingida |-> n, origem |-> c.banco,
                 desde |-> c.quando]
<1>1. /\ Conectado(a, "salvar") /\ Terminar(a) /\ c.banco # Nada
      /\ Ocupado(a) /\ c.op = "salvar"
      /\ UNCHANGED <<mysql, trocas>> /\ salvos' = n
      /\ linhas' = Inserida(c.banco, n)
      /\ \/ /\ form' = [form EXCEPT ![curso[a].de] = Nada]
            /\ pagina' = [pagina EXCEPT ![curso[a].de] = Nada]
            /\ ultimo' = [ultimo EXCEPT ![curso[a].de] = s]
         \/ UNCHANGED <<form, pagina, ultimo>>
  BY DEF Inserir, Conectado, Ocupado
<1>2. /\ c.de \in Usuarios /\ c.banco \in Bancos /\ c.quando \in 0..MaxTrocas
      /\ c.banco = BancoEm(c.quando)
  BY <1>1, CursoBemFormado DEF ConexaoInv, MarcasInv, PedidoMarcado
<1>3. n \in Origens
  <2>1. a \in Gravando
    BY <1>1 DEF Gravando, Ocupado
  <2>2. Cardinality(Gravando) >= 1
    BY <1>1, <2>1, TerminarCurso, GravandoFinito DEF ConexaoInv
  <2>3. n \in 1..MaxSalvos
    BY <2>2, GravandoFinito, ConexaoConstantes DEF ConexaoInv, ContagemInv, TypeOKConexao
  <2>4. QED BY <2>3 DEF Origens
<1>4. /\ s \in Salvo
      /\ s.banco = c.banco /\ s.quando = c.quando /\ s.origem = c.banco
      /\ s.desde = c.quando /\ s.pretendida = n /\ s.atingida = n
  BY <1>2, <1>3 DEF Salvo
<1>5. PICK t \in Salvo : t = s
  BY <1>4
<1>6. /\ t.banco = c.banco /\ t.quando = c.quando /\ t.origem = c.banco
      /\ t.desde = c.quando /\ t.pretendida = n /\ t.atingida = n
  BY <1>4, <1>5
<1>7. \/ /\ form' = [form EXCEPT ![curso[a].de] = Nada]
         /\ pagina' = [pagina EXCEPT ![curso[a].de] = Nada]
         /\ ultimo' = [ultimo EXCEPT ![curso[a].de] = t]
      \/ UNCHANGED <<form, pagina, ultimo>>
  BY <1>1, <1>5
<1> HIDE DEF s
<1>8. PICK b \in Bancos : b = c.banco
  BY <1>2
<1>9. /\ linhas'[b] = Append(linhas[b], n)
      /\ \A d \in Bancos : d # b => linhas'[d] = linhas[d]
      /\ \A d \in Bancos : \A i \in 1..Len(linhas[d]) :
           i \in 1..Len(linhas'[d]) /\ linhas'[d][i] = linhas[d][i]
      /\ n \in Visiveis(b)'
      /\ \A d \in Bancos : Visiveis(d) \subseteq Visiveis(d)'
  <2>1. linhas' = Inserida(b, n)
    BY <1>1, <1>8
  <2> HIDE DEF n
  <2>2. QED BY <2>1, LinhasCrescem DEF ConexaoInv
<1>10. /\ linhas' \in [Bancos -> Seq(Origens)]
       /\ \A d \in Bancos : Len(linhas'[d]) <= Len(linhas[d]) + 1
  <2>1. \A d \in Bancos : linhas[d] \in Seq(Origens) /\ Len(linhas[d]) \in Nat
    BY DEF ConexaoInv, TypeOKConexao
  <2>2. linhas'[b] \in Seq(Origens) /\ Len(linhas'[b]) = Len(linhas[b]) + 1
    BY <1>3, <1>9, <2>1
  <2>3. linhas' = [linhas EXCEPT ![b] = Append(linhas[b], n)]
    BY <1>1, <1>8 DEF Inserida
  <2>4. linhas' \in [Bancos -> Seq(Origens)]
    BY <1>9, <2>2, <2>3 DEF ConexaoInv, TypeOKConexao
  <2>5. ASSUME NEW d \in Bancos
        PROVE  Len(linhas'[d]) <= Len(linhas[d]) + 1
    BY <1>9, <2>1, <2>2
  <2>6. QED BY <2>4, <2>5
<1> HIDE DEF n
<1>11. t.atingida \in Visiveis(t.banco)' \cup {Nada}
  BY <1>6, <1>8, <1>9 DEF Visiveis
<1>12. salvos' = salvos + 1
  BY <1>1 DEF n
<1>13. /\ t.atingida # t.pretendida => t.banco # t.origem
       /\ t.banco = BancoEm(t.quando) /\ t.origem = BancoEm(t.desde)
  BY <1>2, <1>6
<1> HIDE DEF c
<1>14. CASE UNCHANGED <<form, pagina, ultimo>>
  BY <1>1, <1>9, <1>10, <1>12, <1>14, PassoSemResposta
<1>15. QED BY <1>1, <1>7, <1>9, <1>10, <1>11, <1>12, <1>13, <1>14, PassoSalvar

-----------------------------------------------------------------------------
(* The invariant and what follows from it *)

\* Before any request the databases hold one row each.
LEMMA ConexaoInicial ==
  ASSUME InitConexao
  PROVE  ConexaoInv
<1>1. Gravando = {}
  BY DEF InitConexao, Gravando
<1>2. Cardinality(Gravando) = 0
  BY <1>1, FS_EmptySet
<1>3. \A b \in Bancos : /\ linhas[b] = <<Antiga(b)>> /\ Antiga(b) \in Origens
                        /\ linhas[b] \in Seq(Origens) /\ Len(linhas[b]) = 1
  BY DEF InitConexao, Origens
<1>4. 1 \in Ids /\ 0 \in 0..MaxSalvos /\ 0 \in 0..MaxTrocas
  BY ConexaoConstantes DEF Ids
<1>5. linhas \in [Bancos -> Seq(Origens)]
  BY <1>3 DEF InitConexao
<1>6. TypeOKConexao
  BY <1>3, <1>4, <1>5 DEF InitConexao, TypeOKConexao
<1>7. ContagemInv
  BY <1>2, <1>3, ConexaoConstantes DEF InitConexao, ContagemInv
<1>8. PedidosInv /\ FormulariosInv /\ AlvoInv /\ VistaInv
  BY DEF InitConexao, PedidosInv, FormulariosInv, AlvoInv, VistaInv, Ocupado, ComLinha
<1>9. MarcasInv
  BY DEF InitConexao, MarcasInv, FormMarcado, ListaMarcada, SalvoMarcado, PedidoMarcado,
         Ocupado, ComLinha
<1>10. QED BY <1>6, <1>7, <1>8, <1>9 DEF ConexaoInv

\* Every step keeps the invariant.
LEMMA ConexaoPasso ==
  ASSUME ConexaoInv, PassoConexao
  PROVE  ConexaoInv'
<1>1. ASSUME NEW a \in Servidores, Falhar(a)
      PROVE  ConexaoInv'
  BY <1>1, PassoInterromper DEF Falhar, Interromper
<1>2. ASSUME NEW a \in Servidores, Atender(a)
      PROVE  ConexaoInv'
  BY <1>1, <1>2, PassoConectar, PassoMostrar, PassoEditar, PassoInserir DEF Atender
<1>3. QED
  BY <1>2, PassoInterromper, PassoPedir, PassoTrocar, PassoMudo DEF PassoConexao

\* A save that missed its row, or hid it, changed databases, and so MySQL came or went.
LEMMA ConexaoConsequencias ==
  ASSUME ConexaoInv
  PROVE  GravaNaMinha /\ SumicoExplicado
<1>1. GravaNaMinha
  BY DEF ConexaoInv, AlvoInv, MarcasInv, SalvoMarcado, GravaNaMinha
<1>2. SumicoExplicado
  BY DEF ConexaoInv, VistaInv, MarcasInv, SalvoMarcado, ListaMarcada, SumicoExplicado
<1>3. QED BY <1>1, <1>2

-----------------------------------------------------------------------------
(* Implantacao *)

SistemaInv == PortasInv /\ ConexaoInv

\* A step of the whole is a step of the script's side and one of the pages' side.
LEMMA PassoDosDois ==
  ASSUME [Next]_vars
  PROVE  PassoIniciador /\ PassoConexao
<1>1. ASSUME NEW l \in Lancamentos, Lancar(l)
      PROVE  PassoIniciador /\ PassoConexao
  BY <1>1 DEF Lancar, PassoIniciador, PassoConexao, NextIniciador
<1>2. ASSUME NEW l \in Lancamentos, Fechar(l)
      PROVE  PassoIniciador /\ PassoConexao
  <2>1. NextIniciador
    BY <1>2 DEF Fechar, NextIniciador
  <2>2. Interromper(l)
    BY <1>2 DEF Fechar, AoFechar, Interromper, Terminar
  <2>3. QED BY <2>1, <2>2, CadaLancamentoUmServidor DEF PassoIniciador, PassoConexao
<1>3. ASSUME NEW l \in Lancamentos, Servir(l)
      PROVE  PassoIniciador /\ PassoConexao
  BY <1>3, CadaLancamentoUmServidor DEF Servir, PassoIniciador, PassoConexao
<1>4. ASSUME NEW l \in Lancamentos, NEW u \in Usuarios, Navegar(l, u)
      PROVE  PassoIniciador /\ PassoConexao
  BY <1>4, CadaLancamentoUmServidor DEF Navegar, PassoIniciador, PassoConexao
<1>5. CASE Ambiente
  BY <1>5 DEF Ambiente, PassoIniciador, PassoConexao, NextIniciador
<1>6. CASE UNCHANGED vars
  BY <1>6 DEF vars, PassoIniciador, PassoConexao
<1>7. QED BY <1>1, <1>2, <1>3, <1>4, <1>5, <1>6 DEF Next

\* The inductive invariant of the whole.
LEMMA SistemaInvariante == Spec => []SistemaInv
<1>1. Init => SistemaInv
  BY PortasPasso, ConexaoInicial, CadaLancamentoUmServidor
  DEF Init, SistemaInv
<1>2. SistemaInv /\ [Next]_vars => SistemaInv'
  BY PassoDosDois, PortasPasso, ConexaoPasso DEF SistemaInv
<1>3. QED BY <1>1, <1>2, PTL DEF Spec

\* Type correctness of the whole.
THEOREM TypeCorrect == Spec => []TypeOK
<1>1. SistemaInv => TypeOK
  BY DEF SistemaInv, PortasInv, ConexaoInv, TypeOK
<1>2. QED BY <1>1, SistemaInvariante, PTL

\* However MySQL comes and goes, and however many servers and users there are: a save
\* changes the row its form was loaded from, unless the form and the save were served
\* by different databases, and the choice changed between the two.
THEOREM SalvoNoLugar == Spec => []GravaNaMinha
<1>1. SistemaInv => GravaNaMinha
  BY ConexaoConsequencias DEF SistemaInv
<1>2. QED BY <1>1, SistemaInvariante, PTL

\* What was saved is on every later list of its user, under the same proviso.
THEOREM SumicoSoPelaTroca == Spec => []SumicoExplicado
<1>1. SistemaInv => SumicoExplicado
  BY ConexaoConsequencias DEF SistemaInv
<1>2. QED BY <1>1, SistemaInvariante, PTL

\* The script's own guarantee holds in the whole system too.
THEOREM UmPorPortaNoSistema == Spec => []UmServidorPorPorta
<1>1. SistemaInv => UmServidorPorPorta
  BY UmOuvinte DEF SistemaInv
<1>2. QED BY <1>1, SistemaInvariante, PTL

=============================================================================
