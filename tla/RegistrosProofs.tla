--------------------------- MODULE RegistrosProofs ---------------------------
(***************************************************************************)
(* Theorems of Registros for any number of sessions, workers, rows, forms  *)
(* and values, on either database.                                         *)
(***************************************************************************)
EXTENDS Registros, WellFoundedInduction, TLAPS

ComAviso == {"manutencoes", "solicitacoes"}

\* Whoever a notice would go to is in its table.
Conhecido(t, quem) == quem \in Ids /\ Existe(Destinatario(t), quem)

\* Every row with a notice names its client or supplier.
QuemInv ==
  \A t \in ComAviso, i \in Ids : Existe(t, i) => Conhecido(t, linhas[t][i].quem)

\* A form on the screen.  One that is up to date shows the row it was loaded from,
\* but for the field that its user changed.
FormBom(f) ==
  /\ f.tabela \in ComAviso => Conhecido(f.tabela, f.valores.quem)
  /\ f.tabela = "solicitacoes" => f.valores.status \in OpcoesStatus
  /\ f.id # Nenhum =>
       /\ Existe(f.tabela, f.id)
       /\ f.versao \in 1..versao[f.tabela][f.id]
       /\ f.versao = versao[f.tabela][f.id] =>
            \A c \in Gravadas(f.tabela) \ {f.mudou} :
              f.valores[c] = Mostrada(f.tabela, c, linhas[f.tabela][f.id][c])

FormInv ==
  \A s \in Sessoes :
    /\ tela[s] # Nenhum => FormBom(tela[s])
    /\ fase[s] = "gravar" => tela[s] # Nenhum

\* A notice on its way tells a version of its row: the last one, and what the row
\* says, unless another request saved the row meanwhile.
AvisoBom(p) ==
  /\ p.tabela \in ComAviso
  /\ p.id \in Ids
  /\ Existe(p.tabela, p.id)
  /\ Conhecido(p.tabela, p.quem)
  /\ p.versao \in 1..versao[p.tabela][p.id]
  /\ p.versao = versao[p.tabela][p.id] =>
       p.quem = linhas[p.tabela][p.id].quem /\ p.dados = linhas[p.tabela][p.id].dados
  /\ ~paralelo[p.tabela][p.id] => p.versao = versao[p.tabela][p.id]

Pendentes == {"destinatario", "enviar", "reenviar"}

AvisosInv ==
  \A s \in Sessoes : fase[s] \in Pendentes => pedido[s] \in Pedido /\ AvisoBom(pedido[s])

\* The select of recipients starts at somebody.
PrimeiroInv == Existe("clientes", 1) /\ Existe("fornecedores", 1)

RegistrosInv ==
  /\ TypeOK /\ PrimeiroInv /\ QuemInv /\ FormInv /\ AvisosInv
  /\ AvisoDoGravado /\ UltimoAvisoVale /\ SolicitacaoEncontrada

-----------------------------------------------------------------------------
(* Lemmas on the operators. *)

\* A page's columns are columns.
LEMMA ColunasGravadas ==
  ASSUME NEW t \in Tabelas
  PROVE  /\ Gravadas(t) \subseteq Colunas
         /\ t \in ComAviso => "quem" \in Gravadas(t) /\ "dados" \in Gravadas(t)
         /\ t \notin ComAviso => "quem" \notin Gravadas(t)
         /\ "status" \in Gravadas(t) <=> t = "solicitacoes"
         /\ Avisa(t) <=> t \in ComAviso
         /\ Destinatario(t) \in Tabelas \ ComAviso
BY DEF Gravadas, Colunas, Tabelas, ComAviso, Avisa, Destinatario

\* Column by column, a row is a row.
LEMMA LinhaPorColunas ==
  ASSUME NEW l, l = [c \in Colunas |-> l[c]],
         l["email"] \in Emails \cup {Nenhum}, l["quem"] \in Ids \cup {Nenhum},
         l["dados"] \in Dados, l["status"] \in Status \cup {Nenhum}
  PROVE  l \in Linha
BY DEF Linha, Colunas

LEMMA ColunasDeLinha ==
  ASSUME NEW l \in Linha
  PROVE  /\ l["email"] \in Emails \cup {Nenhum} /\ l["quem"] \in Ids \cup {Nenhum}
         /\ l["dados"] \in Dados /\ l["status"] \in Status \cup {Nenhum}
         /\ l # Nenhum
BY RegistrosConstantes DEF Linha

\* What a form writes over a row, or over the defaults of a new one, is a row; all
\* pages write `dados`.
LEMMA EscritaLinha ==
  ASSUME NEW f \in Formulario, NEW antes,
         antes["email"] \in Emails \cup {Nenhum}, antes["quem"] \in Ids \cup {Nenhum},
         antes["status"] \in Status \cup {Nenhum}
  PROVE  Escrita(f, antes) \in Linha
<1>1. f.valores \in Linha /\ f.tabela \in Tabelas
  BY DEF Formulario
<1>2. Escrita(f, antes) = [c \in Colunas |-> Escrita(f, antes)[c]]
  BY DEF Escrita
<1>3. \A c \in Colunas :
        /\ Escrita(f, antes)[c] \in {f.valores[c], antes[c]}
        /\ c \in Gravadas(f.tabela) => Escrita(f, antes)[c] = f.valores[c]
  BY DEF Escrita
<1>4. /\ Escrita(f, antes)["email"] \in {f.valores["email"], antes["email"]}
      /\ Escrita(f, antes)["quem"] \in {f.valores["quem"], antes["quem"]}
      /\ Escrita(f, antes)["status"] \in {f.valores["status"], antes["status"]}
  BY <1>3 DEF Colunas
<1>5. "dados" \in Gravadas(f.tabela)
  BY <1>1 DEF Gravadas, Tabelas
<1>6. Escrita(f, antes)["dados"] = f.valores["dados"]
  BY <1>3, <1>5 DEF Colunas
<1>7. QED BY <1>1, <1>2, <1>4, <1>6, ColunasDeLinha, LinhaPorColunas

\* The words of the forms and of the defaults are among the words of a status.
LEMMA PalavrasDeStatus ==
  OpcoesStatus \subseteq Status /\ "Agendada" \in Status /\ OpcoesFiltro = OpcoesStatus
BY DEF OpcoesStatus, OpcoesFiltro, Status, Enum

\* A table that is not full has a next id, and it is free.
LEMMA NovoLivre ==
  ASSUME NEW t \in Tabelas, ~Cheia(t)
  PROVE  Novo(t) \in Ids /\ ~Existe(t, Novo(t))
<1> DEFINE L == {i \in Ids : ~Existe(t, i)}
<1>1. L \subseteq Nat /\ L # {}
  BY RegistrosConstantes DEF Cheia, Ids
<1>2. PICK i \in L : \A j \in L : ~(<<j, i>> \in OpToRel(<, Nat))
  BY <1>1, NatLessThanWellFounded, WFMin
<1>3. \A j \in L : ~(j < i)
  BY <1>1, <1>2 DEF OpToRel
<1>4. \A j \in 1..i - 1 : Existe(t, j)
  BY <1>1, <1>3, RegistrosConstantes DEF Ids
<1>5. \E k \in Ids : ~Existe(t, k) /\ \A j \in 1..k - 1 : Existe(t, j)
  BY <1>4
<1>6. QED BY <1>5 DEF Novo

-----------------------------------------------------------------------------
(* Steps that write no row and deliver nothing. *)

\* What a step of session s has to show when rows and history stay as they are.
LEMMA PassoSemGravar ==
  ASSUME RegistrosInv, NEW s \in Sessoes,
         UNCHANGED <<fixo, linhas, versao, historia>>,
         tela' \in [Sessoes -> Formulario \cup {Nenhum}],
         fase' \in [Sessoes -> Fases],
         pedido' \in [Sessoes -> Pedido \cup {Nenhum}],
         restantes' \in 0..MaxPedidos,
         \A r \in Sessoes \ {s} :
           tela'[r] = tela[r] /\ fase'[r] = fase[r] /\ pedido'[r] = pedido[r],
         tela'[s] # Nenhum => FormBom(tela'[s]),
         fase'[s] = "gravar" => tela'[s] # Nenhum,
         fase'[s] \in Pendentes => pedido'[s] \in Pedido /\ AvisoBom(pedido'[s])
  PROVE  RegistrosInv'
<1>1. UNCHANGED <<paginas, banco, linhas, versao, avisado, calado, paralelo>>
  BY DEF fixo, historia
<1>2. TypeOK'
  BY <1>1 DEF RegistrosInv, TypeOK
<1>3. /\ PrimeiroInv' /\ QuemInv' /\ AvisoDoGravado' /\ UltimoAvisoVale'
      /\ SolicitacaoEncontrada'
  BY <1>1 DEF RegistrosInv, PrimeiroInv, QuemInv, Conhecido, Existe, AvisoDoGravado, UltimoAvisoVale,
              SolicitacaoEncontrada
<1>4. FormInv'
  <2> SUFFICES ASSUME NEW r \in Sessoes
               PROVE  /\ tela'[r] # Nenhum => FormBom(tela[r])'
                      /\ fase'[r] = "gravar" => tela'[r] # Nenhum
    BY DEF FormInv
  <2>1. tela'[r] # Nenhum => FormBom(tela'[r])
    BY DEF RegistrosInv, FormInv
  <2>2. QED BY <1>1, <2>1 DEF RegistrosInv, FormInv, FormBom, Conhecido, Existe
<1>5. AvisosInv'
  <2> SUFFICES ASSUME NEW r \in Sessoes, fase'[r] \in Pendentes
               PROVE  pedido'[r] \in Pedido /\ AvisoBom(pedido[r])'
    BY DEF AvisosInv
  <2>1. pedido'[r] \in Pedido /\ AvisoBom(pedido'[r])
    BY DEF RegistrosInv, AvisosInv
  <2>2. QED BY <1>1, <2>1 DEF AvisoBom, Conhecido, Existe
<1>6. QED BY <1>2, <1>3, <1>4, <1>5 DEF RegistrosInv

\* The form that GET ?edit=i shows is that of the row.
LEMMA PassoCarregar ==
  ASSUME RegistrosInv, NEW s \in Sessoes, NEW t \in Tabelas, NEW i \in Ids, Carregar(s, t, i)
  PROVE  RegistrosInv'
<1> DEFINE v == [c \in Colunas |-> IF c \in Gravadas(t) THEN Mostrada(t, c, linhas[t][i][c])
                                   ELSE Padrao(t, c)]
           f == Formar(t, i, v, versao[t][i])
<1>1. linhas[t][i] \in Linha
  BY DEF Carregar, Existe, RegistrosInv, TypeOK
<1>2. versao[t][i] \in Nat /\ versao[t][i] # 0
  BY DEF Carregar, Existe, RegistrosInv, TypeOK
<1>3. v \in Linha
  <2>1. v["email"] \in Emails \cup {Nenhum} /\ v["quem"] \in Ids \cup {Nenhum}
    BY <1>1, ColunasDeLinha DEF Colunas, Mostrada, Padrao
  <2>2. v["dados"] \in Dados
    BY <1>1, ColunasDeLinha DEF Colunas, Mostrada, Gravadas, Tabelas
  <2>3. v["status"] \in Status \cup {Nenhum}
    <3>1. linhas[t][i]["status"] \in Status \cup {Nenhum}
      BY <1>1, ColunasDeLinha
    <3>2. "Atendido" \in Status
      BY PalavrasDeStatus DEF OpcoesStatus
    <3>3. v["status"] \in {linhas[t][i]["status"], "Atendido", "Agendada", Nenhum}
      BY DEF Colunas, Mostrada, Padrao
    <3>4. QED BY <3>1, <3>2, <3>3, PalavrasDeStatus
  <2>4. QED BY <2>1, <2>2, <2>3, LinhaPorColunas
<1>4. f \in Formulario
  BY <1>2, <1>3 DEF Formar, Formulario
<1>5. FormBom(f)
  <2>1. f.tabela = t /\ f.id = i /\ f.valores = v /\ f.versao = versao[t][i]
    BY DEF Formar
  <2>2. t \in ComAviso => v["quem"] = linhas[t][i]["quem"]
    BY ColunasGravadas DEF Mostrada, Colunas
  <2>3. t \in ComAviso => Conhecido(t, v.quem)
    BY <2>2 DEF RegistrosInv, QuemInv, Carregar
  <2>4. t = "solicitacoes" => v["status"] \in OpcoesStatus
    <3> SUFFICES ASSUME t = "solicitacoes" PROVE v["status"] \in OpcoesStatus
      OBVIOUS
    <3>1. v["status"] = Mostrada(t, "status", linhas[t][i]["status"])
      BY ColunasGravadas DEF Colunas
    <3>2. linhas[t][i].status \in OpcoesFiltro \cup {"Atendida"}
      BY DEF RegistrosInv, SolicitacaoEncontrada, Encontrada, Carregar, Existe
    <3>3. QED BY <3>1, <3>2 DEF Mostrada, OpcoesFiltro, OpcoesStatus
  <2>5. f.versao \in 1..versao[t][i]
    BY <1>2, <2>1
  <2>6. \A c \in Gravadas(t) : v[c] = Mostrada(t, c, linhas[t][i][c])
    BY ColunasGravadas
  <2>7. QED BY <2>1, <2>3, <2>4, <2>5, <2>6 DEF FormBom, Carregar
<1>6. tela' = [tela EXCEPT ![s] = f] /\ fase[s] = "livre"
  BY DEF Carregar, PodeAtender
<1>7. UNCHANGED <<fixo, linhas, versao, historia>> /\ UNCHANGED <<fase, pedido, restantes>>
  BY DEF Carregar
<1>8. tela' \in [Sessoes -> Formulario \cup {Nenhum}] /\ tela'[s] = f
  BY <1>4, <1>6 DEF RegistrosInv, TypeOK
<1>9. \A r \in Sessoes \ {s} : tela'[r] = tela[r]
  BY <1>6 DEF RegistrosInv, TypeOK
<1>10. fase'[s] = "livre" /\ "livre" \notin Pendentes
  BY <1>6, <1>7 DEF Pendentes
<1>11. QED
  BY <1>5, <1>7, <1>8, <1>9, <1>10, PassoSemGravar DEF RegistrosInv, TypeOK

\* An empty form is filled in with what its inputs allow; row 1 of the tables of the
\* recipients is there.
LEMMA PassoPreencher ==
  ASSUME RegistrosInv, NEW s \in Sessoes, NEW t \in Tabelas, Preencher(s, t)
  PROVE  RegistrosInv'
<1>1. PICK d \in Dados, e \in Emails :
        tela' = [tela EXCEPT ![s] =
          Formar(t, Nenhum,
                 [c \in Colunas |-> IF c \in Gravadas(t)
                                   THEN CASE c = "dados" -> d [] c = "email" -> e
                                          [] c = "status" -> "Pendente" [] c = "quem" -> 1
                                   ELSE Padrao(t, c)], 0)]
  BY DEF Preencher
<1> DEFINE valor(c) == CASE c = "dados" -> d [] c = "email" -> e
                         [] c = "status" -> "Pendente" [] c = "quem" -> 1
           v == [c \in Colunas |-> IF c \in Gravadas(t) THEN valor(c) ELSE Padrao(t, c)]
           f == Formar(t, Nenhum, v, 0)
<1>1a. tela' = [tela EXCEPT ![s] = f]
  BY <1>1
<1>1b. valor("dados") = d /\ valor("email") = e /\ valor("status") = "Pendente" /\ valor("quem") = 1
  OBVIOUS
<1> HIDE DEF valor
<1>2. v["dados"] = d
  BY <1>1b DEF Colunas, Gravadas, Tabelas
<1>3. v["email"] \in {e, Nenhum}
  BY <1>1b DEF Colunas, Padrao
<1>4. v["quem"] \in {1, Nenhum} /\ (t \in ComAviso => v["quem"] = 1)
  BY <1>1b, ColunasGravadas DEF Colunas, Padrao
<1>5. /\ v["status"] \in {"Pendente", "Agendada", Nenhum}
      /\ t = "solicitacoes" => v["status"] = "Pendente"
  BY <1>1b, ColunasGravadas DEF Colunas, Padrao
<1>6. 1 \in Ids
  BY RegistrosConstantes DEF Ids
<1>7. v \in Linha
  <2>1. "Pendente" \in Status /\ "Agendada" \in Status
    BY PalavrasDeStatus DEF OpcoesStatus
  <2>2. v = [c \in Colunas |-> v[c]]
    OBVIOUS
  <2>3. /\ v["email"] \in Emails \cup {Nenhum} /\ v["quem"] \in Ids \cup {Nenhum}
        /\ v["dados"] \in Dados /\ v["status"] \in Status \cup {Nenhum}
    BY <1>2, <1>3, <1>4, <1>5, <1>6, <2>1
  <2> HIDE DEF v
  <2>4. QED BY <2>2, <2>3, LinhaPorColunas
<1>8. f \in Formulario
  BY <1>7 DEF Formar, Formulario
<1>9. FormBom(f)
  BY <1>4, <1>5, <1>6, ColunasGravadas
  DEF FormBom, Formar, Conhecido, Destinatario, ComAviso, OpcoesStatus, RegistrosInv, PrimeiroInv
<1>10. UNCHANGED <<fixo, linhas, versao, historia>> /\ UNCHANGED <<fase, pedido, restantes>>
  BY DEF Preencher
<1>11. tela' \in [Sessoes -> Formulario \cup {Nenhum}] /\ tela'[s] = f
  BY <1>1a, <1>8 DEF RegistrosInv, TypeOK
<1>12. \A r \in Sessoes \ {s} : tela'[r] = tela[r]
  BY <1>1a DEF RegistrosInv, TypeOK
<1>13. fase'[s] = "livre" /\ "livre" \notin Pendentes
  BY <1>10 DEF Preencher, PodeAtender, Pendentes
<1>14. QED
  BY <1>9, <1>10, <1>11, <1>12, <1>13, PassoSemGravar DEF RegistrosInv, TypeOK

\* The user changes one field to something it offers.
LEMMA PassoDigitar ==
  ASSUME RegistrosInv, NEW s \in Sessoes, Digitar(s)
  PROVE  RegistrosInv'
<1> DEFINE f == tela[s]
<1>1. f \in Formulario /\ FormBom(f) /\ f.mudou = Nenhum
  BY DEF Digitar, RegistrosInv, TypeOK, FormInv
<1>2. f.tabela \in Tabelas /\ f.valores \in Linha
  BY <1>1 DEF Formulario
<1>2b. PICK c \in Gravadas(f.tabela) : \E v \in Escolhas(f.tabela, c) :
        tela' = [tela EXCEPT ![s].valores[c] = v, ![s].mudou = c]
  BY DEF Digitar
<1>3. PICK v \in Escolhas(f.tabela, c) :
        tela' = [tela EXCEPT ![s].valores[c] = v, ![s].mudou = c]
  BY <1>2b
<1> DEFINE w == [f.valores EXCEPT ![c] = v]
           g == [f EXCEPT !.valores = w, !.mudou = c]
<1>4. c \in Colunas
  BY <1>2, ColunasGravadas
<1>5. tela' = [tela EXCEPT ![s] = g]
  BY <1>1, <1>3 DEF Formulario
<1>6. /\ c = "email" => v \in Emails \cup {Nenhum}
      /\ c = "dados" => v \in Dados
      /\ c = "status" => v \in OpcoesStatus
      /\ c = "quem" => v \in Ids /\ f.tabela \in ComAviso /\ Existe(Destinatario(f.tabela), v)
  <2>1. c = "quem" => f.tabela \in ComAviso
    BY <1>2, ColunasGravadas
  <2>2. CASE c = "quem"
    BY <2>1, <2>2 DEF Escolhas, ComAviso, Destinatario
  <2>3. CASE c # "quem"
    BY <2>3, <1>4 DEF Escolhas, Colunas
  <2>4. QED BY <2>2, <2>3
<1>7. w = [k \in Colunas |-> IF k = c THEN v ELSE f.valores[k]]
  BY <1>2, <1>4 DEF Linha, Colunas
<1>8. w \in Linha
  BY <1>2, <1>4, <1>6, <1>7, ColunasDeLinha, LinhaPorColunas, PalavrasDeStatus DEF Colunas
<1>9. /\ g \in Formulario /\ g.tabela = f.tabela /\ g.id = f.id /\ g.versao = f.versao
      /\ g.valores = w /\ g.mudou = c
  BY <1>1, <1>4, <1>8 DEF Formulario
<1>10. FormBom(g)
  <2>1. f.tabela \in ComAviso => Conhecido(f.tabela, w.quem)
    BY <1>1, <1>6, <1>7 DEF FormBom, Conhecido, Colunas
  <2>2. f.tabela = "solicitacoes" => w.status \in OpcoesStatus
    BY <1>1, <1>6, <1>7 DEF FormBom, Colunas
  <2>3. \A k \in Gravadas(f.tabela) \ {c} : w[k] = f.valores[k] /\ k # Nenhum
    BY <1>2, <1>7, ColunasGravadas, RegistrosConstantes
  <2>4. QED BY <1>1, <1>9, <2>1, <2>2, <2>3 DEF FormBom
<1>11. UNCHANGED <<fixo, linhas, versao, historia>> /\ UNCHANGED <<fase, pedido, restantes>>
  BY DEF Digitar
<1>12. tela' \in [Sessoes -> Formulario \cup {Nenhum}] /\ tela'[s] = g
  BY <1>5, <1>9 DEF RegistrosInv, TypeOK
<1>13. \A r \in Sessoes \ {s} : tela'[r] = tela[r]
  BY <1>5 DEF RegistrosInv, TypeOK
<1>14. fase'[s] = "livre" /\ "livre" \notin Pendentes
  BY <1>11 DEF Digitar, Pendentes
<1>15. QED
  BY <1>10, <1>11, <1>12, <1>13, <1>14, PassoSemGravar DEF RegistrosInv, TypeOK

\* Posting a form, once or twice, sets the request going.
LEMMA PassoPostar ==
  ASSUME RegistrosInv, NEW s \in Sessoes, Postar(s) \/ CliqueDuplo(s)
  PROVE  RegistrosInv'
<1>1. /\ fase' = [fase EXCEPT ![s] = "gravar"]
      /\ pedido' \in {pedido, [pedido EXCEPT ![s] = Nenhum]}
      /\ restantes > 0 /\ restantes' = restantes - 1
      /\ tela[s] # Nenhum
      /\ UNCHANGED <<fixo, linhas, versao, historia>> /\ UNCHANGED tela
  BY DEF Postar, CliqueDuplo
<1>2. restantes' \in 0..MaxPedidos
  BY <1>1, RegistrosConstantes DEF RegistrosInv, TypeOK
<1>3. /\ fase' \in [Sessoes -> Fases] /\ fase'[s] = "gravar" /\ "gravar" \notin Pendentes
      /\ pedido' \in [Sessoes -> Pedido \cup {Nenhum}]
      /\ \A r \in Sessoes \ {s} : fase'[r] = fase[r] /\ pedido'[r] = pedido[r]
  BY <1>1 DEF RegistrosInv, TypeOK, Fases, Pendentes
<1>4. FormBom(tela'[s])
  BY <1>1 DEF RegistrosInv, FormInv
<1>5. QED BY <1>1, <1>2, <1>3, <1>4, PassoSemGravar DEF RegistrosInv, TypeOK

\* The end of a request, with a redirect or without, leaves a screen or none.
LEMMA PassoTerminar ==
  ASSUME RegistrosInv, NEW s \in Sessoes,
         fase' = [fase EXCEPT ![s] = "livre"], pedido' = [pedido EXCEPT ![s] = Nenhum],
         tela' \in {tela, [tela EXCEPT ![s] = Nenhum]},
         UNCHANGED <<fixo, linhas, versao, historia>>, UNCHANGED restantes
  PROVE  RegistrosInv'
<1>1. /\ fase' \in [Sessoes -> Fases] /\ fase'[s] = "livre"
      /\ "livre" \notin Pendentes /\ "livre" # "gravar"
      /\ pedido' \in [Sessoes -> Pedido \cup {Nenhum}]
      /\ tela' \in [Sessoes -> Formulario \cup {Nenhum}]
      /\ \A r \in Sessoes \ {s} :
           tela'[r] = tela[r] /\ fase'[r] = fase[r] /\ pedido'[r] = pedido[r]
  BY DEF RegistrosInv, TypeOK, Fases, Pendentes
<1>2. tela'[s] \in {tela[s], Nenhum}
  BY DEF RegistrosInv, TypeOK
<1>3. tela'[s] # Nenhum => FormBom(tela'[s])
  BY <1>2 DEF RegistrosInv, FormInv
<1>4. QED BY <1>1, <1>3, PassoSemGravar DEF RegistrosInv, TypeOK

\* The address is looked up, and there is nothing or a mail to send.
LEMMA PassoLerDestinatario ==
  ASSUME RegistrosInv, NEW s \in Sessoes, LerDestinatario(s)
  PROVE  RegistrosInv'
<1> DEFINE p == pedido[s]
           email == IF p.quem = Nenhum THEN Nenhum
                    ELSE linhas[Destinatario(p.tabela)][p.quem].email
           q == [p EXCEPT !.para = email]
<1>1. fase[s] = "destinatario"
  BY DEF LerDestinatario
<1>2. p \in Pedido /\ AvisoBom(p)
  BY <1>1 DEF RegistrosInv, TypeOK, AvisosInv, Pendentes
<1>3. email \in Emails \cup {Nenhum}
  <2>1. Conhecido(p.tabela, p.quem) /\ p.tabela \in Tabelas
    BY <1>2 DEF AvisoBom, ComAviso, Tabelas
  <2>2. linhas[Destinatario(p.tabela)][p.quem] \in Linha
    BY <2>1, ColunasGravadas DEF Conhecido, Existe, RegistrosInv, TypeOK
  <2>3. QED BY <2>2 DEF Linha
<1>4. /\ q \in Pedido /\ q.tabela = p.tabela /\ q.id = p.id /\ q.versao = p.versao
      /\ q.quem = p.quem /\ q.dados = p.dados
  BY <1>2, <1>3 DEF Pedido
<1>5. AvisoBom(q)
  BY <1>2, <1>4 DEF AvisoBom
<1>6. /\ pedido' = [pedido EXCEPT ![s] = q]
      /\ fase' = [fase EXCEPT ![s] = IF email = Nenhum THEN "responder" ELSE "enviar"]
      /\ UNCHANGED <<fixo, linhas, versao, historia>> /\ UNCHANGED <<tela, restantes>>
  BY <1>2 DEF LerDestinatario, Pedido
<1>7. pedido' \in [Sessoes -> Pedido \cup {Nenhum}] /\ pedido'[s] = q
  BY <1>4, <1>6 DEF RegistrosInv, TypeOK
<1>8. fase' \in [Sessoes -> Fases] /\ fase'[s] # "gravar"
  BY <1>6 DEF RegistrosInv, TypeOK, Fases
<1>9. \A r \in Sessoes \ {s} : fase'[r] = fase[r] /\ pedido'[r] = pedido[r]
  BY <1>6 DEF RegistrosInv, TypeOK
<1>10. tela'[s] # Nenhum => FormBom(tela'[s])
  BY <1>6 DEF RegistrosInv, FormInv
<1>11. QED
  BY <1>4, <1>5, <1>6, <1>7, <1>8, <1>9, <1>10, PassoSemGravar DEF RegistrosInv, TypeOK

\* A finished service is read to be mailed again, as it is.
LEMMA PassoLerServico ==
  ASSUME RegistrosInv, NEW s \in Sessoes, NEW i \in Ids, LerServico(s, i)
  PROVE  RegistrosInv'
<1> DEFINE l == linhas["manutencoes"][i]
           q == [tabela |-> "manutencoes", id |-> i, versao |-> versao["manutencoes"][i],
                 quem |-> l.quem, dados |-> l.dados, para |-> linhas["clientes"][l.quem].email]
<1>0. pedido' = [pedido EXCEPT ![s] = q]
  BY DEF LerServico
<1>1. /\ fase' = [fase EXCEPT ![s] = IF pedido'[s].para = Nenhum THEN "responder" ELSE "reenviar"]
      /\ tela' = [tela EXCEPT ![s] = Nenhum]
      /\ Existe("manutencoes", i)
      /\ UNCHANGED <<fixo, linhas, versao, historia>> /\ UNCHANGED restantes
  BY DEF LerServico
<1>2. "manutencoes" \in ComAviso /\ "manutencoes" \in Tabelas /\ "clientes" \in Tabelas
  BY DEF ComAviso, Tabelas
<1>3. l \in Linha
  BY <1>1, <1>2 DEF Existe, RegistrosInv, TypeOK
<1>4. Conhecido("manutencoes", l.quem)
  BY <1>1, <1>2 DEF RegistrosInv, QuemInv
<1>5. l.quem \in Ids /\ linhas["clientes"][l.quem] \in Linha
  BY <1>2, <1>4 DEF Conhecido, Destinatario, Existe, RegistrosInv, TypeOK
<1>6. versao["manutencoes"][i] \in Nat /\ versao["manutencoes"][i] # 0
  BY <1>1, <1>2 DEF Existe, RegistrosInv, TypeOK
<1>7. q \in Pedido
  BY <1>2, <1>3, <1>5, <1>6 DEF Pedido, Linha
<1>8. AvisoBom(q)
  BY <1>1, <1>2, <1>4, <1>6 DEF AvisoBom
<1>9. /\ pedido' \in [Sessoes -> Pedido \cup {Nenhum}] /\ pedido'[s] = q
      /\ tela' \in [Sessoes -> Formulario \cup {Nenhum}] /\ tela'[s] = Nenhum
  BY <1>0, <1>1, <1>7 DEF RegistrosInv, TypeOK
<1>10. fase' \in [Sessoes -> Fases] /\ fase'[s] # "gravar"
  BY <1>1 DEF RegistrosInv, TypeOK, Fases
<1>11. \A r \in Sessoes \ {s} :
         tela'[r] = tela[r] /\ fase'[r] = fase[r] /\ pedido'[r] = pedido[r]
  BY <1>0, <1>1 DEF RegistrosInv, TypeOK
<1>12. pedido'[s] \in Pedido /\ AvisoBom(pedido'[s])
  BY <1>7, <1>8, <1>9
<1> HIDE DEF q, l
<1>13. QED
  BY <1>1, <1>9, <1>10, <1>11, <1>12, PassoSemGravar DEF RegistrosInv, TypeOK

-----------------------------------------------------------------------------
(* The mail and the statement. *)

\* A mail goes out, or is lost, and its request has only to answer.
LEMMA PassoEntregar ==
  ASSUME RegistrosInv, NEW s \in Sessoes, Enviar(s) \/ Reenviar(s)
  PROVE  RegistrosInv'
<1> DEFINE p == pedido[s]
           t == p.tabela
           i == p.id
           a == [versao |-> p.versao, quem |-> p.quem, dados |-> p.dados]
<1>1. /\ Entregar(s) \/ UNCHANGED <<avisado, calado>>
      /\ fase' = [fase EXCEPT ![s] = "responder"]
      /\ pedido' = [pedido EXCEPT ![s] = Nenhum]
      /\ UNCHANGED <<fixo, linhas, versao, tela, paralelo, restantes>>
      /\ fase[s] \in Pendentes
  BY DEF Enviar, Reenviar, Pendentes
<1>2. p \in Pedido /\ AvisoBom(p)
  BY <1>1 DEF RegistrosInv, AvisosInv
<1>3. t \in Tabelas /\ i \in Ids
  BY <1>2 DEF AvisoBom, ComAviso, Tabelas
<1>4. a \in Aviso
  BY <1>2 DEF Pedido, Aviso
<1>5. UNCHANGED <<paginas, banco, linhas, versao, tela, paralelo, restantes>>
  BY <1>1 DEF fixo
<1>6. \/ UNCHANGED <<avisado, calado>>
      \/ /\ avisado' = [avisado EXCEPT ![t][i] = a]
         /\ calado' = [calado EXCEPT ![t][i] = @ /\ p.versao # versao[t][i]]
  BY <1>1 DEF Entregar
<1>7. TypeOK'
  <2>1. avisado' \in [Tabelas -> [Ids -> Aviso \cup {Nenhum}]]
    <3>1. avisado' = avisado \/ avisado' = [avisado EXCEPT ![t][i] = a]
      BY <1>6
    <3>2. avisado \in [Tabelas -> [Ids -> Aviso \cup {Nenhum}]]
      BY DEF RegistrosInv, TypeOK
    <3> HIDE DEF a, t, i
    <3>3. QED BY <1>3, <1>4, <3>1, <3>2
  <2>2. calado' \in [Tabelas -> [Ids -> BOOLEAN]]
    <3> DEFINE k == calado[t][i] /\ p.versao # versao[t][i]
    <3>1. k \in BOOLEAN
      BY Zenon
    <3>2. calado' = calado \/ calado' = [calado EXCEPT ![t][i] = k]
      BY <1>6
    <3>3. calado \in [Tabelas -> [Ids -> BOOLEAN]]
      BY DEF RegistrosInv, TypeOK
    <3> HIDE DEF k
    <3>4. QED BY <1>3, <3>1, <3>2, <3>3
  <2>3. fase' \in [Sessoes -> Fases] /\ pedido' \in [Sessoes -> Pedido \cup {Nenhum}]
    BY <1>1 DEF RegistrosInv, TypeOK, Fases
  <2>4. QED BY <1>5, <2>1, <2>2, <2>3 DEF RegistrosInv, TypeOK
<1>8. PrimeiroInv' /\ QuemInv' /\ SolicitacaoEncontrada'
  BY <1>5 DEF RegistrosInv, PrimeiroInv, QuemInv, Conhecido, Existe, SolicitacaoEncontrada
<1>9. \A r \in Sessoes : /\ fase'[r] = "gravar" => fase[r] = "gravar"
                         /\ fase'[r] \in Pendentes => fase[r] \in Pendentes /\ pedido'[r] = pedido[r]
  BY <1>1 DEF RegistrosInv, TypeOK, Pendentes
<1>10. FormInv'
  BY <1>5, <1>9 DEF RegistrosInv, FormInv, FormBom, Conhecido, Existe
<1>11. AvisosInv'
  BY <1>5, <1>9 DEF RegistrosInv, AvisosInv, AvisoBom, Conhecido, Existe
<1>12. ASSUME NEW u \in Tabelas, NEW j \in Ids, u # t \/ j # i
       PROVE  avisado'[u][j] = avisado[u][j] /\ calado'[u][j] = calado[u][j]
  BY <1>3, <1>6, <1>12 DEF RegistrosInv, TypeOK
<1>13. \/ avisado'[t][i] = avisado[t][i] /\ calado'[t][i] = calado[t][i]
       \/ avisado'[t][i] = a
  BY <1>3, <1>6 DEF RegistrosInv, TypeOK
<1>14. AvisoDoGravado'
  <2> SUFFICES ASSUME NEW u \in Tabelas, NEW j \in Ids, avisado'[u][j] # Nenhum
               PROVE  LET b == avisado'[u][j] IN
                        /\ b.versao \in 1..versao[u][j]
                        /\ b.versao = versao[u][j] =>
                             b.quem = linhas[u][j].quem /\ b.dados = linhas[u][j].dados
    BY <1>5 DEF AvisoDoGravado
  <2>1. CASE avisado'[u][j] = avisado[u][j]
    BY <2>1 DEF RegistrosInv, AvisoDoGravado
  <2>2. CASE u = t /\ j = i /\ avisado'[t][i] = a
    BY <1>2, <2>2 DEF AvisoBom
  <2>3. QED BY <1>12, <1>13, <2>1, <2>2
<1>15. UltimoAvisoVale'
  <2> SUFFICES ASSUME NEW u \in Tabelas, NEW j \in Ids,
                      Existe(u, j), ~calado'[u][j], ~paralelo[u][j]
               PROVE  avisado'[u][j] = [versao |-> versao[u][j], quem |-> linhas[u][j].quem,
                                        dados |-> linhas[u][j].dados]
    BY <1>5 DEF UltimoAvisoVale, Existe
  <2>1. CASE avisado'[u][j] = avisado[u][j] /\ calado'[u][j] = calado[u][j]
    BY <2>1 DEF RegistrosInv, UltimoAvisoVale
  <2>2. CASE u = t /\ j = i /\ avisado'[t][i] = a
    BY <1>2, <2>2 DEF AvisoBom
  <2>3. QED BY <1>12, <1>13, <2>1, <2>2
<1>16. QED BY <1>7, <1>8, <1>10, <1>11, <1>14, <1>15 DEF RegistrosInv

\* What the statement of s does: which row it writes, and what it leaves there.
LEMMA OQueGrava ==
  ASSUME RegistrosInv, NEW s \in Sessoes, fase[s] = "gravar", Executar(s)
  PROVE  /\ tela[s] \in Formulario /\ tela[s].tabela \in Tabelas /\ FormBom(tela[s])
         /\ \E i \in Ids, nova \in Linha :
              /\ GravarLinha(s, i, nova)
              /\ pedido' = [pedido EXCEPT ![s] = PorAvisar(s, i)]
              /\ tela[s].id = Nenhum => ~Existe(tela[s].tabela, i)
              /\ tela[s].id # Nenhum =>
                   i = tela[s].id /\ nova = Escrita(tela[s], linhas[tela[s].tabela][i])
              /\ \A c \in Gravadas(tela[s].tabela) : nova[c] = tela[s].valores[c]
<1> DEFINE f == tela[s]
           t == f.tabela
           i == IF f.id # Nenhum THEN f.id ELSE Novo(t)
           antes == IF f.id # Nenhum THEN linhas[t][i] ELSE LinhaNova(t)
           nova == Escrita(f, antes)
<1>1. f \in Formulario /\ FormBom(f)
  BY DEF RegistrosInv, TypeOK, FormInv
<1>2. t \in Tabelas /\ f.id \in Ids \cup {Nenhum} /\ f.valores \in Linha
  BY <1>1 DEF Formulario
<1>3. i \in Ids /\ (f.id = Nenhum => ~Existe(t, i))
  BY <1>2, NovoLivre DEF Executar
<1>4. /\ antes["email"] \in Emails \cup {Nenhum} /\ antes["quem"] \in Ids \cup {Nenhum}
      /\ antes["status"] \in Status \cup {Nenhum}
  <2>1. CASE f.id # Nenhum
    <3>1. linhas[t][i] \in Linha
      BY <1>1, <1>2, <1>3, <2>1 DEF FormBom, Existe, RegistrosInv, TypeOK
    <3>2. QED BY <2>1, <3>1, ColunasDeLinha
  <2>2. CASE f.id = Nenhum
    <3>1. antes = LinhaNova(t)
      BY <2>2
    <3>2. /\ LinhaNova(t)["email"] = Nenhum /\ LinhaNova(t)["quem"] = Nenhum
          /\ LinhaNova(t)["status"] \in {"Agendada", Nenhum}
      BY DEF LinhaNova, Colunas, Padrao
    <3> HIDE DEF antes
    <3>3. QED BY <3>1, <3>2, PalavrasDeStatus
  <2>3. QED BY <2>1, <2>2
<1>5. nova \in Linha
  <2> HIDE DEF antes
  <2>1. QED BY <1>1, <1>4, EscritaLinha
<1>6. \A c \in Gravadas(t) : nova[c] = f.valores[c]
  BY <1>2, ColunasGravadas DEF Escrita
<1>7. GravarLinha(s, i, nova) /\ pedido' = [pedido EXCEPT ![s] = PorAvisar(s, i)]
  BY DEF Executar
<1>8. f.id # Nenhum => i = f.id /\ nova = Escrita(f, linhas[t][i])
  OBVIOUS
<1> HIDE DEF i, nova
<1>9. QED BY <1>1, <1>2, <1>3, <1>5, <1>6, <1>7, <1>8

\* Row by row, what GravarLinha leaves.
LEMMA OndeGrava ==
  ASSUME TypeOK, NEW s \in Sessoes, NEW i \in Ids, NEW nova \in Linha,
         tela[s].tabela \in Tabelas, GravarLinha(s, i, nova)
  PROVE  LET t == tela[s].tabela IN
         /\ linhas'[t][i] = nova /\ nova # Nenhum
         /\ versao'[t][i] = versao[t][i] + 1 /\ calado'[t][i]
         /\ AvisoPorSair(s, t, i) => paralelo'[t][i]
         /\ \A u \in Tabelas, j \in Ids : u # t \/ j # i =>
              /\ linhas'[u][j] = linhas[u][j] /\ versao'[u][j] = versao[u][j]
              /\ calado'[u][j] = calado[u][j] /\ paralelo'[u][j] = paralelo[u][j]
         /\ linhas' \in [Tabelas -> [Ids -> Linha \cup {Nenhum}]]
         /\ versao' \in [Tabelas -> [Ids -> Nat]]
         /\ calado' \in [Tabelas -> [Ids -> BOOLEAN]]
         /\ paralelo' \in [Tabelas -> [Ids -> BOOLEAN]]
<1> DEFINE t == tela[s].tabela
           k == paralelo[t][i] \/ AvisoPorSair(s, t, i)
<1>1. /\ linhas' = [linhas EXCEPT ![t][i] = nova]
      /\ versao' = [versao EXCEPT ![t][i] = @ + 1]
      /\ calado' = [calado EXCEPT ![t][i] = TRUE]
      /\ paralelo' = [paralelo EXCEPT ![t][i] = k]
  BY DEF GravarLinha
<1>2. k \in BOOLEAN /\ (AvisoPorSair(s, t, i) => k)
  BY Zenon
<1>3. nova # Nenhum
  BY ColunasDeLinha
<1> HIDE DEF k, t
<1>4. t \in Tabelas
  BY DEF t
<1>5. /\ linhas'[t][i] = nova
      /\ linhas' \in [Tabelas -> [Ids -> Linha \cup {Nenhum}]]
      /\ \A u \in Tabelas, j \in Ids : u # t \/ j # i => linhas'[u][j] = linhas[u][j]
  BY <1>1, <1>4 DEF TypeOK
<1>6. /\ versao'[t][i] = versao[t][i] + 1
      /\ versao' \in [Tabelas -> [Ids -> Nat]]
      /\ \A u \in Tabelas, j \in Ids : u # t \/ j # i => versao'[u][j] = versao[u][j]
  BY <1>1, <1>4 DEF TypeOK
<1>7. /\ calado'[t][i]
      /\ calado' \in [Tabelas -> [Ids -> BOOLEAN]]
      /\ \A u \in Tabelas, j \in Ids : u # t \/ j # i => calado'[u][j] = calado[u][j]
  BY <1>1, <1>4 DEF TypeOK
<1>8. /\ paralelo'[t][i] = k
      /\ paralelo' \in [Tabelas -> [Ids -> BOOLEAN]]
      /\ \A u \in Tabelas, j \in Ids : u # t \/ j # i => paralelo'[u][j] = paralelo[u][j]
  BY <1>1, <1>2, <1>4 DEF TypeOK
<1>9. QED BY <1>2, <1>3, <1>5, <1>6, <1>7, <1>8 DEF t

\* The statement of a request, and the notice it leaves for later.
LEMMA PassoExecutar ==
  ASSUME RegistrosInv, NEW s \in Sessoes, fase[s] = "gravar", Executar(s),
         ~Rejeitada(tela[s].tabela, tela[s].valores),
         UNCHANGED <<fixo, tela, avisado, restantes>>
  PROVE  RegistrosInv'
<1> DEFINE f == tela[s]
           t == f.tabela
<1>1. f \in Formulario /\ t \in Tabelas /\ FormBom(f) /\ f.valores \in Linha
  BY OQueGrava DEF Formulario
<1>2. PICK i \in Ids, nova \in Linha :
        /\ GravarLinha(s, i, nova)
        /\ pedido' = [pedido EXCEPT ![s] = PorAvisar(s, i)]
        /\ \A c \in Gravadas(t) : nova[c] = f.valores[c]
  BY OQueGrava
<1>3. /\ linhas'[t][i] = nova /\ nova # Nenhum
      /\ versao'[t][i] = versao[t][i] + 1 /\ calado'[t][i]
      /\ AvisoPorSair(s, t, i) => paralelo'[t][i]
      /\ \A u \in Tabelas, j \in Ids : u # t \/ j # i =>
           /\ linhas'[u][j] = linhas[u][j] /\ versao'[u][j] = versao[u][j]
           /\ calado'[u][j] = calado[u][j] /\ paralelo'[u][j] = paralelo[u][j]
      /\ linhas' \in [Tabelas -> [Ids -> Linha \cup {Nenhum}]]
      /\ versao' \in [Tabelas -> [Ids -> Nat]]
      /\ calado' \in [Tabelas -> [Ids -> BOOLEAN]]
      /\ paralelo' \in [Tabelas -> [Ids -> BOOLEAN]]
  BY <1>1, <1>2, OndeGrava DEF RegistrosInv
<1>4. /\ fase' = [fase EXCEPT ![s] = IF t \in ComAviso THEN "destinatario" ELSE "responder"]
      /\ UNCHANGED <<paginas, banco, tela, avisado, restantes>>
  BY <1>2, Zenon DEF GravarLinha, fixo, Avisa, ComAviso
<1>5. \A u \in Tabelas, j \in Ids : versao[u][j] \in Nat /\ ((versao[u][j] = 0) <=> (linhas[u][j] = Nenhum))
  BY DEF RegistrosInv, TypeOK
<1>6. \A u \in Tabelas, j \in Ids : Existe(u, j) => Existe(u, j)'
  BY <1>3 DEF Existe
<1>7. \A u \in ComAviso : \A q : Conhecido(u, q) => Conhecido(u, q)'
  <2>1. \A u \in ComAviso : u \in Tabelas /\ Destinatario(u) \in Tabelas
    BY ColunasGravadas DEF ComAviso, Tabelas
  <2>2. QED BY <1>6, <2>1 DEF Conhecido
<1>8. t \in ComAviso => nova.quem = f.valores.quem /\ nova.dados = f.valores.dados
  BY <1>1, <1>2, ColunasGravadas
<1>9. PorAvisar(s, i) \in Pedido
  BY <1>1, <1>5 DEF PorAvisar, Pedido, Linha
<1>10. TypeOK'
  <2>1. fase' \in [Sessoes -> Fases] /\ pedido' \in [Sessoes -> Pedido \cup {Nenhum}]
    BY <1>2, <1>4, <1>9 DEF RegistrosInv, TypeOK, Fases
  <2>2. ASSUME NEW u \in Tabelas, NEW j \in Ids
        PROVE  (versao'[u][j] = 0) <=> (linhas'[u][j] = Nenhum)
    <3>1. CASE u = t /\ j = i
      <4>1. versao'[t][i] # 0 /\ linhas'[t][i] # Nenhum
        BY <1>1, <1>3, <1>5
      <4>2. QED BY <3>1, <4>1
    <3>2. CASE u # t \/ j # i
      <4>1. versao'[u][j] = versao[u][j] /\ linhas'[u][j] = linhas[u][j]
        BY <1>3, <3>2
      <4>2. (versao[u][j] = 0) <=> (linhas[u][j] = Nenhum)
        BY <1>5
      <4>3. QED BY <4>1, <4>2
    <3>3. QED BY <3>1, <3>2
  <2>3. QED BY <1>3, <1>4, <2>1, <2>2 DEF RegistrosInv, TypeOK
<1>11. PrimeiroInv'
  BY <1>6, RegistrosConstantes DEF RegistrosInv, PrimeiroInv, Tabelas, Ids
<1>12. QuemInv'
  <2> SUFFICES ASSUME NEW u \in ComAviso, NEW j \in Ids, Existe(u, j)'
               PROVE  Conhecido(u, linhas[u][j].quem)'
    BY DEF QuemInv
  <2>1. u \in Tabelas
    BY DEF ComAviso, Tabelas
  <2>2. CASE u = t /\ j = i
    <3>1. Conhecido(t, f.valores.quem)'
      BY <1>1, <1>4, <1>7, <2>2 DEF FormBom
    <3>2. linhas'[u][j].quem = f.valores.quem
      BY <1>3, <1>8, <2>2
    <3>3. QED BY <1>4, <2>2, <3>1, <3>2 DEF Conhecido
  <2>3. CASE u # t \/ j # i
    <3>1. linhas'[u][j] = linhas[u][j]
      BY <1>3, <2>1, <2>3
    <3>2. Conhecido(u, linhas[u][j].quem)
      BY <3>1 DEF RegistrosInv, QuemInv, Existe
    <3>3. PICK q \in Ids : q = linhas[u][j].quem /\ Conhecido(u, q)
      BY <3>2 DEF Conhecido
    <3>4. Conhecido(u, q)'
      BY <1>7, <3>3
    <3>5. QED BY <3>1, <3>3, <3>4
  <2>4. QED BY <2>2, <2>3
<1>13. FormInv'
  <2> SUFFICES ASSUME NEW r \in Sessoes
               PROVE  /\ tela'[r] # Nenhum => FormBom(tela[r])'
                      /\ fase'[r] = "gravar" => tela'[r] # Nenhum
    BY DEF FormInv
  <2>1. fase'[r] = "gravar" => tela'[r] # Nenhum
    BY <1>4 DEF RegistrosInv, TypeOK, FormInv
  <2>2. ASSUME tela[r] # Nenhum PROVE FormBom(tela[r])'
    <3> DEFINE g == tela[r]
    <3>1. g \in Formulario /\ FormBom(g) /\ g.tabela \in Tabelas
      BY <2>2 DEF RegistrosInv, TypeOK, FormInv, Formulario
    <3>2. g.tabela \in ComAviso => Conhecido(g.tabela, g.valores.quem)'
      BY <1>7, <3>1 DEF FormBom
    <3>3. ASSUME g.id # Nenhum
          PROVE  /\ Existe(g.tabela, g.id)'
                 /\ g.versao \in 1..versao'[g.tabela][g.id]
                 /\ g.versao = versao'[g.tabela][g.id] =>
                      \A c \in Gravadas(g.tabela) \ {g.mudou} :
                        g.valores[c] = Mostrada(g.tabela, c, linhas'[g.tabela][g.id][c])
      <4>1. g.id \in Ids /\ Existe(g.tabela, g.id) /\ g.versao \in 1..versao[g.tabela][g.id]
        BY <3>1, <3>3 DEF Formulario, FormBom
      <4>2. CASE g.tabela = t /\ g.id = i
        BY <1>3, <1>5, <1>6, <3>1, <4>1, <4>2
      <4>3. CASE g.tabela # t \/ g.id # i
        BY <1>3, <1>6, <3>1, <3>3, <4>1, <4>3 DEF FormBom
      <4>4. QED BY <4>2, <4>3
    <3>4. QED BY <1>4, <3>1, <3>2, <3>3 DEF FormBom
  <2>3. QED BY <1>4, <2>1, <2>2
<1>14. AvisosInv'
  <2> SUFFICES ASSUME NEW r \in Sessoes, fase'[r] \in Pendentes
               PROVE  pedido'[r] \in Pedido /\ AvisoBom(pedido[r])'
    BY DEF AvisosInv
  <2>1. CASE r = s
    <3>1. t \in ComAviso
      BY <1>4, <2>1 DEF RegistrosInv, TypeOK, Pendentes
    <3>2. pedido'[r] = PorAvisar(s, i)
      BY <1>2, <2>1 DEF RegistrosInv, TypeOK
    <3>3. /\ PorAvisar(s, i).tabela = t /\ PorAvisar(s, i).id = i
          /\ PorAvisar(s, i).versao = versao'[t][i]
          /\ PorAvisar(s, i).quem = nova.quem /\ PorAvisar(s, i).dados = nova.dados
      BY <1>3, <1>8, <3>1 DEF PorAvisar
    <3>4. Conhecido(t, nova.quem)' /\ Existe(t, i)' /\ versao'[t][i] \in 1..versao'[t][i]
      BY <1>1, <1>3, <1>5, <1>7, <1>8, <3>1 DEF FormBom, Existe
    <3>5. QED BY <1>3, <1>9, <3>1, <3>2, <3>3, <3>4 DEF AvisoBom
  <2>2. CASE r # s
    <3> DEFINE p == pedido[r]
    <3>1. fase[r] \in Pendentes /\ pedido'[r] = p
      BY <1>2, <1>4, <2>2 DEF RegistrosInv, TypeOK
    <3>2. p \in Pedido /\ AvisoBom(p)
      BY <3>1 DEF RegistrosInv, AvisosInv
    <3>3. p.tabela \in ComAviso /\ p.tabela \in Tabelas /\ p.id \in Ids
      BY <3>2 DEF AvisoBom, ComAviso, Tabelas
    <3>4. Conhecido(p.tabela, p.quem)' /\ Existe(p.tabela, p.id)'
      <4>1. PICK u \in ComAviso, j \in Ids, q \in Ids :
              /\ u = p.tabela /\ j = p.id /\ q = p.quem
              /\ Conhecido(u, q) /\ Existe(u, j)
        BY <3>2, <3>3 DEF AvisoBom, Conhecido
      <4>2. Conhecido(u, q)' /\ Existe(u, j)'
        BY <1>6, <1>7, <3>3, <4>1
      <4>3. QED BY <3>1, <4>1, <4>2
    <3>5. CASE p.tabela = t /\ p.id = i
      <4>1. AvisoPorSair(s, t, i)
        BY <2>2, <3>1, <3>5 DEF AvisoPorSair, Pendentes
      <4>2. paralelo'[p.tabela][p.id]
        BY <1>3, <3>5, <4>1
      <4>3. p.versao \in 1..versao'[p.tabela][p.id] /\ p.versao # versao'[p.tabela][p.id]
        BY <1>1, <1>3, <1>5, <3>2, <3>5 DEF AvisoBom
      <4>4. QED BY <3>1, <3>2, <3>3, <3>4, <4>2, <4>3 DEF AvisoBom
    <3>6. CASE p.tabela # t \/ p.id # i
      BY <1>3, <3>1, <3>2, <3>3, <3>4, <3>6 DEF AvisoBom
    <3>7. QED BY <3>5, <3>6
  <2>3. QED BY <2>1, <2>2
<1>15. AvisoDoGravado'
  <2> SUFFICES ASSUME NEW u \in Tabelas, NEW j \in Ids, avisado[u][j] # Nenhum
               PROVE  LET b == avisado[u][j] IN
                        /\ b.versao \in 1..versao'[u][j]
                        /\ b.versao = versao'[u][j] =>
                             b.quem = linhas'[u][j].quem /\ b.dados = linhas'[u][j].dados
    BY <1>4 DEF AvisoDoGravado
  <2>1. CASE u = t /\ j = i
    <3>1. avisado[u][j].versao \in 1..versao[u][j] /\ versao[u][j] \in Nat
      BY <1>5 DEF RegistrosInv, AvisoDoGravado
    <3>2. versao'[u][j] = versao[u][j] + 1
      BY <1>3, <2>1
    <3>3. avisado[u][j].versao \in 1..versao'[u][j] /\ avisado[u][j].versao # versao'[u][j]
      BY <3>1, <3>2
    <3>4. QED BY <3>3
  <2>2. CASE u # t \/ j # i
    <3>1. linhas'[u][j] = linhas[u][j] /\ versao'[u][j] = versao[u][j]
      BY <1>3, <2>2
    <3>2. QED BY <3>1 DEF RegistrosInv, AvisoDoGravado
  <2>3. QED BY <2>1, <2>2
<1>16. UltimoAvisoVale'
  <2> SUFFICES ASSUME NEW u \in Tabelas, NEW j \in Ids,
                      Existe(u, j)', ~calado'[u][j], ~paralelo'[u][j]
               PROVE  avisado[u][j] = [versao |-> versao'[u][j], quem |-> linhas'[u][j].quem,
                                       dados |-> linhas'[u][j].dados]
    BY <1>4 DEF UltimoAvisoVale
  <2>1. u # t \/ j # i
    BY <1>3
  <2>2. /\ linhas'[u][j] = linhas[u][j] /\ versao'[u][j] = versao[u][j]
        /\ ~calado[u][j] /\ ~paralelo[u][j]
    BY <1>3, <2>1
  <2>3. QED BY <2>2 DEF RegistrosInv, UltimoAvisoVale, Existe
<1>17. SolicitacaoEncontrada'
  <2> SUFFICES ASSUME NEW j \in Ids, linhas'["solicitacoes"][j] # Nenhum
               PROVE  \/ /\ Encontrada(linhas'["solicitacoes"][j])
                         /\ banco = "mysql" => linhas'["solicitacoes"][j].status # "Atendido"
                      \/ /\ linhas'["solicitacoes"][j].status = "Atendida"
                         /\ versao'["solicitacoes"][j] = 1
    BY <1>4 DEF SolicitacaoEncontrada, Encontrada
  <2>1. CASE t = "solicitacoes" /\ j = i
    <3>1. nova.status = f.valores.status /\ f.valores.status \in OpcoesStatus
      BY <1>1, <1>2, <2>1, ColunasGravadas DEF FormBom
    <3>2. banco = "mysql" => f.valores.status # "Atendido"
      BY <2>1 DEF Rejeitada, Enum
    <3>3. QED BY <1>3, <2>1, <3>1, <3>2 DEF Encontrada, OpcoesStatus, OpcoesFiltro
  <2>2. CASE t # "solicitacoes" \/ j # i
    BY <1>3, <2>2 DEF RegistrosInv, SolicitacaoEncontrada, Encontrada, Tabelas
  <2>3. QED BY <2>1, <2>2
<1>18. QED
  BY <1>10, <1>11, <1>12, <1>13, <1>14, <1>15, <1>16, <1>17 DEF RegistrosInv

-----------------------------------------------------------------------------
(* The invariant. *)

\* The rows that are there from the start.
LEMMA LinhasDeInicio ==
  ASSUME Init
  PROVE  /\ linhas \in [Tabelas -> [Ids -> Linha \cup {Nenhum}]]
         /\ PrimeiroInv /\ QuemInv
         /\ \A i \in Ids : linhas["solicitacoes"][i] # Nenhum =>
              linhas["solicitacoes"][i].status \in {"Pendente", "Atendida"}
<1>1. PICK d \in Dados, e \in Emails, p \in {"Pendente", "Atendida"} :
        linhas = [t \in Tabelas |-> [i \in Ids |->
          CASE t = "clientes" /\ i = 1     -> LinhaDe(e, Nenhum, d, Nenhum)
            [] t = "clientes" /\ i = 2     -> LinhaDe(Nenhum, Nenhum, d, Nenhum)
            [] t = "fornecedores" /\ i = 1 -> LinhaDe(e, Nenhum, d, Nenhum)
            [] t = "manutencoes" /\ i = 1  -> LinhaDe(Nenhum, 1, d, "Concluida")
            [] t = "solicitacoes" /\ i = 1 -> LinhaDe(Nenhum, 1, d, p)
            [] OTHER -> Nenhum]]
  BY DEF Init
<1> DEFINE L(t, i) ==
          CASE t = "clientes" /\ i = 1     -> LinhaDe(e, Nenhum, d, Nenhum)
            [] t = "clientes" /\ i = 2     -> LinhaDe(Nenhum, Nenhum, d, Nenhum)
            [] t = "fornecedores" /\ i = 1 -> LinhaDe(e, Nenhum, d, Nenhum)
            [] t = "manutencoes" /\ i = 1  -> LinhaDe(Nenhum, 1, d, "Concluida")
            [] t = "solicitacoes" /\ i = 1 -> LinhaDe(Nenhum, 1, d, p)
            [] OTHER -> Nenhum
<1>2. linhas = [t \in Tabelas |-> [i \in Ids |-> L(t, i)]]
  BY <1>1
<1>3. 1 \in Ids /\ Ids \subseteq Nat
  BY RegistrosConstantes DEF Ids
<1>4. /\ "Concluida" \in Status /\ p \in Status
      /\ LinhaDe(e, Nenhum, d, Nenhum) \in Linha
      /\ LinhaDe(Nenhum, Nenhum, d, Nenhum) \in Linha
      /\ LinhaDe(Nenhum, 1, d, "Concluida") \in Linha
      /\ LinhaDe(Nenhum, 1, d, p) \in Linha
  <2>1. "Concluida" \in Status /\ p \in Status
    BY DEF Status, Enum
  <2>2. QED BY <1>3, <2>1 DEF LinhaDe, Linha
<1>5. ASSUME NEW t \in Tabelas, NEW i \in Ids
      PROVE  /\ L(t, i) \in Linha \cup {Nenhum}
             /\ t \in ComAviso /\ L(t, i) # Nenhum => L(t, i).quem = 1
             /\ t = "solicitacoes" /\ L(t, i) # Nenhum => L(t, i).status \in {"Pendente", "Atendida"}
  <2>1. CASE t \notin ComAviso
    BY <1>4, <2>1, <1>5 DEF ComAviso
  <2>2. CASE t = "manutencoes"
    <3>1. L(t, i) \in {LinhaDe(Nenhum, 1, d, "Concluida"), Nenhum}
      BY <2>2
    <3> HIDE DEF L
    <3>2. QED BY <1>4, <2>2, <3>1 DEF LinhaDe
  <2>3. CASE t = "solicitacoes"
    <3>1. L(t, i) \in {LinhaDe(Nenhum, 1, d, p), Nenhum}
      BY <2>3
    <3> HIDE DEF L
    <3>2. QED BY <1>4, <2>3, <3>1 DEF LinhaDe
  <2>4. QED BY <2>1, <2>2, <2>3 DEF ComAviso
<1>6. L("clientes", 1) # Nenhum /\ L("fornecedores", 1) # Nenhum
  BY <1>4, ColunasDeLinha
<1> HIDE DEF L
<1>7. \A t \in Tabelas, i \in Ids : linhas[t][i] = L(t, i)
  BY <1>2
<1>8. linhas \in [Tabelas -> [Ids -> Linha \cup {Nenhum}]]
  BY <1>2, <1>5
<1>9. PrimeiroInv
  BY <1>3, <1>6, <1>7 DEF PrimeiroInv, Existe, Tabelas
<1>10. QuemInv
  <2>1. \A t \in ComAviso : t \in Tabelas /\ Destinatario(t) \in {"clientes", "fornecedores"}
    BY DEF ComAviso, Tabelas, Destinatario
  <2>2. QED BY <1>3, <1>5, <1>7, <1>9, <2>1 DEF QuemInv, Conhecido, PrimeiroInv, Existe
<1>11. "solicitacoes" \in Tabelas
  BY DEF Tabelas
<1>12. QED BY <1>5, <1>7, <1>8, <1>9, <1>10, <1>11

LEMMA Inicio == Init => RegistrosInv
<1> SUFFICES ASSUME Init PROVE RegistrosInv
  OBVIOUS
<1>1. \A t \in Tabelas, i \in Ids : versao[t][i] = IF Existe(t, i) THEN 1 ELSE 0
  BY DEF Init
<1>2. TypeOK
  <2>1. versao \in [Tabelas -> [Ids -> Nat]]
    BY DEF Init
  <2>2. \A t \in Tabelas, i \in Ids : (versao[t][i] = 0) <=> (linhas[t][i] = Nenhum)
    BY <1>1 DEF Existe
  <2>3. /\ fase \in [Sessoes -> Fases] /\ tela \in [Sessoes -> Formulario \cup {Nenhum}]
        /\ pedido \in [Sessoes -> Pedido \cup {Nenhum}]
        /\ avisado \in [Tabelas -> [Ids -> Aviso \cup {Nenhum}]]
        /\ calado \in [Tabelas -> [Ids -> BOOLEAN]] /\ paralelo \in [Tabelas -> [Ids -> BOOLEAN]]
    BY DEF Init, Fases
  <2>4. paginas \in Grupos /\ banco \in {"mysql", "sqlite"} /\ restantes \in 0..MaxPedidos
    BY RegistrosConstantes DEF Init
  <2>5. QED BY <2>1, <2>2, <2>3, <2>4, LinhasDeInicio DEF TypeOK
<1>3. FormInv /\ AvisosInv
  BY DEF Init, FormInv, AvisosInv, Pendentes
<1>4. AvisoDoGravado
  BY DEF Init, AvisoDoGravado
<1>5. UltimoAvisoVale
  BY DEF Init, UltimoAvisoVale
<1>6. SolicitacaoEncontrada
  <2> SUFFICES ASSUME NEW i \in Ids, linhas["solicitacoes"][i] # Nenhum
               PROVE  \/ /\ Encontrada(linhas["solicitacoes"][i])
                         /\ linhas["solicitacoes"][i].status # "Atendido"
                      \/ /\ linhas["solicitacoes"][i].status = "Atendida"
                         /\ versao["solicitacoes"][i] = 1
    BY DEF SolicitacaoEncontrada
  <2>1. linhas["solicitacoes"][i].status \in {"Pendente", "Atendida"}
    BY LinhasDeInicio
  <2>2. versao["solicitacoes"][i] = 1
    BY <1>1 DEF Existe, Tabelas
  <2>3. QED BY <2>1, <2>2 DEF Encontrada, OpcoesFiltro
<1>7. QED BY <1>2, <1>3, <1>4, <1>5, <1>6, LinhasDeInicio DEF RegistrosInv

\* Every step of the pages keeps it.
LEMMA Passo == RegistrosInv /\ [Next]_vars => RegistrosInv'
<1> SUFFICES ASSUME RegistrosInv, [Next]_vars PROVE RegistrosInv'
  OBVIOUS
<1>1. CASE UNCHANGED vars
  BY <1>1 DEF vars, RegistrosInv, TypeOK, PrimeiroInv, QuemInv, FormInv, FormBom, AvisosInv,
              AvisoBom, Conhecido, Existe, AvisoDoGravado, UltimoAvisoVale, SolicitacaoEncontrada
<1>2. CASE Next
  <2>1. PICK s \in Sessoes :
          \/ Andar(s)
          \/ Digitar(s) \/ Postar(s) \/ CliqueDuplo(s) \/ Abortar(s)
          \/ \E t \in paginas : Preencher(s, t) \/ \E i \in Ids : Carregar(s, t, i)
          \/ "manutencoes" \in paginas /\ \E i \in Ids : LerServico(s, i)
    BY <1>2 DEF Next
  <2>2. paginas \subseteq Tabelas
    BY RegistrosConstantes DEF RegistrosInv, TypeOK
  <2>3. CASE Gravar(s)
    <3>1. CASE Rejeitada(tela[s].tabela, tela[s].valores) /\ Falhar(s)
      BY <2>3, <3>1, PassoTerminar DEF Gravar, Falhar, fixo, historia
    <3>2. CASE /\ ~Rejeitada(tela[s].tabela, tela[s].valores)
               /\ Executar(s) /\ UNCHANGED avisado
      BY <2>3, <3>2, PassoExecutar DEF Gravar
    <3>3. QED BY <2>3, <3>1, <3>2 DEF Gravar
  <2>4. CASE LerDestinatario(s)
    BY <2>4, PassoLerDestinatario
  <2>5. CASE Enviar(s) \/ Reenviar(s)
    BY <2>5, PassoEntregar
  <2>6. CASE Redirecionar(s)
    BY <2>6, PassoTerminar DEF Redirecionar, fixo, historia
  <2>7. CASE Digitar(s)
    BY <2>7, PassoDigitar
  <2>8. CASE Postar(s) \/ CliqueDuplo(s)
    BY <2>8, PassoPostar
  <2>9. CASE Abortar(s)
    BY <2>9, PassoTerminar DEF Abortar, Falhar, fixo, historia
  <2>10. CASE \E t \in paginas : Preencher(s, t) \/ \E i \in Ids : Carregar(s, t, i)
    BY <2>2, <2>10, PassoPreencher, PassoCarregar
  <2>11. CASE \E i \in Ids : LerServico(s, i)
    BY <2>11, PassoLerServico
  <2>12. QED
    BY <2>1, <2>3, <2>4, <2>5, <2>6, <2>7, <2>8, <2>9, <2>10, <2>11 DEF Andar
<1>3. QED BY <1>1, <1>2

\* The invariant of the pages, from which the rest follows.
THEOREM Invariante == Spec => []RegistrosInv
<1>1. QED BY Inicio, Passo, PTL DEF Spec

-----------------------------------------------------------------------------
(* What it is for. *)

\* Rows, forms, requests and mails stay of their kinds, and a row that was saved is there.
THEOREM TypeCorrect == Spec => []TypeOK
<1>1. RegistrosInv => TypeOK
  BY DEF RegistrosInv
<1>2. QED BY <1>1, Invariante, PTL

\* clientes, fornecedores, manutencoes, solicitacoes: nobody is told what was not stored.
THEOREM AvisosSaoDoGravado == Spec => []AvisoDoGravado
<1>1. RegistrosInv => AvisoDoGravado
  BY DEF RegistrosInv
<1>2. QED BY <1>1, Invariante, PTL

\* The last mail about a row tells what the row says, but for overlapping requests.
THEOREM UltimoAvisoValeSempre == Spec => []UltimoAvisoVale
<1>1. RegistrosInv => UltimoAvisoVale
  BY DEF RegistrosInv
<1>2. QED BY <1>1, Invariante, PTL

\* A request that the page saved is found by one of its filters.
THEOREM FiltrosEncontram == Spec => []SolicitacaoEncontrada
<1>1. RegistrosInv => SolicitacaoEncontrada
  BY DEF RegistrosInv
<1>2. QED BY <1>1, Invariante, PTL

\* Editing a finished service in the agenda does not reopen it: status is not among the
\* columns of the form, and a new row takes an id that was free.
THEOREM ConcluidaFicaSempre == Spec => ConcluidaFica
<1> DEFINE A == \A i \in Ids :
       Existe("manutencoes", i) /\ linhas["manutencoes"][i].status = "Concluida"
         => linhas'["manutencoes"][i].status = "Concluida"
<1>1. RegistrosInv /\ [Next]_vars => [A]_vars
  <2> SUFFICES ASSUME RegistrosInv, Next, NEW i \in Ids,
                      Existe("manutencoes", i), linhas["manutencoes"][i].status = "Concluida"
               PROVE  linhas'["manutencoes"][i].status = "Concluida"
    OBVIOUS
  <2>1. CASE UNCHANGED linhas
    BY <2>1
  <2>2. CASE ~UNCHANGED linhas
    <3>1. PICK s \in Sessoes : fase[s] = "gravar" /\ Executar(s)
      BY <2>2 DEF Next, Andar, Gravar, Falhar, LerDestinatario, Enviar, Reenviar, Redirecionar,
                  Digitar, Postar, CliqueDuplo, Abortar, Preencher, Carregar, LerServico
    <3> DEFINE f == tela[s]
    <3>2. /\ f \in Formulario /\ f.tabela \in Tabelas
          /\ \E j \in Ids, nova \in Linha :
               /\ GravarLinha(s, j, nova)
               /\ f.id = Nenhum => ~Existe(f.tabela, j)
               /\ f.id # Nenhum => nova = Escrita(f, linhas[f.tabela][j])
      BY <3>1, OQueGrava
    <3>3. PICK j \in Ids, nova \in Linha :
               /\ GravarLinha(s, j, nova)
               /\ f.id = Nenhum => ~Existe(f.tabela, j)
               /\ f.id # Nenhum => nova = Escrita(f, linhas[f.tabela][j])
      BY <3>2
    <3>4. /\ linhas'[f.tabela][j] = nova
          /\ \A u \in Tabelas, k \in Ids : u # f.tabela \/ k # j => linhas'[u][k] = linhas[u][k]
      BY <3>2, <3>3, OndeGrava DEF RegistrosInv
    <3>5. CASE f.tabela = "manutencoes" /\ j = i
      <4>1. nova = Escrita(f, linhas["manutencoes"][i]) /\ "status" \notin Gravadas(f.tabela)
        BY <3>2, <3>3, <3>5, ColunasGravadas
      <4>2. nova["status"] = linhas["manutencoes"][i]["status"]
        BY <4>1 DEF Escrita, Colunas
      <4>3. QED BY <3>4, <3>5, <4>2
    <3>6. CASE f.tabela # "manutencoes" \/ j # i
      BY <3>4, <3>6 DEF Tabelas
    <3>7. QED BY <3>5, <3>6
  <2>3. QED BY <2>1, <2>2
<1>2. QED BY <1>1, Invariante, PTL DEF Spec, ConcluidaFica

\* A form that is up to date changes the field its user changed and no other, whatever
\* page it is of and whatever else goes on.
THEOREM SoOMudado == Spec => SoMudaOQueFoiMudado
<1> DEFINE A == \A s \in Sessoes :
       LET f == tela[s] IN
         Gravar(s) /\ f.id # Nenhum /\ f.versao = versao[f.tabela][f.id] =>
           \A c \in Colunas \ {f.mudou} :
             linhas'[f.tabela][f.id][c] \in
               {linhas[f.tabela][f.id][c],
                IF c = "status" /\ linhas[f.tabela][f.id][c] = "Atendida" THEN "Atendido"
                ELSE linhas[f.tabela][f.id][c]}
<1>1. RegistrosInv => A
  <2> SUFFICES ASSUME RegistrosInv, NEW s \in Sessoes, Gravar(s), tela[s].id # Nenhum,
                      tela[s].versao = versao[tela[s].tabela][tela[s].id],
                      NEW c \in Colunas \ {tela[s].mudou}
               PROVE  linhas'[tela[s].tabela][tela[s].id][c] \in
                        {linhas[tela[s].tabela][tela[s].id][c],
                         IF /\ c = "status"
                            /\ linhas[tela[s].tabela][tela[s].id][c] = "Atendida"
                         THEN "Atendido" ELSE linhas[tela[s].tabela][tela[s].id][c]}
    OBVIOUS
  <2> DEFINE f == tela[s]
             t == f.tabela
             i == f.id
  <2>1. CASE UNCHANGED linhas
    BY <2>1
  <2>2. CASE Executar(s)
    <3>0. fase[s] = "gravar"
      BY DEF Gravar
    <3>1. f \in Formulario /\ t \in Tabelas /\ FormBom(f)
      BY <2>2, <3>0, OQueGrava
    <3>2. PICK nova \in Linha : i \in Ids /\ GravarLinha(s, i, nova) /\ nova = Escrita(f, linhas[t][i])
      BY <2>2, <3>0, OQueGrava
    <3>3. linhas'[t][i] = nova
      BY <3>1, <3>2, OndeGrava DEF RegistrosInv
    <3>4. CASE c \in Gravadas(t)
      <4>1. nova[c] = f.valores[c]
        BY <3>2, <3>4 DEF Escrita
      <4>2. f.valores[c] = Mostrada(t, c, linhas[t][i][c])
        BY <3>1, <3>4 DEF FormBom
      <4>3. QED BY <3>3, <4>1, <4>2 DEF Mostrada
    <3>5. CASE c \notin Gravadas(t)
      BY <3>2, <3>3, <3>5 DEF Escrita
    <3>6. QED BY <3>4, <3>5
  <2>3. QED BY <2>1, <2>2 DEF Gravar, Falhar
<1>2. RegistrosInv /\ [Next]_vars => [A]_vars
  BY <1>1
<1>3. QED BY <1>2, Invariante, PTL DEF Spec, SoMudaOQueFoiMudado

=============================================================================
