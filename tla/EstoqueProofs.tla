---------------------------- MODULE EstoqueProofs ----------------------------
(***************************************************************************)
(* Theorems of Estoque for any number of workers, sessions, parts and forms*)
(* unless a theorem names an assumption.                                   *)
(***************************************************************************)
EXTENDS Estoque, TLAPS

\* A worker that is not free carries a request.
PedidoEmCurso == \A a \in Atendentes : fase[a] # "livre" => pedido[a] \in Pedido

TypeInv == TypeOK /\ PedidoEmCurso

\* A row is taken for at least one unit.
LEMMA QuantidadeNat ==
  ASSUME NEW item, item.quantidade \in Nat
  PROVE  Quantidade(item) \in Nat \ {0}
BY DEF Quantidade

\* A form's rows are items, numbered from 1.
LEMMA ItensDoFormulario ==
  ASSUME NEW form \in Formularios
  PROVE  /\ form.itens \in Seq(Item)
         /\ Len(form.itens) \in Nat
         /\ DOMAIN form.itens = 1..Len(form.itens)
         /\ \A i \in DOMAIN form.itens : /\ form.itens[i] \in Item
                                         /\ Quantidade(form.itens[i]) \in Nat \ {0}
<1>1. form.itens \in Seq(Item)
  BY ConstantesBemFormadas DEF Formulario
<1>2. \A i \in DOMAIN form.itens : form.itens[i] \in Item
  BY <1>1
<1>3. \A i \in DOMAIN form.itens : Quantidade(form.itens[i]) \in Nat \ {0}
  BY <1>2, QuantidadeNat DEF Item
<1>4. QED BY <1>1, <1>2, <1>3

\* Answering a request keeps the types.
LEMMA ResponderTipos ==
  ASSUME TypeInv, NEW a \in Atendentes, NEW aviso \in Avisos,
         fase[a] # "livre", Responder(a, aviso)
  PROVE  /\ tela' \in [Sessoes -> [aviso: Avisos, pedido: Pedido] \cup {Nenhum}]
         /\ fase' \in [Atendentes -> Fases]
         /\ pedido' \in [Atendentes -> Pedido \cup {Nenhum}]
         /\ linha' \in [Atendentes -> Nat]
         /\ PedidoEmCurso'
<1>1. pedido[a] \in Pedido
  BY DEF TypeInv, PedidoEmCurso
<1>2. [aviso |-> aviso, pedido |-> pedido[a]] \in [aviso: Avisos, pedido: Pedido]
  BY <1>1
<1>3. QED
  BY <1>1, <1>2 DEF TypeInv, TypeOK, PedidoEmCurso, Responder, Fases

\* Taking a request keeps the types.
LEMMA IniciarTipos ==
  ASSUME TypeInv, NEW a \in Atendentes, NEW s \in Sessoes,
         NEW form \in Formularios, NEW origem \in Numeros,
         Iniciar(a, s, form, origem)
  PROVE  TypeInv'
<1>1. [id |-> proximo, origem |-> origem, sessao |-> s, form |-> form] \in Pedido
  BY DEF Iniciar, Pedido
<1>2. proximo' \in 1..MaxPedidos + 1
  BY ConstantesBemFormadas DEF Iniciar, Numeros
<1>3. TypeOK'
  BY <1>1, <1>2 DEF TypeInv, TypeOK, Iniciar, Fases
<1>4. PedidoEmCurso'
  BY <1>1 DEF TypeInv, TypeOK, PedidoEmCurso, Iniciar
<1>5. QED BY <1>3, <1>4 DEF TypeInv

\* Type correctness: every variable keeps its type and a busy worker carries a
\* well-formed request, in servicos.php and in pecas.php alike.
THEOREM TypeCorrect == Spec => [](TypeOK /\ PedidoEmCurso)
<1>1. Init => TypeInv
  BY ConstantesBemFormadas DEF Init, TypeInv, TypeOK, PedidoEmCurso, Fases, Numeros
<1>2. TypeInv /\ [Next]_vars => TypeInv'
  <2> SUFFICES ASSUME TypeInv, [Next]_vars PROVE TypeInv'
    OBVIOUS
  <2>1. ASSUME NEW a \in Atendentes, NEW s \in Sessoes, Postar(a, s)
        PROVE  TypeInv'
    BY <2>1, IniciarTipos DEF Postar, Iniciar
  <2>2. ASSUME NEW a \in Atendentes, NEW s \in Sessoes, Recarregar(a, s)
        PROVE  TypeInv'
    <3>1. tela[s].pedido \in Pedido
      BY <2>2 DEF Recarregar, TypeInv, TypeOK
    <3>2. QED BY <2>2, <3>1, IniciarTipos DEF Recarregar, Pedido
  <2>3. ASSUME NEW a \in Atendentes, Aceitar(a)
        PROVE  TypeInv'
    BY <2>3 DEF Aceitar, TypeInv, TypeOK, PedidoEmCurso, Fases
  <2>4. ASSUME NEW a \in Atendentes, Recusar(a)
        PROVE  TypeInv'
    BY <2>4, ResponderTipos DEF Recusar, TypeInv, TypeOK, Avisos
  <2>5. ASSUME NEW a \in Atendentes, DarBaixa(a)
        PROVE  TypeInv'
    <3>1. pedido[a] \in Pedido
      BY <2>5 DEF DarBaixa, TypeInv, PedidoEmCurso
    <3>2. Quantidade(Itens(a)[linha[a]]) \in Nat
      BY <2>5, <3>1, ItensDoFormulario DEF DarBaixa, Itens, Pedido
    <3>3. estoque' \in [Pecas -> Int]
      <4> DEFINE item == Itens(a)[linha[a]]
      <4>1. estoque' = [estoque EXCEPT ![item.peca] = @ - Quantidade(item)]
        BY <2>5 DEF DarBaixa, Descontado
      <4>2. estoque \in [Pecas -> Int] /\ Quantidade(item) \in Nat
        BY <3>2 DEF TypeInv, TypeOK
      <4> HIDE DEF item
      <4>3. \A p \in Pecas : p = item.peca => estoque[p] - Quantidade(item) \in Int
        BY <4>2
      <4>4. CASE item.peca \in Pecas
        BY <4>1, <4>2, <4>3, <4>4
      <4>5. CASE item.peca \notin Pecas
        BY <4>1, <4>2, <4>5
      <4>6. QED BY <4>4, <4>5
    <3>4. <<pedido[a].id, linha[a]>> \in Linha
      BY <3>1 DEF Linha, Pedido, Numeros, TypeInv, TypeOK
    <3>5. QED
      BY <2>5, <3>3, <3>4 DEF DarBaixa, TypeInv, TypeOK, PedidoEmCurso
  <2>6. ASSUME NEW a \in Atendentes, RegistrarServico(a)
        PROVE  TypeInv'
    <3>1. pedido[a] \in Pedido
      BY <2>6 DEF RegistrarServico, TypeInv, PedidoEmCurso
    <3>2. servicos' \subseteq Servico
      BY <2>6, <3>1 DEF RegistrarServico, Inseridos, Servico, Pedido, TypeInv, TypeOK
    <3>3. QED
      BY <2>6, <3>1, <3>2 DEF RegistrarServico, TypeInv, TypeOK, PedidoEmCurso, Fases
  <2>7. ASSUME NEW a \in Atendentes, EnviarEmail(a)
        PROVE  TypeInv'
    <3>1. pedido[a] \in Pedido /\ pedido[a].id \in Numeros
      BY <2>7 DEF EnviarEmail, TypeInv, PedidoEmCurso, Pedido
    <3>2. emails' \subseteq Numeros
      BY <2>7, <3>1 DEF EnviarEmail, TypeInv, TypeOK
    <3>3. fase' \in [Atendentes -> Fases]
      BY <2>7 DEF EnviarEmail, TypeInv, TypeOK, Fases
    <3>4. PedidoEmCurso'
      BY <2>7, <3>1 DEF EnviarEmail, TypeInv, TypeOK, PedidoEmCurso
    <3>5. QED
      BY <2>7, <3>2, <3>3, <3>4 DEF EnviarEmail, TypeInv, TypeOK
  <2>8. ASSUME NEW a \in Atendentes, Abortar(a)
        PROVE  TypeInv'
    BY <2>8, ResponderTipos DEF Abortar, TypeInv, TypeOK, Avisos
  <2>9. ASSUME NEW a \in Atendentes, NEW s \in Editores, NEW p \in Pecas,
               AbrirEdicao(a, s, p)
        PROVE  TypeInv'
    BY <2>9 DEF AbrirEdicao, TypeInv, TypeOK, PedidoEmCurso, Edicao
  <2>10. ASSUME NEW a \in Atendentes, NEW s \in Editores, NEW q \in Int,
                GravarEdicao(a, s, q)
         PROVE  TypeInv'
    BY <2>10 DEF GravarEdicao, TypeInv, TypeOK, PedidoEmCurso
  <2>11. ASSUME NEW a \in Atendentes, NEW s \in Editores, SalvarSemMexer(a, s)
         PROVE  TypeInv'
    BY <2>11, <2>10 DEF SalvarSemMexer, TypeInv, TypeOK, Edicao
  <2>12. ASSUME NEW a \in Atendentes, NEW s \in Editores, Ajustar(a, s)
         PROVE  TypeInv'
    BY <2>12, <2>10, ConstantesBemFormadas DEF Ajustar
  <2>13. ASSUME NEW a \in Atendentes, ResponderServico(a)
         PROVE  TypeInv'
    <3>1. AvisoDoServico(a) \in Avisos
      BY DEF AvisoDoServico, Avisos
    <3>2. QED
      BY <2>13, <3>1, ResponderTipos DEF ResponderServico, TypeInv, TypeOK
  <2>14. CASE UNCHANGED vars
    BY <2>14 DEF vars, TypeInv, TypeOK, PedidoEmCurso
  <2>15. QED
    BY <2>1, <2>2, <2>3, <2>4, <2>5, <2>6, <2>7, <2>8, <2>9, <2>11, <2>12, <2>13, <2>14
    DEF Next, Andar
<1>3. QED BY <1>1, <1>2, PTL DEF Spec, TypeInv

-----------------------------------------------------------------------------
(* A recorded service has had all its items taken. *)

\* A worker in the loop of UPDATEs has executed those of the rows behind it.
BaixasFeitas ==
  \A a \in Atendentes : fase[a] = "baixa" =>
    \A i \in DOMAIN Itens(a) : i < linha[a] => <<pedido[a].id, i>> \in baixas

\* Whatever is interleaved with a request and whichever requests die, what it
\* records as a finished service has been taken from the stock, row by row.
THEOREM ServicoComBaixa == Spec => [](BaixasFeitas /\ ServicoTemBaixa)
<1>1. Init => BaixasFeitas /\ ServicoTemBaixa
  BY DEF Init, BaixasFeitas, ServicoTemBaixa
<1>2. (TypeInv /\ BaixasFeitas /\ ServicoTemBaixa) /\ [Next]_vars
        => (BaixasFeitas /\ ServicoTemBaixa)'
  <2> SUFFICES ASSUME TypeInv, BaixasFeitas, ServicoTemBaixa, [Next]_vars
               PROVE  BaixasFeitas' /\ ServicoTemBaixa'
    OBVIOUS
  <2>1. ASSUME NEW a \in Atendentes, NEW s \in Sessoes, NEW form, NEW origem,
               Iniciar(a, s, form, origem)
        PROVE  BaixasFeitas' /\ ServicoTemBaixa'
    BY <2>1 DEF Iniciar, TypeInv, TypeOK, BaixasFeitas, ServicoTemBaixa, Itens
  <2>2. ASSUME NEW a \in Atendentes, Aceitar(a)
        PROVE  BaixasFeitas' /\ ServicoTemBaixa'
    <3>1. pedido[a] \in Pedido
      BY <2>2 DEF Aceitar, TypeInv, PedidoEmCurso
    <3>2. \A i \in DOMAIN Itens(a) : ~(i < 1)
      BY <3>1, ItensDoFormulario DEF Pedido, Itens
    <3>3. QED
      BY <2>2, <3>2 DEF Aceitar, TypeInv, TypeOK, BaixasFeitas, ServicoTemBaixa, Itens
  <2>3. ASSUME NEW a \in Atendentes, NEW aviso, Responder(a, aviso),
               UNCHANGED <<servicos, baixas>>
        PROVE  BaixasFeitas' /\ ServicoTemBaixa'
    BY <2>3 DEF Responder, TypeInv, TypeOK, BaixasFeitas, ServicoTemBaixa, Itens
  <2>4. ASSUME NEW a \in Atendentes, DarBaixa(a)
        PROVE  BaixasFeitas' /\ ServicoTemBaixa'
    <3>1. pedido[a] \in Pedido
      BY <2>4 DEF DarBaixa, TypeInv, PedidoEmCurso
    <3>2. linha[a] \in Nat
      BY DEF TypeInv, TypeOK
    <3>3. \A i \in DOMAIN Itens(a) : i \in Nat /\ (i < linha[a] + 1 => i < linha[a] \/ i = linha[a])
      BY <3>1, <3>2, ItensDoFormulario DEF Pedido, Itens
    <3>4. ASSUME NEW b \in Atendentes, fase'[b] = "baixa",
                 NEW i \in DOMAIN Itens(b)', i < linha'[b]
          PROVE  <<pedido'[b].id, i>> \in baixas'
      BY <2>4, <3>3, <3>4 DEF DarBaixa, TypeInv, TypeOK, BaixasFeitas, Itens
    <3>5. BaixasFeitas'
      BY <3>4 DEF BaixasFeitas
    <3>6. ServicoTemBaixa'
      BY <2>4 DEF DarBaixa, ServicoTemBaixa
    <3>7. QED BY <3>5, <3>6
  <2>5. ASSUME NEW a \in Atendentes, RegistrarServico(a)
        PROVE  BaixasFeitas' /\ ServicoTemBaixa'
    <3>1. pedido[a] \in Pedido
      BY <2>5 DEF RegistrarServico, TypeInv, PedidoEmCurso
    <3>2. \A i \in DOMAIN Itens(a) : i < linha[a]
      BY <2>5, <3>1, ItensDoFormulario
      DEF RegistrarServico, SemMaisItens, Pedido, Itens, TypeInv, TypeOK
    <3>3. \A i \in DOMAIN Itens(a) : <<pedido[a].id, i>> \in baixas
      BY <2>5, <3>2 DEF RegistrarServico, BaixasFeitas
    <3>4. ServicoTemBaixa'
      <4>1. baixas' = baixas
        BY <2>5 DEF RegistrarServico
      <4>2. ASSUME NEW r \in servicos', NEW i \in DOMAIN r.form.itens
            PROVE  <<r.pedido, i>> \in baixas
        <5>1. CASE r \in servicos
          BY <4>2, <5>1 DEF ServicoTemBaixa
        <5>2. CASE r = [pedido |-> pedido[a].id, origem |-> pedido[a].origem,
                        form |-> pedido[a].form]
          BY <3>3, <4>2, <5>2 DEF Itens
        <5>3. QED BY <2>5, <5>1, <5>2 DEF RegistrarServico, Inseridos
      <4>3. QED BY <4>1, <4>2 DEF ServicoTemBaixa
    <3>5. BaixasFeitas'
      BY <2>5
      DEF RegistrarServico, BaixasFeitas, Itens, TypeInv, TypeOK
    <3>6. QED BY <3>4, <3>5
  <2>6. ASSUME UNCHANGED <<servicos, baixas, fase, linha, pedido>>
        PROVE  BaixasFeitas' /\ ServicoTemBaixa'
    BY <2>6 DEF BaixasFeitas, ServicoTemBaixa, Itens
  <2>7. ASSUME NEW a \in Atendentes, NEW s \in Sessoes, Postar(a, s) \/ Recarregar(a, s)
        PROVE  BaixasFeitas' /\ ServicoTemBaixa'
    BY <2>7, <2>1 DEF Postar, Recarregar
  <2>8. ASSUME NEW a \in Atendentes, Andar(a)
        PROVE  BaixasFeitas' /\ ServicoTemBaixa'
    <3>1. CASE EnviarEmail(a)
      BY <3>1 DEF EnviarEmail, TypeInv, TypeOK, BaixasFeitas, ServicoTemBaixa, Itens
    <3>2. QED
      BY <2>8, <2>2, <2>3, <2>4, <2>5, <3>1 DEF Andar, Recusar, ResponderServico
  <2>9. ASSUME NEW a \in Atendentes, Abortar(a)
        PROVE  BaixasFeitas' /\ ServicoTemBaixa'
    BY <2>9, <2>3 DEF Abortar
  <2>10. ASSUME NEW a \in Atendentes, NEW s \in Editores,
                \/ \E p \in Pecas : AbrirEdicao(a, s, p)
                \/ SalvarSemMexer(a, s)
                \/ Ajustar(a, s)
         PROVE  BaixasFeitas' /\ ServicoTemBaixa'
    BY <2>10, <2>6 DEF AbrirEdicao, SalvarSemMexer, Ajustar, GravarEdicao
  <2>11. CASE UNCHANGED vars
    BY <2>11, <2>6 DEF vars
  <2>12. QED BY <2>7, <2>8, <2>9, <2>10, <2>11 DEF Next
<1>3. QED BY <1>1, <1>2, TypeCorrect, PTL DEF Spec, TypeInv

-----------------------------------------------------------------------------
\* The loop of UPDATEs stops right behind the last row.
LinhaInv ==
  \A a \in Atendentes : fase[a] = "baixa" => linha[a] <= Len(Itens(a)) + 1

\* The loop variable of the UPDATEs never runs past the form.
LEMMA LinhaInvariante == Spec => []LinhaInv
<1>1. Init => LinhaInv
  BY DEF Init, LinhaInv
<1>2. TypeInv /\ LinhaInv /\ [Next]_vars => LinhaInv'
  <2> SUFFICES ASSUME TypeInv, LinhaInv, [Next]_vars PROVE LinhaInv'
    OBVIOUS
  <2>1. ASSUME NEW a \in Atendentes, Aceitar(a)
        PROVE  LinhaInv'
    <3>1. pedido[a] \in Pedido
      BY <2>1 DEF Aceitar, TypeInv, PedidoEmCurso
    <3>2. Len(Itens(a)) \in Nat
      BY <3>1, ItensDoFormulario DEF Pedido, Itens
    <3>3. QED BY <2>1, <3>2 DEF Aceitar, TypeInv, TypeOK, LinhaInv, Itens
  <2>2. ASSUME NEW a \in Atendentes, DarBaixa(a)
        PROVE  LinhaInv'
    <3>1. pedido[a] \in Pedido
      BY <2>2 DEF DarBaixa, TypeInv, PedidoEmCurso
    <3>2. linha[a] + 1 <= Len(Itens(a)) + 1
      BY <2>2, <3>1, ItensDoFormulario DEF DarBaixa, Pedido, Itens
    <3>3. QED BY <2>2, <3>2 DEF DarBaixa, TypeInv, TypeOK, LinhaInv, Itens
  <2>3. ASSUME NEW a \in Atendentes,
               \A b \in Atendentes : fase'[b] = "baixa" =>
                 fase[b] = "baixa" /\ pedido'[b] = pedido[b] /\ linha'[b] = linha[b]
        PROVE  LinhaInv'
    BY <2>3 DEF LinhaInv, Itens
  <2>4. ASSUME NEW a \in Atendentes, NEW s \in Sessoes, Postar(a, s) \/ Recarregar(a, s)
        PROVE  LinhaInv'
    BY <2>3, <2>4 DEF Postar, Recarregar, Iniciar, TypeInv, TypeOK
  <2>5. ASSUME NEW a \in Atendentes,
               \/ Recusar(a) \/ RegistrarServico(a) \/ EnviarEmail(a)
               \/ ResponderServico(a) \/ Abortar(a)
        PROVE  LinhaInv'
    BY <2>3, <2>5
    DEF Recusar, RegistrarServico, EnviarEmail, ResponderServico, Abortar, Responder,
        TypeInv, TypeOK
  <2>6. ASSUME NEW a \in Atendentes, NEW s \in Editores,
               \/ \E p \in Pecas : AbrirEdicao(a, s, p)
               \/ SalvarSemMexer(a, s)
               \/ Ajustar(a, s)
        PROVE  LinhaInv'
    BY <2>3, <2>6 DEF AbrirEdicao, SalvarSemMexer, Ajustar, GravarEdicao
  <2>7. CASE UNCHANGED vars
    BY <2>7 DEF vars, LinhaInv, Itens
  <2>8. QED BY <2>1, <2>2, <2>4, <2>5, <2>6, <2>7 DEF Next, Andar
<1>3. QED BY <1>1, <1>2, TypeCorrect, PTL DEF Spec, TypeInv

-----------------------------------------------------------------------------
(* One worker, each part once per form, counts that are natural numbers. *)

UmAtendente == \E a \in Atendentes : Atendentes = {a}

CadaPecaUmaVez ==
  \A form \in Formularios : \A i, j \in DOMAIN form.itens :
    form.itens[i].peca = form.itens[j].peca => i = j

\* The rows that the worker has still to take are covered by the stock.
Coberto ==
  \A a \in Atendentes : fase[a] = "baixa" =>
    \A i \in DOMAIN Itens(a) : i >= linha[a] =>
      /\ Itens(a)[i].peca \in Pecas
      /\ estoque[Itens(a)[i].peca] >= Quantidade(Itens(a)[i])

EdicaoNaoNegativa ==
  \A s \in Editores : edicao[s] # Nenhum => edicao[s].quantidade >= 0

SaldoInv == EstoqueNaoNegativo /\ Coberto /\ EdicaoNaoNegativa

\* The inductive form of SemDescoberto: the worker in the loop of UPDATEs has
\* its remaining rows covered, since nobody else touches the stock meanwhile.
LEMMA SaldoInvariante ==
  ASSUME UmAtendente, CadaPecaUmaVez, Digitadas \subseteq Nat
  PROVE  Spec => []SaldoInv
<1>1. Init => SaldoInv
  BY ConstantesBemFormadas
  DEF Init, SaldoInv, EstoqueNaoNegativo, Coberto, EdicaoNaoNegativa
<1>2. TypeInv /\ SaldoInv /\ [Next]_vars => SaldoInv'
  <2> SUFFICES ASSUME TypeInv, SaldoInv, [Next]_vars PROVE SaldoInv'
    OBVIOUS
  <2>1. ASSUME NEW a \in Atendentes, NEW s \in Sessoes, NEW form, NEW origem,
               Iniciar(a, s, form, origem)
        PROVE  SaldoInv'
    BY <2>1 DEF Iniciar, TypeInv, TypeOK, SaldoInv, EstoqueNaoNegativo, Coberto,
                EdicaoNaoNegativa, Itens
  <2>2. ASSUME NEW a \in Atendentes, Aceitar(a)
        PROVE  SaldoInv'
    <3>1. \A i \in DOMAIN Itens(a) :
            /\ Itens(a)[i].peca \in Pecas
            /\ estoque[Itens(a)[i].peca] >= Quantidade(Itens(a)[i])
      BY <2>2 DEF Aceitar, Atendivel, ItemAtendivel, Itens
    <3>2. Coberto'
      BY <2>2, <3>1 DEF Aceitar, TypeInv, TypeOK, SaldoInv, Coberto, Itens
    <3>3. QED
      BY <2>2, <3>2 DEF Aceitar, SaldoInv, EstoqueNaoNegativo, EdicaoNaoNegativa
  <2>3. ASSUME NEW a \in Atendentes, NEW aviso, Responder(a, aviso),
               UNCHANGED <<estoque, edicao>>
        PROVE  SaldoInv'
    BY <2>3 DEF Responder, TypeInv, TypeOK, SaldoInv, EstoqueNaoNegativo, Coberto,
                EdicaoNaoNegativa, Itens
  <2>4. ASSUME NEW a \in Atendentes, DarBaixa(a)
        PROVE  SaldoInv'
    <3> DEFINE k == linha[a]
               item == Itens(a)[k]
    <3>1. pedido[a].form \in Formularios
      BY <2>4 DEF DarBaixa, TypeInv, PedidoEmCurso, Pedido
    <3>2. /\ k \in DOMAIN Itens(a)
          /\ item.peca \in Pecas
          /\ estoque[item.peca] >= Quantidade(item)
      BY <2>4, <3>1, ItensDoFormulario DEF DarBaixa, SaldoInv, Coberto, Itens
    <3>3. estoque' = [estoque EXCEPT ![item.peca] = @ - Quantidade(item)]
      BY <2>4 DEF DarBaixa, Descontado
    <3>4. estoque \in [Pecas -> Int] /\ Quantidade(item) \in Nat
      BY <3>1, <3>2, ItensDoFormulario DEF TypeInv, TypeOK, Itens
    <3>5. EstoqueNaoNegativo'
      <4>1. \A p \in Pecas : p # item.peca => estoque'[p] = estoque[p]
        BY <3>3, <3>4
      <4>2. estoque'[item.peca] = estoque[item.peca] - Quantidade(item)
        BY <3>2, <3>3, <3>4
      <4> HIDE DEF item
      <4>3. estoque'[item.peca] >= 0
        BY <3>2, <3>4, <4>2
      <4>4. QED BY <4>1, <4>3 DEF SaldoInv, EstoqueNaoNegativo
    <3>6. \A i \in DOMAIN Itens(a) : i >= k + 1 =>
            i >= k /\ Itens(a)[i].peca # item.peca
      BY <3>1, <3>2, ItensDoFormulario, CadaPecaUmaVez DEF CadaPecaUmaVez, Itens
    <3>7. Coberto'
      <4>1. \A b \in Atendentes : b = a
        BY UmAtendente DEF UmAtendente
      <4>2. /\ Itens(a)' = Itens(a)
            /\ linha'[a] = k + 1
            /\ fase' = fase
        BY <2>4 DEF DarBaixa, Itens, TypeInv, TypeOK
      <4>3. ASSUME NEW i \in DOMAIN Itens(a), i >= k + 1
            PROVE  /\ Itens(a)[i].peca \in Pecas
                   /\ estoque'[Itens(a)[i].peca] >= Quantidade(Itens(a)[i])
        <5>1. /\ Itens(a)[i].peca \in Pecas
              /\ Itens(a)[i].peca # item.peca
              /\ estoque[Itens(a)[i].peca] >= Quantidade(Itens(a)[i])
          BY <2>4, <3>6, <4>3 DEF DarBaixa, SaldoInv, Coberto
        <5>2. estoque'[Itens(a)[i].peca] = estoque[Itens(a)[i].peca]
          BY <3>3, <3>4, <5>1
        <5>3. QED BY <5>1, <5>2
      <4>4. QED BY <4>1, <4>2, <4>3 DEF Coberto
    <3>8. EdicaoNaoNegativa'
      BY <2>4 DEF DarBaixa, SaldoInv, EdicaoNaoNegativa
    <3>9. QED BY <3>5, <3>7, <3>8 DEF SaldoInv
  <2>5. ASSUME NEW a \in Atendentes, RegistrarServico(a)
        PROVE  SaldoInv'
    BY <2>5 DEF RegistrarServico, TypeInv, TypeOK, SaldoInv, EstoqueNaoNegativo,
                Coberto, EdicaoNaoNegativa, Itens
  <2>6. ASSUME NEW a \in Atendentes, NEW s \in Editores, NEW p \in Pecas,
               AbrirEdicao(a, s, p)
        PROVE  SaldoInv'
    <3>1. EdicaoNaoNegativa'
      BY <2>6 DEF AbrirEdicao, TypeInv, TypeOK, SaldoInv, EstoqueNaoNegativo,
                  EdicaoNaoNegativa
    <3>2. QED
      BY <2>6, <3>1 DEF AbrirEdicao, SaldoInv, EstoqueNaoNegativo, Coberto, Itens
  <2>7. ASSUME NEW a \in Atendentes, NEW s \in Editores, NEW q \in Int, q >= 0,
               GravarEdicao(a, s, q)
        PROVE  SaldoInv'
    <3>1. \A b \in Atendentes : fase'[b] # "baixa"
      BY <2>7, UmAtendente DEF UmAtendente, GravarEdicao, PodeAtender
    <3>2. EstoqueNaoNegativo'
      BY <2>7 DEF GravarEdicao, TypeInv, TypeOK, SaldoInv, EstoqueNaoNegativo
    <3>3. EdicaoNaoNegativa'
      BY <2>7 DEF GravarEdicao, TypeInv, TypeOK, SaldoInv, EdicaoNaoNegativa
    <3>4. QED BY <3>1, <3>2, <3>3 DEF SaldoInv, Coberto
  <2>8. ASSUME NEW a \in Atendentes, NEW s \in Editores,
               SalvarSemMexer(a, s) \/ Ajustar(a, s)
        PROVE  SaldoInv'
    <3>1. CASE SalvarSemMexer(a, s)
      BY <2>7, <3>1 DEF SalvarSemMexer, TypeInv, TypeOK, SaldoInv, EdicaoNaoNegativa, Edicao
    <3>2. CASE Ajustar(a, s)
      BY <2>7, <3>2 DEF Ajustar
    <3>3. QED BY <2>8, <3>1, <3>2
  <2>9. CASE UNCHANGED vars
    BY <2>9 DEF vars, SaldoInv, EstoqueNaoNegativo, Coberto, EdicaoNaoNegativa, Itens
  <2>10. ASSUME NEW a \in Atendentes, NEW s \in Sessoes, Postar(a, s) \/ Recarregar(a, s)
         PROVE  SaldoInv'
    BY <2>10, <2>1 DEF Postar, Recarregar
  <2>11. ASSUME NEW a \in Atendentes, Andar(a) \/ Abortar(a)
         PROVE  SaldoInv'
    <3>1. CASE EnviarEmail(a)
      BY <3>1 DEF EnviarEmail, TypeInv, TypeOK, SaldoInv, EstoqueNaoNegativo, Coberto,
                  EdicaoNaoNegativa, Itens
    <3>2. QED
      BY <2>11, <2>2, <2>3, <2>4, <2>5, <3>1 DEF Andar, Recusar, ResponderServico, Abortar
  <2>12. QED BY <2>6, <2>8, <2>9, <2>10, <2>11 DEF Next
<1>3. QED BY <1>1, <1>2, TypeCorrect, PTL DEF Spec, TypeInv

\* Under `php -S` with a single process, and as long as a form names each part
\* once and nobody types a negative count, the stock never goes below zero, even
\* with edit forms that were loaded long ago and requests that die half way.
THEOREM SemDescoberto ==
  ASSUME UmAtendente, CadaPecaUmaVez, Digitadas \subseteq Nat
  PROVE  Spec => []EstoqueNaoNegativo
<1>1. SaldoInv => EstoqueNaoNegativo
  BY DEF SaldoInv
<1>2. QED BY <1>1, SaldoInvariante, PTL

-----------------------------------------------------------------------------
(* The messages are true. *)

Ocupado(a) == fase[a] # "livre"

\* Request numbers are never used twice, neither by the workers nor by the
\* screens, and nothing in the database carries a number not yet given.
NumerosUnicos ==
  /\ \A a \in Atendentes : Ocupado(a) => pedido[a].id < proximo
  /\ \A s \in Sessoes : tela[s] # Nenhum => tela[s].pedido.id < proximo
  /\ \A a, b \in Atendentes : Ocupado(a) /\ Ocupado(b) /\ a # b =>
       pedido[a].id # pedido[b].id
  /\ \A a \in Atendentes, s \in Sessoes : Ocupado(a) /\ tela[s] # Nenhum =>
       tela[s].pedido.id # pedido[a].id
  /\ \A b \in baixas : b[1] < proximo
  /\ \A r \in servicos : r.pedido < proximo

Registrado(a) == fase[a] \in {"gravado", "enviado", "nao_enviado"}

\* A request has left no trace while it reads, and all of it after its INSERT; it
\* takes a mail for sent only when it was.
FaseVerdadeira ==
  \A a \in Atendentes :
    /\ fase[a] = "leitura" => Intocado(pedido[a])
    /\ fase[a] = "baixa" => \A r \in servicos : r.pedido # pedido[a].id
    /\ Registrado(a) => Gravado(pedido[a]) /\ Baixado(pedido[a])
    /\ fase[a] = "enviado" => pedido[a].id \in emails

MensagemInv == NumerosUnicos /\ FaseVerdadeira /\ MensagemVerdadeira

\* What stays true of a request while the tables only grow.
LEMMA TabelasCrescem ==
  ASSUME NEW p, servicos \subseteq servicos', baixas \subseteq baixas'
  PROVE  /\ Gravado(p) => Gravado(p)'
         /\ Baixado(p) => Baixado(p)'
BY DEF Gravado, Baixado

\* Taking a request gives it a number that nothing else has.
LEMMA IniciarMensagem ==
  ASSUME TypeInv, MensagemInv, NEW a \in Atendentes, NEW s \in Sessoes,
         NEW form, NEW origem, Iniciar(a, s, form, origem)
  PROVE  MensagemInv'
<1>1. /\ proximo \in Nat /\ proximo' = proximo + 1
      /\ servicos' = servicos /\ baixas' = baixas /\ tela' = tela /\ emails' = emails
  BY ConstantesBemFormadas DEF Iniciar, TypeInv, TypeOK
<1>2. /\ pedido'[a].id = proximo /\ fase'[a] = "leitura"
      /\ \A b \in Atendentes : b # a => pedido'[b] = pedido[b] /\ fase'[b] = fase[b]
  BY DEF Iniciar, TypeInv, TypeOK
<1>3. /\ \A b \in Atendentes : Ocupado(b) => pedido[b].id \in Nat
      /\ \A t \in Sessoes : tela[t] # Nenhum => tela[t].pedido.id \in Nat
      /\ \A b \in baixas : b[1] \in Nat
      /\ \A r \in servicos : r.pedido \in Nat
  BY DEF TypeInv, TypeOK, PedidoEmCurso, Pedido, Servico, Linha, Numeros, Ocupado
<1>4. NumerosUnicos'
  BY <1>1, <1>2, <1>3 DEF MensagemInv, NumerosUnicos, Ocupado
<1>5. FaseVerdadeira'
  <2>1. Intocado(pedido[a])'
    BY <1>1, <1>2, <1>3 DEF MensagemInv, NumerosUnicos, Intocado
  <2>2. ASSUME NEW b \in Atendentes, b # a
        PROVE  /\ fase'[b] = "leitura" => Intocado(pedido[b])'
               /\ fase'[b] = "baixa" => \A r \in servicos' : r.pedido # pedido'[b].id
               /\ Registrado(b)' => Gravado(pedido[b])' /\ Baixado(pedido[b])'
               /\ fase'[b] = "enviado" => pedido'[b].id \in emails'
    BY <1>1, <1>2, <2>2
    DEF MensagemInv, FaseVerdadeira, Registrado, Intocado, Gravado, Baixado
  <2>3. QED BY <1>2, <2>1, <2>2 DEF FaseVerdadeira, Registrado
<1>6. MensagemVerdadeira'
  BY <1>1 DEF MensagemInv, MensagemVerdadeira, Gravado, Baixado, Intocado
<1>7. QED BY <1>4, <1>5, <1>6 DEF MensagemInv

\* Answering is sound when the message is true of the request that ends.
LEMMA ResponderMensagem ==
  ASSUME TypeInv, MensagemInv, NEW a \in Atendentes, Ocupado(a), NEW aviso,
         Responder(a, aviso), UNCHANGED <<proximo, baixas>>,
         emails \subseteq emails', servicos' \in {servicos, Inseridos(a)},
         NEW p, p = pedido[a],
         aviso \notin {"recusado", "erro"} => Gravado(p)' /\ Baixado(p),
         aviso = "salvo_e_enviado" => pedido[a].id \in emails',
         aviso = "recusado" => Intocado(pedido[a]) /\ servicos' = servicos
  PROVE  MensagemInv'
<1>1. pedido[a] \in Pedido /\ pedido[a].sessao \in Sessoes
  BY DEF TypeInv, PedidoEmCurso, Ocupado, Pedido
<1>2. /\ tela'[pedido[a].sessao] = [aviso |-> aviso, pedido |-> pedido[a]]
      /\ \A s \in Sessoes : s # pedido[a].sessao => tela'[s] = tela[s]
  BY <1>1 DEF Responder, TypeInv, TypeOK
<1>3. /\ fase'[a] = "livre"
      /\ \A b \in Atendentes : b # a => fase'[b] = fase[b] /\ pedido'[b] = pedido[b]
  BY DEF Responder, TypeInv, TypeOK
<1>4. /\ servicos \subseteq servicos' /\ baixas' = baixas /\ proximo' = proximo
      /\ \A r \in servicos' : r \in servicos \/ r.pedido = pedido[a].id
  BY DEF Inseridos
<1>5. NumerosUnicos'
  BY <1>1, <1>2, <1>3, <1>4 DEF MensagemInv, NumerosUnicos, Ocupado
<1>6. FaseVerdadeira'
  <2>1. ASSUME NEW b \in Atendentes, fase'[b] = "leitura"
        PROVE  Intocado(pedido[b])'
    BY <1>3, <1>4, <2>1
    DEF MensagemInv, FaseVerdadeira, NumerosUnicos, Intocado, Ocupado
  <2>2. ASSUME NEW b \in Atendentes
        PROVE  /\ Registrado(b)' => Gravado(pedido[b])' /\ Baixado(pedido[b])'
               /\ fase'[b] = "enviado" => pedido'[b].id \in emails'
    BY <1>3, <1>4 DEF MensagemInv, FaseVerdadeira, Registrado, Gravado, Baixado
  <2>3. ASSUME NEW b \in Atendentes, fase'[b] = "baixa", NEW r \in servicos'
        PROVE  r.pedido # pedido'[b].id
    BY <1>3, <1>4, <2>3 DEF MensagemInv, FaseVerdadeira, NumerosUnicos, Ocupado
  <2>4. QED BY <2>1, <2>2, <2>3 DEF FaseVerdadeira
<1>7. ASSUME NEW s \in Sessoes, tela'[s] # Nenhum
      PROVE  /\ tela'[s].aviso \notin {"recusado", "erro"} =>
                  Gravado(tela[s].pedido)' /\ Baixado(tela[s].pedido)'
             /\ tela'[s].aviso = "salvo_e_enviado" => tela'[s].pedido.id \in emails'
             /\ tela'[s].aviso = "recusado" => Intocado(tela[s].pedido)'
  <2>1. CASE s = pedido[a].sessao
    <3>1. tela'[s].aviso = aviso /\ tela'[s].pedido = pedido[a]
      BY <1>2, <2>1
    <3>2. aviso \notin {"recusado", "erro"} =>
            /\ \E r \in servicos' : r.pedido = pedido[a].id /\ r.form = pedido[a].form
            /\ \A i \in DOMAIN pedido[a].form.itens : <<pedido[a].id, i>> \in baixas'
      <4>1. aviso \notin {"recusado", "erro"} =>
              \E r \in servicos' : r.pedido = pedido[a].id /\ r.form = pedido[a].form
        BY DEF Gravado
      <4>2. QED BY <1>4, <4>1 DEF Baixado
    <3>3. aviso = "recusado" =>
            /\ \A r \in servicos' : r.pedido # pedido[a].id
            /\ \A b \in baixas' : b[1] # pedido[a].id
      BY <1>4 DEF Intocado
    <3>4. QED BY <3>1, <3>2, <3>3 DEF Gravado, Baixado, Intocado
  <2>2. CASE s # pedido[a].sessao
    BY <1>2, <1>4, <1>7, <2>2
    DEF MensagemInv, MensagemVerdadeira, NumerosUnicos, Gravado, Baixado, Intocado, Ocupado
  <2>3. QED BY <2>1, <2>2
<1>8. QED BY <1>5, <1>6, <1>7 DEF MensagemInv, MensagemVerdadeira

\* The inductive form of MensagensVerdadeiras.
LEMMA MensagemInvariante == Spec => []MensagemInv
<1>1. Init => MensagemInv
  BY DEF Init, MensagemInv, NumerosUnicos, FaseVerdadeira, Registrado, MensagemVerdadeira,
         Ocupado
<1>2. TypeInv /\ BaixasFeitas /\ MensagemInv /\ [Next]_vars => MensagemInv'
  <2> SUFFICES ASSUME TypeInv, BaixasFeitas, MensagemInv, [Next]_vars
               PROVE  MensagemInv'
    OBVIOUS
  <2>1. ASSUME NEW a \in Atendentes, NEW s \in Sessoes, Postar(a, s) \/ Recarregar(a, s)
        PROVE  MensagemInv'
    BY <2>1, IniciarMensagem DEF Postar, Recarregar
  <2>2. ASSUME NEW a \in Atendentes, Aceitar(a)
        PROVE  MensagemInv'
    <3>1. NumerosUnicos'
      BY <2>2 DEF Aceitar, TypeInv, TypeOK, MensagemInv, NumerosUnicos, Ocupado
    <3>2. FaseVerdadeira'
      BY <2>2 DEF Aceitar, TypeInv, TypeOK, MensagemInv, FaseVerdadeira, Registrado,
                  Gravado, Baixado, Intocado
    <3>3. MensagemVerdadeira'
      BY <2>2 DEF Aceitar, MensagemInv, MensagemVerdadeira, Gravado, Baixado, Intocado
    <3>4. QED BY <3>1, <3>2, <3>3 DEF MensagemInv
  <2>3. ASSUME NEW a \in Atendentes, Recusar(a) \/ Abortar(a)
        PROVE  MensagemInv'
    <3>1. Recusar(a) => Intocado(pedido[a])
      BY DEF Recusar, MensagemInv, FaseVerdadeira
    <3>2. PICK p : p = pedido[a]
      OBVIOUS
    <3>3. CASE Recusar(a)
      BY <3>1, <3>2, <3>3, ResponderMensagem DEF Recusar, Ocupado
    <3>4. CASE Abortar(a)
      BY <3>2, <3>4, ResponderMensagem DEF Abortar, Ocupado
    <3>5. QED BY <2>3, <3>3, <3>4
  <2>4. ASSUME NEW a \in Atendentes, DarBaixa(a)
        PROVE  MensagemInv'
    <3>1. /\ fase' = fase /\ pedido' = pedido /\ tela' = tela /\ servicos' = servicos
          /\ proximo' = proximo /\ emails' = emails /\ Ocupado(a) /\ fase[a] = "baixa"
          /\ baixas' = baixas \cup {<<pedido[a].id, linha[a]>>}
      BY <2>4 DEF DarBaixa, Ocupado
    <3>2. \A b \in baixas' : b \in baixas \/ b[1] = pedido[a].id
      BY <3>1
    <3>3. NumerosUnicos'
      BY <3>1, <3>2 DEF MensagemInv, NumerosUnicos, Ocupado
    <3>4. ASSUME NEW b \in Atendentes, fase[b] = "leitura"
          PROVE  Intocado(pedido[b])'
      BY <3>1, <3>2, <3>4 DEF MensagemInv, FaseVerdadeira, NumerosUnicos, Intocado, Ocupado
    <3>5. FaseVerdadeira'
      BY <3>1, <3>4 DEF MensagemInv, FaseVerdadeira, Registrado, Gravado, Baixado
    <3>6. ASSUME NEW s \in Sessoes, tela[s] # Nenhum, tela[s].aviso = "recusado"
          PROVE  Intocado(tela[s].pedido)'
      BY <3>1, <3>2, <3>6
      DEF MensagemInv, MensagemVerdadeira, NumerosUnicos, Intocado, Ocupado
    <3>7. MensagemVerdadeira'
      BY <3>1, <3>6 DEF MensagemInv, MensagemVerdadeira, Gravado, Baixado
    <3>8. QED BY <3>3, <3>5, <3>7 DEF MensagemInv
  <2>5. ASSUME NEW a \in Atendentes, RegistrarServico(a)
        PROVE  MensagemInv'
    <3>1. pedido[a] \in Pedido /\ Ocupado(a) /\ fase[a] = "baixa"
      BY <2>5 DEF RegistrarServico, TypeInv, PedidoEmCurso, Ocupado
    <3>2. Baixado(pedido[a])
      <4>1. linha[a] > Len(Itens(a)) /\ linha[a] \in Nat
        BY <2>5 DEF RegistrarServico, SemMaisItens, TypeInv, TypeOK
      <4>2. \A i \in DOMAIN Itens(a) : i < linha[a]
        BY <3>1, <4>1, ItensDoFormulario DEF Itens, Pedido
      <4>3. QED BY <3>1, <4>2 DEF BaixasFeitas, Baixado, Itens
    <3>3. /\ servicos' = Inseridos(a) /\ baixas' = baixas
          /\ proximo' = proximo /\ emails' = emails
      BY <2>5 DEF RegistrarServico
    <3>4. PICK p : p = pedido[a]
      OBVIOUS
    <3>5. Gravado(p)' /\ Baixado(p)
      <4> DEFINE r == [pedido |-> pedido[a].id, origem |-> pedido[a].origem,
                       form |-> pedido[a].form]
      <4>1. r \in servicos' /\ r.pedido = p.id /\ r.form = p.form
        BY <3>3, <3>4 DEF Inseridos
      <4>2. QED BY <3>2, <3>4, <4>1 DEF Gravado
    <3>6. /\ fase'[a] = "gravado" /\ pedido' = pedido /\ tela' = tela
          /\ \A b \in Atendentes : b # a => fase'[b] = fase[b]
      BY <2>5 DEF RegistrarServico, TypeInv, TypeOK
    <3>7. /\ \A r \in servicos' : r \in servicos \/ r.pedido = pedido[a].id
          /\ servicos \subseteq servicos'
      BY <3>3 DEF Inseridos
    <3>8. NumerosUnicos'
      BY <3>1, <3>3, <3>6, <3>7 DEF MensagemInv, NumerosUnicos, Ocupado
    <3>9. ASSUME NEW b \in Atendentes, fase'[b] = "leitura"
          PROVE  Intocado(pedido[b])'
      BY <3>1, <3>3, <3>6, <3>7, <3>9
      DEF MensagemInv, FaseVerdadeira, NumerosUnicos, Intocado, Ocupado
    <3>10. ASSUME NEW b \in Atendentes
           PROVE  /\ Registrado(b)' => Gravado(pedido[b])' /\ Baixado(pedido[b])'
                  /\ fase'[b] = "enviado" => pedido'[b].id \in emails'
      <4>1. CASE b = a
        BY <3>3, <3>4, <3>5, <3>6, <4>1 DEF Gravado, Baixado
      <4>2. CASE b # a
        BY <3>3, <3>6, <3>7, <4>2
        DEF MensagemInv, FaseVerdadeira, Registrado, Gravado, Baixado
      <4>3. QED BY <4>1, <4>2
    <3>11. FaseVerdadeira'
      <4>1. ASSUME NEW b \in Atendentes, fase'[b] = "baixa", NEW r \in servicos'
            PROVE  r.pedido # pedido'[b].id
        BY <3>1, <3>6, <3>7, <4>1
        DEF MensagemInv, FaseVerdadeira, NumerosUnicos, Ocupado
      <4>2. QED BY <3>9, <3>10, <4>1 DEF FaseVerdadeira
    <3>12. ASSUME NEW s \in Sessoes, tela[s] # Nenhum, tela[s].aviso = "recusado"
           PROVE  Intocado(tela[s].pedido)'
      BY <3>1, <3>3, <3>6, <3>7, <3>12
      DEF MensagemInv, MensagemVerdadeira, NumerosUnicos, Intocado, Ocupado
    <3>13. MensagemVerdadeira'
      BY <3>3, <3>6, <3>7, <3>12
      DEF MensagemInv, MensagemVerdadeira, Gravado, Baixado
    <3>14. QED BY <3>8, <3>11, <3>13 DEF MensagemInv
  <2>6. ASSUME NEW a \in Atendentes, EnviarEmail(a)
        PROVE  MensagemInv'
    <3>1. /\ fase[a] = "gravado" /\ fase'[a] \in {"enviado", "nao_enviado"}
          /\ fase'[a] = "enviado" => pedido[a].id \in emails'
          /\ \A b \in Atendentes : b # a => fase'[b] = fase[b]
      BY <2>6 DEF EnviarEmail, TypeInv, TypeOK
    <3>2. UNCHANGED <<servicos, pedido, tela, baixas, proximo>> /\ emails \subseteq emails'
      BY <2>6 DEF EnviarEmail
    <3>3. NumerosUnicos'
      BY <3>1, <3>2 DEF MensagemInv, NumerosUnicos, Ocupado
    <3>4. FaseVerdadeira'
      BY <3>1, <3>2 DEF MensagemInv, FaseVerdadeira, Registrado, Gravado, Baixado, Intocado
    <3>5. MensagemVerdadeira'
      BY <3>2 DEF MensagemInv, MensagemVerdadeira, Gravado, Baixado, Intocado
    <3>6. QED BY <3>3, <3>4, <3>5 DEF MensagemInv
  <2>7. ASSUME UNCHANGED <<servicos, fase, pedido, tela, proximo, baixas, emails>>
        PROVE  MensagemInv'
    BY <2>7 DEF MensagemInv, NumerosUnicos, FaseVerdadeira, Registrado, MensagemVerdadeira,
                Gravado, Baixado, Intocado, Ocupado
  <2>8. ASSUME NEW a \in Atendentes, NEW s \in Editores,
               \/ \E p \in Pecas : AbrirEdicao(a, s, p)
               \/ SalvarSemMexer(a, s)
               \/ Ajustar(a, s)
        PROVE  MensagemInv'
    BY <2>7, <2>8 DEF AbrirEdicao, SalvarSemMexer, Ajustar, GravarEdicao
  <2>9. CASE UNCHANGED vars
    BY <2>7, <2>9 DEF vars
  <2>10. ASSUME NEW a \in Atendentes, ResponderServico(a)
         PROVE  MensagemInv'
    <3>1. PICK p : p = pedido[a]
      OBVIOUS
    <3>2. Ocupado(a) /\ Gravado(p) /\ Baixado(p)
      BY <2>10, <3>1
      DEF ResponderServico, Ocupado, Registrado, MensagemInv, FaseVerdadeira
    <3>3. UNCHANGED <<servicos, baixas, proximo, emails>>
      BY <2>10 DEF ResponderServico
    <3>4. Gravado(p)'
      BY <3>2, <3>3 DEF Gravado
    <3>5. PICK aviso : aviso = AvisoDoServico(a)
      OBVIOUS
    <3>6. /\ aviso # "recusado"
          /\ aviso = "salvo_e_enviado" => pedido[a].id \in emails
      BY <3>5 DEF AvisoDoServico, MensagemInv, FaseVerdadeira
    <3>7. Responder(a, aviso)
      BY <2>10, <3>5 DEF ResponderServico
    <3>8. QED BY <3>1, <3>2, <3>3, <3>4, <3>6, <3>7, ResponderMensagem
  <2>11. QED
    BY <2>1, <2>2, <2>3, <2>4, <2>5, <2>6, <2>8, <2>9, <2>10 DEF Next, Andar
<1>3. QED
  BY <1>1, <1>2, TypeCorrect, ServicoComBaixa, PTL DEF Spec, TypeInv, MensagemInv

\* For any number of workers, sessions and forms, with reloads, edits and
\* requests that die: a success shown to the user is a recorded service whose
\* items have all left the stock, and a refusal left nothing behind.
THEOREM MensagensVerdadeiras == Spec => []MensagemVerdadeira
<1>1. MensagemInv => MensagemVerdadeira
  BY DEF MensagemInv
<1>2. QED BY <1>1, MensagemInvariante, PTL


-----------------------------------------------------------------------------
\* No client hears of a service that is not in the database, whatever is
\* interleaved and whichever requests die: the mail is sent in a phase that only
\* the INSERT leads to, and rows are never deleted.
THEOREM EmailDeServicoGravado == Spec => []EmailSoDeServico
<1>1. Init => EmailSoDeServico
  BY DEF Init, EmailSoDeServico
<1>2. MensagemInv /\ EmailSoDeServico /\ [Next]_vars => EmailSoDeServico'
  <2> SUFFICES ASSUME MensagemInv, EmailSoDeServico, [Next]_vars
               PROVE  EmailSoDeServico'
    OBVIOUS
  <2>1. ASSUME servicos \subseteq servicos', emails' = emails
        PROVE  EmailSoDeServico'
    BY <2>1 DEF EmailSoDeServico
  <2>2. ASSUME NEW a \in Atendentes, EnviarEmail(a)
        PROVE  EmailSoDeServico'
    <3>1. \E r \in servicos : r.pedido = pedido[a].id
      BY <2>2 DEF EnviarEmail, MensagemInv, FaseVerdadeira, Registrado, Gravado
    <3>2. emails' \subseteq emails \cup {pedido[a].id} /\ servicos' = servicos
      BY <2>2 DEF EnviarEmail
    <3>3. QED BY <3>1, <3>2 DEF EmailSoDeServico
  <2>3. ASSUME NEW a \in Atendentes, NEW s \in Sessoes, Postar(a, s) \/ Recarregar(a, s)
        PROVE  EmailSoDeServico'
    BY <2>1, <2>3 DEF Postar, Recarregar, Iniciar
  <2>4. ASSUME NEW a \in Atendentes,
               \/ Aceitar(a) \/ Recusar(a) \/ DarBaixa(a)
               \/ RegistrarServico(a) \/ ResponderServico(a) \/ Abortar(a)
        PROVE  EmailSoDeServico'
    BY <2>1, <2>4 DEF Aceitar, Recusar, DarBaixa, RegistrarServico, Inseridos,
                      ResponderServico, Abortar
  <2>5. ASSUME NEW a \in Atendentes, NEW s \in Editores,
               \/ \E p \in Pecas : AbrirEdicao(a, s, p)
               \/ SalvarSemMexer(a, s)
               \/ Ajustar(a, s)
        PROVE  EmailSoDeServico'
    BY <2>1, <2>5 DEF AbrirEdicao, SalvarSemMexer, Ajustar, GravarEdicao
  <2>6. CASE UNCHANGED vars
    BY <2>1, <2>6 DEF vars
  <2>7. QED BY <2>2, <2>3, <2>4, <2>5, <2>6 DEF Next, Andar
<1>3. QED BY <1>1, <1>2, MensagemInvariante, PTL DEF Spec

-----------------------------------------------------------------------------
(* The session lock keeps the answers of a session in order. *)

\* Running requests are of different sessions, and newer than what those show.
OrdemInv ==
  /\ \A a, b \in Atendentes :
       Ocupado(a) /\ Ocupado(b) /\ pedido[a].sessao = pedido[b].sessao => a = b
  /\ \A a \in Atendentes : Ocupado(a) => pedido[a].id < proximo
  /\ \A s \in Sessoes : tela[s] # Nenhum => tela[s].pedido.id < proximo
  /\ \A a \in Atendentes :
       Ocupado(a) /\ tela[pedido[a].sessao] # Nenhum
         => tela[pedido[a].sessao].pedido.id < pedido[a].id

\* What an answer does to the screens: one of them moves, and forward.
LEMMA ResponderEmOrdem ==
  ASSUME TypeInv, OrdemInv, NEW a \in Atendentes, Ocupado(a), NEW aviso,
         Responder(a, aviso), proximo' = proximo
  PROVE  /\ OrdemInv'
         /\ \A s \in Sessoes :
              tela[s] # Nenhum /\ tela'[s] # tela[s] =>
                tela'[s].pedido.id > tela[s].pedido.id
<1>1. pedido[a] \in Pedido /\ pedido[a].sessao \in Sessoes /\ pedido[a].id \in Nat
  BY DEF TypeInv, PedidoEmCurso, Ocupado, Pedido, Numeros
<1>2. /\ tela'[pedido[a].sessao].pedido = pedido[a]
      /\ \A s \in Sessoes : s # pedido[a].sessao => tela'[s] = tela[s]
  BY <1>1 DEF Responder, TypeInv, TypeOK
<1>3. /\ fase'[a] = "livre"
      /\ \A b \in Atendentes : b # a => fase'[b] = fase[b] /\ pedido'[b] = pedido[b]
  BY DEF Responder, TypeInv, TypeOK
<1>4. \A b \in Atendentes : Ocupado(b)' =>
        b # a /\ Ocupado(b) /\ pedido[b].sessao # pedido[a].sessao
             /\ pedido[b].sessao \in Sessoes
  BY <1>3 DEF Ocupado, OrdemInv, TypeInv, PedidoEmCurso, Pedido
<1>5. \A b \in Atendentes : Ocupado(b)' =>
        tela'[pedido'[b].sessao] = tela[pedido[b].sessao] /\ pedido'[b] = pedido[b]
  BY <1>2, <1>3, <1>4
<1>6. OrdemInv'
  <2>1. \A s \in Sessoes : tela'[s] # Nenhum => tela'[s].pedido.id < proximo'
    BY <1>1, <1>2 DEF OrdemInv
  <2>2. QED BY <1>4, <1>5, <2>1 DEF OrdemInv
<1>7. QED BY <1>1, <1>2, <1>6 DEF OrdemInv

\* For any number of workers and sessions, an answer never overwrites on the screen
\* of its session that of a newer request: the lock of the session file, taken by
\* every page before its first statement, is all that the order rests on.
THEOREM TelasEmOrdem == Spec => TelaNaoRetrocede
<1> DEFINE EmOrdem == \A s \in Sessoes :
             tela[s] # Nenhum /\ tela'[s] # tela[s] =>
               tela'[s].pedido.id > tela[s].pedido.id
<1>1. Init => OrdemInv
  BY DEF Init, OrdemInv, Ocupado
<1>2. TypeInv /\ OrdemInv /\ [Next]_vars => OrdemInv' /\ EmOrdem
  <2> SUFFICES ASSUME TypeInv, OrdemInv, [Next]_vars PROVE OrdemInv' /\ EmOrdem
    OBVIOUS
  <2>1. ASSUME NEW a \in Atendentes, NEW s \in Sessoes, NEW form, NEW origem,
               Iniciar(a, s, form, origem)
        PROVE  OrdemInv' /\ EmOrdem
    <3>1. /\ proximo \in Nat /\ proximo' = proximo + 1 /\ tela' = tela
          /\ ~SessaoOcupada(s)
      BY <2>1, ConstantesBemFormadas DEF Iniciar, PodeAtender, TypeInv, TypeOK
    <3>2. /\ pedido'[a].id = proximo /\ pedido'[a].sessao = s
          /\ \A b \in Atendentes : b # a => pedido'[b] = pedido[b] /\ fase'[b] = fase[b]
      BY <2>1 DEF Iniciar, TypeInv, TypeOK
    <3>3. /\ \A b \in Atendentes : Ocupado(b) => pedido[b].id \in Nat
          /\ \A t \in Sessoes : tela[t] # Nenhum => tela[t].pedido.id \in Nat
      BY DEF TypeInv, TypeOK, PedidoEmCurso, Pedido, Numeros, Ocupado
    <3>4. \A b \in Atendentes : b # a /\ Ocupado(b)' =>
            Ocupado(b) /\ pedido[b].sessao # s
      BY <3>1, <3>2 DEF Ocupado, SessaoOcupada
    <3>5. QED BY <3>1, <3>2, <3>3, <3>4 DEF OrdemInv
  <2>2. ASSUME NEW a \in Atendentes, Ocupado(a), NEW aviso, Responder(a, aviso),
               proximo' = proximo
        PROVE  OrdemInv' /\ EmOrdem
    BY <2>2, ResponderEmOrdem
  <2>3. ASSUME UNCHANGED <<pedido, tela, proximo>>,
               \A b \in Atendentes : Ocupado(b)' => Ocupado(b)
        PROVE  OrdemInv' /\ EmOrdem
    BY <2>3 DEF OrdemInv
  <2>4. ASSUME NEW a \in Atendentes, NEW s \in Sessoes, Postar(a, s) \/ Recarregar(a, s)
        PROVE  OrdemInv' /\ EmOrdem
    BY <2>1, <2>4 DEF Postar, Recarregar
  <2>5. ASSUME NEW a \in Atendentes, Recusar(a) \/ ResponderServico(a) \/ Abortar(a)
        PROVE  OrdemInv' /\ EmOrdem
    BY <2>2, <2>5 DEF Recusar, ResponderServico, Abortar, Ocupado
  <2>6. ASSUME NEW a \in Atendentes, Aceitar(a) \/ DarBaixa(a)
        PROVE  OrdemInv' /\ EmOrdem
    BY <2>3, <2>6 DEF Aceitar, DarBaixa, Ocupado, TypeInv, TypeOK
  <2>7. ASSUME NEW a \in Atendentes, RegistrarServico(a) \/ EnviarEmail(a)
        PROVE  OrdemInv' /\ EmOrdem
    BY <2>3, <2>7 DEF RegistrarServico, EnviarEmail, Ocupado, TypeInv, TypeOK
  <2>8. ASSUME NEW a \in Atendentes, NEW s \in Editores,
               \/ \E p \in Pecas : AbrirEdicao(a, s, p)
               \/ SalvarSemMexer(a, s)
               \/ Ajustar(a, s)
        PROVE  OrdemInv' /\ EmOrdem
    BY <2>3, <2>8 DEF AbrirEdicao, SalvarSemMexer, Ajustar, GravarEdicao, Ocupado
  <2>9. CASE UNCHANGED vars
    BY <2>3, <2>9 DEF vars, Ocupado
  <2>10. QED BY <2>4, <2>5, <2>6, <2>7, <2>8, <2>9 DEF Next, Andar
<1>3. TypeInv /\ OrdemInv /\ [Next]_vars => [EmOrdem]_vars
  BY <1>2
<1>4. QED
  BY <1>1, <1>2, <1>3, TypeCorrect, PTL DEF Spec, TypeInv, TelaNaoRetrocede

=============================================================================
