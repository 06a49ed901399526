------------------------- MODULE EstoqueContasProofs -------------------------
(***************************************************************************)
(* What the stock is worth to the books: servicos.php and pecas.php served *)
(* by one worker implement EstoqueAbstrato, also when requests die between *)
(* their statements; and with any number of workers the books of           *)
(* EstoqueContas close and the stock is overdrawn by a bounded amount.     *)
(***************************************************************************)
EXTENDS EstoqueRefino, EstoqueContas, EstoqueProofs, Somas

-----------------------------------------------------------------------------
(* Refinement *)

AbsVars == <<Saldo, Registrados, Folhas>>

\* The balance seen from the only worker, before and after a step.
LEMMA SaldoDoAtendente ==
  ASSUME NEW a, Atendentes = {a}
  PROVE  /\ Saldo = [p \in Pecas |->
              estoque[p] + IF fase[a] = "baixa"
                           THEN Parcial(pedido[a].form, linha[a] - 1)[p] ELSE 0]
         /\ Saldo' = [p \in Pecas |->
              estoque'[p] + IF fase'[a] = "baixa"
                            THEN Parcial(pedido'[a].form, linha'[a] - 1)[p] ELSE 0]
<1>1. (\E b \in Atendentes : fase[b] = "baixa") <=> fase[a] = "baixa"
  OBVIOUS
<1>2. fase[a] = "baixa" => (CHOOSE b \in Atendentes : fase[b] = "baixa") = a
  OBVIOUS
<1>3. (\E b \in Atendentes : fase'[b] = "baixa") <=> fase'[a] = "baixa"
  OBVIOUS
<1>4. fase'[a] = "baixa" => (CHOOSE b \in Atendentes : fase'[b] = "baixa") = a
  OBVIOUS
<1>5. QED BY <1>1, <1>2, <1>3, <1>4 DEF Saldo, EmCurso

\* No row of a form is behind its first one.
LEMMA ParcialVazio ==
  ASSUME NEW form, NEW p \in Pecas
  PROVE  Parcial(form, 0)[p] = 0
BY DEF Parcial

\* One more row adds what that row asks for.
LEMMA ParcialPasso ==
  ASSUME CadaPecaUmaVez, NEW form \in Formularios, NEW n \in DOMAIN form.itens,
         NEW p \in Pecas
  PROVE  /\ Parcial(form, n)[p] \in Nat
         /\ Parcial(form, n - 1)[p] \in Nat
         /\ form.itens[n].peca = p =>
              Parcial(form, n)[p] = Parcial(form, n - 1)[p] + Quantidade(form.itens[n])
         /\ form.itens[n].peca # p => Parcial(form, n)[p] = Parcial(form, n - 1)[p]
<1>1. /\ n \in Nat \ {0} /\ 1..n \subseteq DOMAIN form.itens
      /\ 1..n = (1..n-1) \cup {n}
      /\ \A i \in DOMAIN form.itens : Quantidade(form.itens[i]) \in Nat
  BY ItensDoFormulario
<1>2. \A i, j \in DOMAIN form.itens :
        form.itens[i].peca = p /\ form.itens[j].peca = p => i = j
  BY DEF CadaPecaUmaVez
<1>3. \A m \in {n, n - 1} : \A i \in 1..m : form.itens[i].peca = p =>
        Parcial(form, m)[p] = Quantidade(form.itens[i])
  <2> SUFFICES ASSUME NEW m \in {n, n - 1}, NEW i \in 1..m, form.itens[i].peca = p
               PROVE  Parcial(form, m)[p] = Quantidade(form.itens[i])
    OBVIOUS
  <2>1. 1..m \subseteq DOMAIN form.itens
    BY <1>1
  <2>2. (CHOOSE j \in 1..m : form.itens[j].peca = p) = i
    BY <1>2, <2>1
  <2>3. QED BY <2>2 DEF Parcial
<1>4. \A m \in {n, n - 1} : (\A i \in 1..m : form.itens[i].peca # p) =>
        Parcial(form, m)[p] = 0
  BY DEF Parcial
<1>5. CASE form.itens[n].peca = p
  <2>1. \A i \in 1..n-1 : form.itens[i].peca # p
    BY <1>1, <1>2, <1>5
  <2>2. QED BY <1>1, <1>3, <1>4, <1>5, <2>1
<1>6. CASE \E i \in 1..n-1 : form.itens[i].peca = p
  BY <1>1, <1>2, <1>3, <1>6
<1>7. CASE \A i \in 1..n : form.itens[i].peca # p
  BY <1>1, <1>4, <1>7
<1>8. QED BY <1>1, <1>5, <1>6, <1>7

\* Steps that leave the stock, the services, the loaded forms and the worker's loop
\* alone.
LEMMA PassoInvisivel ==
  ASSUME UmAtendente, UNCHANGED <<estoque, servicos, edicao>>,
         \A a \in Atendentes : fase[a] # "baixa" /\ fase'[a] # "baixa"
  PROVE  UNCHANGED AbsVars
<1>1. PICK a \in Atendentes : Atendentes = {a}
  BY DEF UmAtendente
<1>2. Saldo' = Saldo
  BY <1>1, SaldoDoAtendente
<1>3. QED BY <1>2 DEF AbsVars, Registrados, Folhas

\* Each UPDATE of the loop leaves the balance as it was: what it takes from the
\* table it adds to what is under way.
LEMMA BaixaInvisivel ==
  ASSUME UmAtendente, CadaPecaUmaVez, TypeInv, NEW a \in Atendentes, DarBaixa(a)
  PROVE  UNCHANGED AbsVars
<1> DEFINE f == pedido[a].form
           n == linha[a]
           q == Quantidade(f.itens[n])
<1>1. /\ f \in Formularios /\ n \in DOMAIN f.itens /\ n \in Nat
      /\ fase[a] = "baixa" /\ fase' = fase /\ pedido' = pedido /\ servicos' = servicos
      /\ linha'[a] = n + 1 /\ edicao' = edicao
  BY DEF DarBaixa, Itens, TypeInv, TypeOK, PedidoEmCurso, Pedido
<1>2. /\ estoque \in [Pecas -> Int] /\ q \in Nat
      /\ estoque' = [estoque EXCEPT ![f.itens[n].peca] = @ - q]
  BY <1>1, ItensDoFormulario DEF DarBaixa, Descontado, Itens, TypeInv, TypeOK
<1>3. Atendentes = {a}
  BY DEF UmAtendente
<1>4. ASSUME NEW p \in Pecas
      PROVE  estoque'[p] + Parcial(f, n)[p] = estoque[p] + Parcial(f, n - 1)[p]
  <2> HIDE DEF q
  <2>1. CASE f.itens[n].peca = p
    <3>1. Parcial(f, n)[p] = Parcial(f, n - 1)[p] + q
      BY <1>1, <2>1, ParcialPasso DEF q
    <3>2. estoque'[p] = estoque[p] - q
      BY <1>2, <2>1
    <3>3. Parcial(f, n - 1)[p] \in Nat /\ estoque[p] \in Int
      BY <1>1, <1>2, ParcialPasso
    <3>4. QED BY <1>2, <3>1, <3>2, <3>3
  <2>2. CASE f.itens[n].peca # p
    <3>1. Parcial(f, n)[p] = Parcial(f, n - 1)[p]
      BY <1>1, <2>2, ParcialPasso
    <3>2. estoque'[p] = estoque[p]
      BY <1>2, <2>2
    <3>3. QED BY <3>1, <3>2
  <2>3. QED BY <2>1, <2>2
<1>5. n + 1 - 1 = n
  BY <1>1
<1>6. Saldo' = Saldo
  <2>1. Saldo = [p \in Pecas |-> estoque[p] + Parcial(f, n - 1)[p]]
    BY <1>1, <1>3, SaldoDoAtendente
  <2>2. Saldo' = [p \in Pecas |-> estoque'[p] + Parcial(f, n)[p]]
    BY <1>1, <1>3, <1>5, SaldoDoAtendente
  <2>3. QED BY <1>4, <2>1, <2>2
<1>7. QED BY <1>1, <1>6 DEF AbsVars, Registrados, Folhas

\* The INSERT is the moment of the abstract service: there is enough of every
\* part, because what the loop took was covered and is not negative afterwards.
LEMMA RegistroFinaliza ==
  ASSUME UmAtendente, CadaPecaUmaVez, TypeInv, SaldoInv, MensagemInv, LinhaInv,
         NEW a \in Atendentes, RegistrarServico(a)
  PROVE  Abstrato!Next
<1> DEFINE f == pedido[a].form
           novo == [pedido |-> pedido[a].id, origem |-> pedido[a].origem, form |-> f]
<1>1. /\ f \in Formularios /\ pedido[a].id \in Numeros /\ fase[a] = "baixa"
      /\ servicos' = servicos \cup {novo} /\ estoque' = estoque
      /\ \A r \in servicos : r.pedido # pedido[a].id
      /\ linha[a] = Len(f.itens) + 1 /\ Len(f.itens) \in Nat
  <2>1. pedido[a] \in Pedido /\ fase[a] = "baixa"
    BY DEF RegistrarServico, TypeInv, PedidoEmCurso
  <2>2. f \in Formularios /\ pedido[a].id \in Numeros
    BY <2>1 DEF Pedido
  <2>3. linha[a] = Len(f.itens) + 1 /\ Len(f.itens) \in Nat
    BY <2>1, <2>2, ItensDoFormulario
    DEF RegistrarServico, SemMaisItens, LinhaInv, Itens, TypeInv, TypeOK
  <2>4. QED
    BY <2>1, <2>2, <2>3 DEF RegistrarServico, Inseridos, MensagemInv, FaseVerdadeira
<1>2. fase'[a] # "baixa"
  BY DEF RegistrarServico, TypeInv, TypeOK
<1>3. Atendentes = {a}
  BY DEF UmAtendente
<1>4. Uso(f) = Parcial(f, linha[a] - 1)
  BY <1>1 DEF Uso
<1>5. Saldo = [p \in Pecas |-> estoque[p] + Uso(f)[p]]
  BY <1>1, <1>3, <1>4, SaldoDoAtendente
<1>6. Saldo' = [p \in Pecas |-> estoque[p] + 0]
  BY <1>1, <1>2, <1>3, SaldoDoAtendente
<1>7. \A p \in Pecas : estoque[p] \in Nat /\ Uso(f)[p] \in Nat
  <2>1. ASSUME NEW p \in Pecas
        PROVE  Uso(f)[p] \in Nat
    <3>1. CASE Len(f.itens) = 0
      BY <3>1, ParcialVazio DEF Uso
    <3>2. CASE Len(f.itens) # 0
      <4>1. Len(f.itens) \in DOMAIN f.itens
        BY <1>1, <3>2, ItensDoFormulario
      <4>2. QED BY <1>1, <4>1, ParcialPasso DEF Uso
    <3>3. QED BY <3>1, <3>2
  <2>2. QED BY <2>1 DEF TypeInv, TypeOK, SaldoInv, EstoqueNaoNegativo
<1>8. Registrados' = Registrados \cup {[numero |-> pedido[a].id, uso |-> Uso(f)]}
  <2> DEFINE ver(r) == [numero |-> r.pedido, uso |-> Uso(r.form)]
  <2>1. ver(novo) = [numero |-> pedido[a].id, uso |-> Uso(f)]
    OBVIOUS
  <2>2. Registrados = {ver(r) : r \in servicos}
    BY DEF Registrados
  <2>3. Registrados' = {ver(r) : r \in servicos \cup {novo}}
    BY <1>1 DEF Registrados
  <2> HIDE DEF ver, novo
  <2>4. QED BY <2>1, <2>2, <2>3
<1>9. \A r \in Registrados : r.numero # pedido[a].id
  BY <1>1 DEF Registrados
<1>10. \A p \in Pecas : Uso(f)[p] <= Saldo[p]
  BY <1>5, <1>7
<1>11. Saldo' = [p \in Pecas |-> Saldo[p] - Uso(f)[p]]
  <2>1. \A p \in Pecas : Saldo[p] - Uso(f)[p] = estoque[p] + 0
    BY <1>5, <1>7
  <2>2. QED BY <1>6, <2>1
<1>12. UNCHANGED Folhas
  BY DEF RegistrarServico, Folhas
<1>13. Abstrato!Finalizar(pedido[a].id, Uso(f))
  BY <1>8, <1>9, <1>10, <1>11, <1>12 DEF Abstrato!Finalizar
<1>14. QED BY <1>1, <1>13 DEF Abstrato!Next

\* What the first rows of a form use of a part that one of them names.
LEMMA ParcialDaLinha ==
  ASSUME CadaPecaUmaVez, NEW form \in Formularios, NEW m \in Int, m <= Len(form.itens),
         NEW i \in 1..m
  PROVE  Parcial(form, m)[form.itens[i].peca] = Quantidade(form.itens[i])
           \/ form.itens[i].peca \notin Pecas
<1> DEFINE p == form.itens[i].peca
<1>1. 1..m \subseteq DOMAIN form.itens
  BY ItensDoFormulario
<1>2. (CHOOSE j \in 1..m : form.itens[j].peca = p) = i
  BY <1>1 DEF CadaPecaUmaVez
<1>3. QED BY <1>2 DEF Parcial

\* A death in the loop of UPDATEs loses the rows already taken, and nothing else.
LEMMA MortePerde ==
  ASSUME UmAtendente, CadaPecaUmaVez, TypeInv, SaldoInv, LinhaInv,
         NEW a \in Atendentes, Abortar(a), fase[a] = "baixa"
  PROVE  Abstrato!Next
<1> DEFINE f == pedido[a].form
           m == linha[a] - 1
           tomadas == {p \in Pecas : \E i \in 1..m : f.itens[i].peca = p}
<1>1. /\ f \in Formularios /\ m \in Int /\ m <= Len(f.itens) /\ Len(f.itens) \in Nat
      /\ estoque \in [Pecas -> Int]
  <2>1. f \in Formularios
    BY DEF TypeInv, PedidoEmCurso, Pedido
  <2>2. Len(f.itens) \in Nat
    BY <2>1, ItensDoFormulario
  <2>3. QED BY <2>1, <2>2 DEF LinhaInv, Itens, TypeInv, TypeOK
<1>2. fase'[a] # "baixa" /\ UNCHANGED <<estoque, servicos>>
  BY DEF Abortar, Responder, TypeInv, TypeOK
<1>3. Atendentes = {a}
  BY DEF UmAtendente
<1>4. /\ Saldo = [p \in Pecas |-> estoque[p] + Parcial(f, m)[p]]
      /\ Saldo' = [p \in Pecas |-> estoque[p] + 0]
  BY <1>2, <1>3, SaldoDoAtendente
<1>5. ASSUME NEW p \in tomadas
      PROVE  Parcial(f, m)[p] = Uso(f)[p] /\ Uso(f)[p] \in Nat
  <2>1. PICK i \in 1..m : f.itens[i].peca = p
    OBVIOUS
  <2>2. p \in Pecas /\ i \in 1..Len(f.itens)
    BY <1>1
  <2>3. Parcial(f, m)[p] = Quantidade(f.itens[i])
    BY <1>1, <2>1, <2>2, ParcialDaLinha
  <2>4. Parcial(f, Len(f.itens))[p] = Quantidade(f.itens[i])
    BY <1>1, <2>1, <2>2, ParcialDaLinha
  <2>5. Quantidade(f.itens[i]) \in Nat
    BY <1>1, <2>2, ItensDoFormulario
  <2>6. QED BY <2>3, <2>4, <2>5 DEF Uso
<1>6. \A p \in Pecas : p \notin tomadas => Parcial(f, m)[p] = 0
  BY DEF Parcial
<1>7. \A p \in Pecas : estoque[p] \in Nat
  BY <1>1 DEF SaldoInv, EstoqueNaoNegativo
<1> HIDE DEF f, m, tomadas
<1>8. \A p \in tomadas : p \in Pecas /\ Uso(f)[p] <= Saldo[p]
  BY <1>4, <1>5, <1>7 DEF tomadas
<1>9. \A p \in Pecas :
        Saldo'[p] = IF p \in tomadas THEN Saldo[p] - Uso(f)[p] ELSE Saldo[p]
  BY <1>4, <1>5, <1>6, <1>7
<1>10. Saldo' = [p \in Pecas |-> IF p \in tomadas THEN Saldo[p] - Uso(f)[p] ELSE Saldo[p]]
  BY <1>4, <1>9
<1>11. UNCHANGED <<Registrados, Folhas>>
  BY <1>2 DEF Registrados, Folhas, Abortar
<1>12. tomadas \in SUBSET Pecas
  BY DEF tomadas
<1>13. Abstrato!Perder(Uso(f), tomadas)
  BY <1>8, <1>10, <1>11 DEF Abstrato!Perder
<1>14. QED BY <1>1, <1>12, <1>13 DEF Abstrato!Next

\* An edit is a count by who holds the sheet of the part: nobody is in the loop
\* while it is saved.
LEMMA EdicaoConta ==
  ASSUME UmAtendente, TypeInv, NEW a \in Atendentes, NEW s \in Editores,
         NEW q \in Nat, GravarEdicao(a, s, q)
  PROVE  Abstrato!Next
<1> DEFINE p == edicao[s].peca
<1>1. /\ p \in Pecas /\ fase[a] = "livre" /\ fase' = fase /\ servicos' = servicos
      /\ estoque \in [Pecas -> Int] /\ estoque' = [estoque EXCEPT ![p] = q]
  BY DEF GravarEdicao, PodeAtender, TypeInv, TypeOK, Edicao
<1>2. Atendentes = {a}
  BY DEF UmAtendente
<1>3. /\ Saldo = [x \in Pecas |-> estoque[x] + 0]
      /\ Saldo' = [x \in Pecas |-> estoque'[x] + 0]
  BY <1>1, <1>2, SaldoDoAtendente
<1> HIDE DEF p
<1>4. /\ \A x \in Pecas : Saldo[x] = estoque[x] /\ Saldo'[x] = estoque'[x]
      /\ estoque'[p] = q /\ \A x \in Pecas : x # p => estoque'[x] = estoque[x]
  BY <1>1, <1>3
<1>5. Saldo'[p] \in Nat /\ Saldo' = [Saldo EXCEPT ![p] = Saldo'[p]]
  BY <1>1, <1>3, <1>4
<1>6. UNCHANGED Registrados
  BY <1>1 DEF Registrados
<1>7. Folhas[s] = p /\ p # Nenhum
  BY <1>1, ConstantesBemFormadas DEF Folhas, GravarEdicao, p
<1>8. Folhas' = [Folhas EXCEPT ![s] = Nenhum]
  BY DEF Folhas, GravarEdicao, TypeInv, TypeOK
<1>9. Abstrato!Contar(s)
  BY <1>5, <1>6, <1>7, <1>8 DEF Abstrato!Contar
<1>10. QED BY <1>9 DEF Abstrato!Next

\* Loading a part into a form takes its sheet.
LEMMA AberturaPegaFolha ==
  ASSUME UmAtendente, TypeInv, NEW a \in Atendentes, NEW s \in Editores,
         NEW p \in Pecas, AbrirEdicao(a, s, p)
  PROVE  Abstrato!Next
<1>1. /\ fase[a] = "livre" /\ UNCHANGED <<estoque, servicos, fase>>
      /\ Atendentes = {a}
  BY DEF AbrirEdicao, PodeAtender, UmAtendente
<1>2. Saldo' = Saldo /\ Registrados' = Registrados
  BY <1>1, SaldoDoAtendente DEF Registrados
<1>3. [peca |-> p, quantidade |-> estoque[p]] # Nenhum
  <2>1. [peca |-> p, quantidade |-> estoque[p]] \in Edicao
    BY DEF Edicao, TypeInv, TypeOK
  <2>2. QED BY <2>1, ConstantesBemFormadas
<1>4. Folhas' = [Folhas EXCEPT ![s] = p]
  BY <1>3 DEF Folhas, AbrirEdicao, TypeInv, TypeOK
<1>5. Abstrato!Abrir(s, p)
  BY <1>2, <1>4 DEF Abstrato!Abrir
<1>6. QED BY <1>5 DEF Abstrato!Next

\* The pages implement the atomic stock.
THEOREM Refinamento ==
  ASSUME UmAtendente, CadaPecaUmaVez, Digitadas \subseteq Nat
  PROVE  Spec => ServicoAtomico
<1>1. Init => Abstrato!Init
  <2> SUFFICES ASSUME Init PROVE Abstrato!Init
    OBVIOUS
  <2>1. PICK a \in Atendentes : Atendentes = {a}
    BY DEF UmAtendente
  <2>2. fase[a] = "livre" /\ estoque = Inicial /\ servicos = {}
    BY DEF Init
  <2>3. Saldo = [p \in Pecas |-> Inicial[p] + 0]
    BY <2>1, <2>2, SaldoDoAtendente
  <2>4. Saldo = Inicial
    BY <2>3, ConstantesBemFormadas
  <2>5. Folhas = [s \in Editores |-> Nenhum]
    BY DEF Init, Folhas
  <2>6. QED BY <2>2, <2>4, <2>5 DEF Abstrato!Init, Registrados
<1>2. TypeInv /\ SaldoInv /\ MensagemInv /\ LinhaInv /\ [Next]_vars
        => [Abstrato!Next]_AbsVars
  <2> SUFFICES ASSUME TypeInv, SaldoInv, MensagemInv, LinhaInv, [Next]_vars
               PROVE  Abstrato!Next \/ UNCHANGED AbsVars
    OBVIOUS
  <2>1. ASSUME NEW a \in Atendentes, fase[a] # "baixa", fase'[a] # "baixa",
               UNCHANGED <<estoque, servicos, edicao>>
        PROVE  UNCHANGED AbsVars
    BY <2>1, PassoInvisivel DEF UmAtendente
  <2>2. ASSUME NEW a \in Atendentes, NEW s \in Sessoes, Postar(a, s) \/ Recarregar(a, s)
        PROVE  UNCHANGED AbsVars
    BY <2>1, <2>2 DEF Postar, Recarregar, Iniciar, PodeAtender, TypeInv, TypeOK
  <2>3. ASSUME NEW a \in Atendentes, Aceitar(a)
        PROVE  UNCHANGED AbsVars
    <3>1. Atendentes = {a}
      BY DEF UmAtendente
    <3>2. /\ fase[a] # "baixa" /\ fase'[a] = "baixa" /\ linha'[a] = 1
          /\ pedido' = pedido /\ UNCHANGED <<estoque, servicos, edicao>>
      BY <2>3 DEF Aceitar, TypeInv, TypeOK
    <3>3. Saldo = [p \in Pecas |-> estoque[p] + 0]
      BY <3>1, <3>2, SaldoDoAtendente
    <3>4. Saldo' = [p \in Pecas |-> estoque[p] + Parcial(pedido[a].form, 0)[p]]
      BY <3>1, <3>2, SaldoDoAtendente
    <3>5. QED BY <3>2, <3>3, <3>4, ParcialVazio DEF AbsVars, Registrados, Folhas
  <2>4. ASSUME NEW a \in Atendentes, Recusar(a) \/ EnviarEmail(a) \/ ResponderServico(a)
        PROVE  UNCHANGED AbsVars
    BY <2>1, <2>4 DEF Recusar, EnviarEmail, ResponderServico, Responder, TypeInv, TypeOK
  <2>5. ASSUME NEW a \in Atendentes, DarBaixa(a)
        PROVE  UNCHANGED AbsVars
    BY <2>5, BaixaInvisivel
  <2>6. ASSUME NEW a \in Atendentes, RegistrarServico(a)
        PROVE  Abstrato!Next
    BY <2>6, RegistroFinaliza
  <2>7. ASSUME NEW a \in Atendentes, NEW s \in Editores, NEW p \in Pecas,
               AbrirEdicao(a, s, p)
        PROVE  Abstrato!Next
    BY <2>7, AberturaPegaFolha
  <2>8. ASSUME NEW a \in Atendentes, NEW s \in Editores, SalvarSemMexer(a, s)
        PROVE  Abstrato!Next
    BY <2>8, EdicaoConta DEF SalvarSemMexer, TypeInv, TypeOK, SaldoInv,
         EdicaoNaoNegativa, Edicao
  <2>9. ASSUME NEW a \in Atendentes, NEW s \in Editores, Ajustar(a, s)
        PROVE  Abstrato!Next
    BY <2>9, EdicaoConta DEF Ajustar
  <2>10. CASE UNCHANGED vars
    <3>1. UNCHANGED <<estoque, servicos, fase, pedido, linha, edicao>>
      BY <2>10 DEF vars
    <3>2. PICK a \in Atendentes : Atendentes = {a}
      BY DEF UmAtendente
    <3>3. Saldo' = Saldo
      BY <3>1, <3>2, SaldoDoAtendente
    <3>4. QED BY <3>1, <3>3 DEF AbsVars, Registrados, Folhas
  <2>11. ASSUME NEW a \in Atendentes, Abortar(a)
         PROVE  Abstrato!Next \/ UNCHANGED AbsVars
    <3>1. CASE fase[a] = "baixa"
      BY <2>11, <3>1, MortePerde
    <3>2. CASE fase[a] # "baixa"
      BY <2>1, <2>11, <3>2 DEF Abortar, Responder, TypeInv, TypeOK
    <3>3. QED BY <3>1, <3>2
  <2>12. QED
    BY <2>2, <2>3, <2>4, <2>5, <2>6, <2>7, <2>8, <2>9, <2>10, <2>11 DEF Next, Andar
<1>3. Spec => [](TypeInv /\ SaldoInv /\ MensagemInv /\ LinhaInv)
  BY SaldoInvariante, MensagemInvariante, LinhaInvariante, TypeCorrect, PTL DEF TypeInv
<1>4. QED
  BY <1>1, <1>2, <1>3, PTL DEF Spec, ServicoAtomico, Abstrato!Spec, Abstrato!abstrato,
                                 AbsVars

-----------------------------------------------------------------------------
(* What rows and forms take *)

\* What a row takes from a part.
LEMMA TiradoDaLinha ==
  ASSUME NEW form \in Formularios, NEW p
  PROVE  \A i \in 1..Len(form.itens) :
           /\ Tirado(form, p)[i] \in Nat
           /\ Tirado(form, p)[i] = IF form.itens[i].peca = p
                                   THEN Quantidade(form.itens[i]) ELSE 0
BY ItensDoFormulario DEF Tirado

\* A form takes nothing before its first row, and each row adds what it takes.
LEMMA ConsumoPasso ==
  ASSUME NEW form \in Formularios, NEW p
  PROVE  /\ Consumo(form, p, 0) = 0
         /\ \A n \in 1..Len(form.itens) :
              Consumo(form, p, n) = Consumo(form, p, n - 1) + Tirado(form, p)[n]
<1> DEFINE t == Tirado(form, p)
<1>1. Len(form.itens) \in Nat /\ \A i \in 1..Len(form.itens) : t[i] \in Nat
  BY ItensDoFormulario, TiradoDaLinha
<1> HIDE DEF t
<1>2. SumFunctionOnSet(t, 1..0) = 0
  <2>1. 1..0 = {}
    OBVIOUS
  <2>2. QED BY <2>1, SomaVazia
<1>3. ASSUME NEW n \in 1..Len(form.itens)
      PROVE  SumFunctionOnSet(t, 1..n) = SumFunctionOnSet(t, 1..(n - 1)) + t[n]
  <2>1. IsFiniteSet(1..(n - 1)) /\ n \notin 1..(n - 1) /\ 1..n = (1..(n - 1)) \cup {n}
    <3>1. n \in Int /\ n - 1 \in Int /\ 1 <= n
      BY <1>1
    <3>2. IsFiniteSet(1..(n - 1))
      BY <3>1, FS_Interval
    <3>3. n \notin 1..(n - 1) /\ 1..n = (1..(n - 1)) \cup {n}
      BY <3>1
    <3>4. QED BY <3>2, <3>3
  <2>2. \A i \in (1..(n - 1)) \cup {n} : t[i] \in Int
    BY <1>1
  <2>3. SumFunctionOnSet(t, (1..(n - 1)) \cup {n}) = t[n] + SumFunctionOnSet(t, 1..(n - 1))
    BY <2>1, <2>2, SomaAcrescenta
  <2>4. SumFunctionOnSet(t, 1..(n - 1)) \in Int /\ t[n] \in Int
    BY <2>1, <2>2, SomaInteira
  <2>5. SumFunctionOnSet(t, 1..n) = t[n] + SumFunctionOnSet(t, 1..(n - 1))
    BY <2>1, <2>3
  <2> DEFINE s == SumFunctionOnSet(t, 1..(n - 1))
  <2> HIDE DEF s
  <2>6. s \in Int /\ SumFunctionOnSet(t, 1..n) = t[n] + s
    BY <2>4, <2>5 DEF s
  <2>7. SumFunctionOnSet(t, 1..n) = s + t[n]
    BY <2>4, <2>6
  <2>8. QED BY <2>7 DEF s
<1>4. QED BY <1>2, <1>3 DEF Consumo, t

\* Some rows of a form take a natural number, at most what all of them take.
LEMMA ConsumoTipo ==
  ASSUME NEW form \in Formularios, NEW p, NEW n \in Int, n <= Len(form.itens)
  PROVE  /\ Consumo(form, p, n) \in Nat
         /\ ConsumoTotal(form, p) \in Nat
         /\ Consumo(form, p, n) <= ConsumoTotal(form, p)
<1>1. /\ Len(form.itens) \in Nat
      /\ \A i \in 1..Len(form.itens) : Tirado(form, p)[i] \in Nat
  BY ItensDoFormulario, TiradoDaLinha
<1>2. /\ 1..n \in SUBSET (1..Len(form.itens))
      /\ IsFiniteSet(1..n) /\ IsFiniteSet(1..Len(form.itens))
  <2>1. IsFiniteSet(1..n) /\ IsFiniteSet(1..Len(form.itens))
    BY <1>1, FS_Interval
  <2>2. 1..n \in SUBSET (1..Len(form.itens))
    BY <1>1
  <2>3. QED BY <2>1, <2>2
<1>3. /\ SumFunctionOnSet(Tirado(form, p), 1..n) \in Nat
      /\ SumFunctionOnSet(Tirado(form, p), 1..Len(form.itens)) \in Nat
  BY <1>1, <1>2, SomaNatural
<1>4. SumFunctionOnSet(Tirado(form, p), 1..n)
        <= SumFunctionOnSet(Tirado(form, p), 1..Len(form.itens))
  BY <1>1, <1>2, SomaSubconjunto
<1>5. QED BY <1>3, <1>4 DEF Consumo, ConsumoTotal

\* What a request in the loop of UPDATEs carries.
LEMMA NoLaco ==
  ASSUME TypeInv, LinhaInv, NEW a \in Atendentes, fase[a] = "baixa"
  PROVE  /\ pedido[a] \in Pedido /\ pedido[a].form \in Formularios
         /\ linha[a] \in Nat /\ linha[a] - 1 \in Int
         /\ linha[a] - 1 <= Len(pedido[a].form.itens)
<1>1. pedido[a] \in Pedido
  BY DEF TypeInv, PedidoEmCurso
<1>2. pedido[a].form \in Formularios
  BY <1>1 DEF Pedido
<1>3. Len(pedido[a].form.itens) \in Nat
  BY <1>2, ItensDoFormulario
<1>4. linha[a] \in Nat /\ linha[a] <= Len(pedido[a].form.itens) + 1
  BY DEF TypeInv, TypeOK, LinhaInv, Itens
<1>5. QED BY <1>1, <1>2, <1>3, <1>4

\* What the running requests have taken are natural numbers.
LEMMA TomadoTipo ==
  ASSUME TypeInv, LinhaInv, NEW p
  PROVE  \A a \in Atendentes : Tomado(p)[a] \in Nat
<1> SUFFICES ASSUME NEW a \in Atendentes PROVE Tomado(p)[a] \in Nat
  OBVIOUS
<1>1. CASE fase[a] = "baixa"
  <2>1. Consumo(pedido[a].form, p, linha[a] - 1) \in Nat
    BY <1>1, NoLaco, ConsumoTipo
  <2>2. QED BY <1>1, <2>1 DEF Tomado
<1>2. CASE fase[a] # "baixa"
  BY <1>2 DEF Tomado
<1>3. QED BY <1>1, <1>2

\* An UPDATE moves what its row takes from the table to the request, and leaves the
\* other parts and the other requests alone.
LEMMA BaixaMove ==
  ASSUME TypeInv, LinhaInv, NEW a \in Atendentes, DarBaixa(a), NEW p \in Pecas
  PROVE  LET q == Tirado(pedido[a].form, p)[linha[a]] IN
         /\ q \in Nat /\ fase[a] = "baixa" /\ linha[a] \in 1..Len(pedido[a].form.itens)
         /\ estoque[p] \in Int /\ estoque'[p] = estoque[p] - q
         /\ Consumo(pedido[a].form, p, linha[a])
              = Consumo(pedido[a].form, p, linha[a] - 1) + q
         /\ linha'[a] = linha[a] + 1 /\ pedido' = pedido /\ fase' = fase
         /\ servicos' = servicos
         /\ \A b \in Atendentes \ {a} : linha'[b] = linha[b]
<1> DEFINE f == pedido[a].form
           n == linha[a]
<1>1. /\ fase[a] = "baixa" /\ pedido[a].form \in Formularios
      /\ fase' = fase /\ pedido' = pedido /\ servicos' = servicos
      /\ linha' = [linha EXCEPT ![a] = @ + 1] /\ n \in DOMAIN f.itens
  BY NoLaco DEF DarBaixa, Itens
<1>2. n \in 1..Len(f.itens) /\ Quantidade(f.itens[n]) \in Nat
  BY <1>1, ItensDoFormulario
<1>3. /\ Tirado(f, p)[n] \in Nat
      /\ Tirado(f, p)[n] = IF f.itens[n].peca = p THEN Quantidade(f.itens[n]) ELSE 0
  BY <1>1, <1>2, TiradoDaLinha
<1>4. Consumo(f, p, n) = Consumo(f, p, n - 1) + Tirado(f, p)[n]
  BY <1>1, <1>2, ConsumoPasso
<1>5. /\ linha \in [Atendentes -> Nat] /\ estoque \in [Pecas -> Int]
      /\ estoque' = [estoque EXCEPT ![f.itens[n].peca] = @ - Quantidade(f.itens[n])]
  BY DEF DarBaixa, Descontado, Itens, TypeInv, TypeOK
<1> HIDE DEF f, n
<1>6. estoque'[p] = estoque[p] - Tirado(f, p)[n]
  <2>1. CASE f.itens[n].peca = p
    BY <1>3, <1>5, <2>1
  <2>2. CASE f.itens[n].peca # p
    BY <1>3, <1>5, <2>2
  <2>3. QED BY <2>1, <2>2
<1>7. linha'[a] = linha[a] + 1 /\ \A b \in Atendentes \ {a} : linha'[b] = linha[b]
  BY <1>1, <1>5
<1>8. QED BY <1>1, <1>2, <1>3, <1>4, <1>5, <1>6, <1>7 DEF f, n

-----------------------------------------------------------------------------
(* The books close when nothing is edited and no request dies. *)

\* The services are finitely many, so that what they took can be added up.
ContasInv == IsFiniteSet(servicos) /\ ContasFecham

\* Both sides of the books are numbers.
LEMMA ContasTipos ==
  ASSUME TypeInv, LinhaInv, IsFiniteSet(Atendentes), IsFiniteSet(servicos), NEW p \in Pecas
  PROVE  /\ estoque[p] \in Int /\ TomadoPorTodos(p) \in Int /\ GastoEmServicos(p) \in Int
         /\ \A r \in servicos : r.form \in Formularios /\ Gasto(p)[r] \in Int
<1>1. estoque[p] \in Int
  BY DEF TypeInv, TypeOK
<1>2. TomadoPorTodos(p) \in Int
  BY TomadoTipo, SomaInteira DEF TomadoPorTodos
<1>3. ASSUME NEW r \in servicos
      PROVE  r.form \in Formularios /\ Gasto(p)[r] \in Int
  <2>1. r.form \in Formularios
    BY DEF TypeInv, TypeOK, Servico
  <2>2. Len(r.form.itens) \in Nat /\ 0 <= Len(r.form.itens)
    BY <2>1, ItensDoFormulario
  <2>3. Consumo(r.form, p, 0) \in Nat /\ ConsumoTotal(r.form, p) \in Nat
    BY <2>1, <2>2, ConsumoTipo
  <2>4. QED BY <2>1, <2>3 DEF Gasto
<1>4. GastoEmServicos(p) \in Int
  BY <1>3, SomaInteira DEF GastoEmServicos
<1>5. QED BY <1>1, <1>2, <1>3, <1>4

\* Steps that write nothing and neither take nor give back rows.
LEMMA ContasIguais ==
  ASSUME ContasInv, UNCHANGED <<estoque, servicos>>,
         \A p \in Pecas : \A b \in Atendentes : Tomado(p)'[b] = Tomado(p)[b]
  PROVE  ContasInv'
<1>1. ASSUME NEW p \in Pecas
      PROVE  estoque'[p] + TomadoPorTodos(p)' + GastoEmServicos(p)' = Inicial[p]
  <2>1. Tomado(p)' = Tomado(p)
    BY DEF Tomado
  <2>2. TomadoPorTodos(p)' = TomadoPorTodos(p)
    BY <2>1 DEF TomadoPorTodos
  <2>3. GastoEmServicos(p)' = GastoEmServicos(p)
    BY DEF GastoEmServicos, Gasto
  <2>4. QED BY <2>2, <2>3 DEF ContasInv, ContasFecham
<1>2. QED BY <1>1 DEF ContasInv, ContasFecham

\* Each UPDATE of the loop.
LEMMA ContasNaBaixa ==
  ASSUME TypeInv, LinhaInv, ContasInv, IsFiniteSet(Atendentes), TypeInv', LinhaInv',
         NEW a \in Atendentes, DarBaixa(a)
  PROVE  ContasInv'
<1>1. ASSUME NEW p \in Pecas
      PROVE  estoque'[p] + TomadoPorTodos(p)' + GastoEmServicos(p)' = Inicial[p]
  <2> DEFINE q == Tirado(pedido[a].form, p)[linha[a]]
             g == [b \in Atendentes |->
                     IF fase'[b] = "baixa" THEN Consumo(pedido'[b].form, p, linha'[b] - 1) ELSE 0]
  <2>1. /\ q \in Nat /\ fase[a] = "baixa"
        /\ estoque[p] \in Int /\ estoque'[p] = estoque[p] - q
        /\ Consumo(pedido[a].form, p, linha[a]) = Consumo(pedido[a].form, p, linha[a] - 1) + q
        /\ linha'[a] = linha[a] + 1 /\ pedido' = pedido /\ fase' = fase
        /\ servicos' = servicos
        /\ \A b \in Atendentes \ {a} : linha'[b] = linha[b]
    BY BaixaMove
  <2>2. linha[a] \in Nat /\ linha'[a] - 1 = linha[a]
    BY <2>1 DEF TypeInv, TypeOK
  <2> HIDE DEF q
  <2>3. g[a] = Tomado(p)[a] + q
    BY <2>1, <2>2 DEF Tomado
  <2>4. \A b \in Atendentes \ {a} : Tomado(p)[b] = g[b]
    BY <2>1 DEF Tomado
  <2>5. \A b \in Atendentes : Tomado(p)[b] \in Int
    BY TomadoTipo
  <2> HIDE DEF g
  <2>6. \A b \in Atendentes : g[b] \in Int
    BY <2>1, <2>3, <2>4, <2>5
  <2>7. SumFunctionOnSet(g, Atendentes)
          = SumFunctionOnSet(Tomado(p), Atendentes) - Tomado(p)[a] + g[a]
    BY <2>4, <2>5, <2>6, SomaTroca
  <2>8. TomadoPorTodos(p)' = SumFunctionOnSet(g, Atendentes)
    BY DEF TomadoPorTodos, Tomado, g
  <2>9. GastoEmServicos(p)' = GastoEmServicos(p)
    BY <2>1 DEF GastoEmServicos, Gasto
  <2>10. estoque[p] + TomadoPorTodos(p) + GastoEmServicos(p) = Inicial[p]
    BY DEF ContasInv, ContasFecham
  <2>11. TomadoPorTodos(p) \in Int /\ GastoEmServicos(p) \in Int /\ Tomado(p)[a] \in Int
    BY <2>5, ContasTipos DEF ContasInv
  <2>12. TomadoPorTodos(p)' = TomadoPorTodos(p) - Tomado(p)[a] + (Tomado(p)[a] + q)
    BY <2>3, <2>7, <2>8 DEF TomadoPorTodos
  <2>13. TomadoPorTodos(p)' = TomadoPorTodos(p) + q
    BY <2>1, <2>11, <2>12
  <2>14. QED BY <2>1, <2>9, <2>10, <2>11, <2>13
<1>2. servicos' = servicos
  BY DEF DarBaixa
<1>3. QED BY <1>1, <1>2 DEF ContasInv, ContasFecham

\* The INSERT turns what the request has taken into what its service took.
LEMMA ContasNoRegistro ==
  ASSUME TypeInv, LinhaInv, MensagemInv, ContasInv, IsFiniteSet(Atendentes), TypeInv',
         NEW a \in Atendentes, RegistrarServico(a)
  PROVE  ContasInv'
<1> DEFINE f == pedido[a].form
           novo == [pedido |-> pedido[a].id, origem |-> pedido[a].origem, form |-> f]
<1>1. /\ fase[a] = "baixa" /\ servicos' = servicos \cup {novo} /\ estoque' = estoque
      /\ novo \notin servicos
  BY DEF RegistrarServico, Inseridos, MensagemInv, FaseVerdadeira
<1>2. /\ f \in Formularios /\ Len(f.itens) \in Int /\ linha[a] - 1 = Len(f.itens)
  <2>1. f \in Formularios /\ linha[a] \in Nat /\ linha[a] - 1 <= Len(f.itens)
    BY <1>1, NoLaco
  <2>2. Len(f.itens) \in Nat
    BY <2>1, ItensDoFormulario
  <2>3. QED BY <2>1, <2>2 DEF RegistrarServico, SemMaisItens, Itens
<1>3. /\ fase'[a] # "baixa"
      /\ \A b \in Atendentes \ {a} :
           fase'[b] = fase[b] /\ pedido'[b] = pedido[b] /\ linha'[b] = linha[b]
  BY DEF RegistrarServico, Responder, TypeInv, TypeOK
<1>4. IsFiniteSet(servicos) /\ IsFiniteSet(servicos')
  BY <1>1, FS_AddElement DEF ContasInv
<1> HIDE DEF novo, f
<1>5. novo.form = f
  BY DEF novo, f
<1>6. ASSUME NEW p \in Pecas
      PROVE  estoque'[p] + TomadoPorTodos(p)' + GastoEmServicos(p)' = Inicial[p]
  <2> DEFINE c == ConsumoTotal(f, p)
             g == [b \in Atendentes |->
                     IF fase'[b] = "baixa" THEN Consumo(pedido'[b].form, p, linha'[b] - 1) ELSE 0]
             h == [r \in servicos \cup {novo} |-> ConsumoTotal(r.form, p)]
  <2>1. c \in Nat
    BY <1>2, ConsumoTipo
  <2>2. Tomado(p)[a] = c
    BY <1>1, <1>2 DEF Tomado, ConsumoTotal, f
  <2>3. g[a] = 0 /\ \A b \in Atendentes \ {a} : Tomado(p)[b] = g[b]
    BY <1>3 DEF Tomado
  <2>4. h[novo] = c /\ \A r \in servicos : h[r] = Gasto(p)[r]
    BY <1>5 DEF Gasto
  <2> HIDE DEF c, g, h
  <2>5. \A b \in Atendentes : Tomado(p)[b] \in Int
    BY TomadoTipo
  <2>6. \A b \in Atendentes : g[b] \in Int
    BY <2>3, <2>5
  <2>7. SumFunctionOnSet(g, Atendentes)
          = SumFunctionOnSet(Tomado(p), Atendentes) - Tomado(p)[a] + g[a]
    BY <2>3, <2>5, <2>6, SomaTroca
  <2>8. TomadoPorTodos(p)' = SumFunctionOnSet(g, Atendentes)
    BY DEF TomadoPorTodos, Tomado, g
  <2>9. /\ \A r \in servicos : Gasto(p)[r] \in Int
        /\ TomadoPorTodos(p) \in Int /\ GastoEmServicos(p) \in Int /\ estoque[p] \in Int
    BY <1>4, ContasTipos
  <2>10. \A r \in servicos \cup {novo} : h[r] \in Int
    BY <2>1, <2>4, <2>9
  <2>11. SumFunctionOnSet(h, servicos \cup {novo}) = h[novo] + SumFunctionOnSet(h, servicos)
    BY <1>1, <1>4, <2>10, SomaAcrescenta
  <2>12. SumFunctionOnSet(h, servicos) = SumFunctionOnSet(Gasto(p), servicos)
    BY <1>4, <2>4, SomaIgual
  <2>13. GastoEmServicos(p)' = SumFunctionOnSet(h, servicos \cup {novo})
    BY <1>1 DEF GastoEmServicos, Gasto, h
  <2>14. GastoEmServicos(p)' = c + GastoEmServicos(p)
    BY <2>4, <2>11, <2>12, <2>13 DEF GastoEmServicos
  <2>15. TomadoPorTodos(p)' = TomadoPorTodos(p) - c + 0
    BY <2>2, <2>3, <2>7, <2>8 DEF TomadoPorTodos
  <2>16. estoque[p] + TomadoPorTodos(p) + GastoEmServicos(p) = Inicial[p]
    BY DEF ContasInv, ContasFecham
  <2>17. estoque'[p] = estoque[p]
    BY <1>1
  <2>18. QED BY <2>1, <2>9, <2>14, <2>15, <2>16, <2>17
<1>7. QED BY <1>4, <1>6 DEF ContasInv, ContasFecham

\* The books of the stock close, for any number of workers, sessions, parts and
\* forms: as long as nobody edits a part and no request dies, the UPDATEs of any
\* number of interleaved requests take from each part exactly what the recorded
\* services and the requests still in their loops account for.
THEOREM ContasSempreFecham ==
  ASSUME IsFiniteSet(Atendentes), Editores = {}, ~Falhas
  PROVE  Spec => []ContasFecham
<1>1. Init => ContasInv
  <2> SUFFICES ASSUME Init PROVE ContasInv
    OBVIOUS
  <2>1. estoque = Inicial /\ servicos = {} /\ \A a \in Atendentes : fase[a] # "baixa"
    BY DEF Init
  <2>2. ASSUME NEW p \in Pecas
        PROVE  estoque[p] + TomadoPorTodos(p) + GastoEmServicos(p) = Inicial[p]
    <3>1. \A a \in Atendentes : Tomado(p)[a] = 0
      BY <2>1 DEF Tomado
    <3>2. TomadoPorTodos(p) = 0
      BY <3>1, SomaZero DEF TomadoPorTodos
    <3>3. GastoEmServicos(p) = 0
      BY <2>1, SomaVazia DEF GastoEmServicos
    <3>4. QED BY <2>1, <3>2, <3>3, ConstantesBemFormadas
  <2>3. QED BY <2>1, <2>2, FS_EmptySet DEF ContasInv, ContasFecham
<1>2. TypeInv /\ LinhaInv /\ MensagemInv /\ ContasInv /\ TypeInv' /\ LinhaInv' /\ [Next]_vars
        => ContasInv'
  <2> SUFFICES ASSUME TypeInv, LinhaInv, MensagemInv, ContasInv, TypeInv', LinhaInv', [Next]_vars
               PROVE  ContasInv'
    OBVIOUS
  <2>1. ASSUME NEW a \in Atendentes, UNCHANGED <<estoque, servicos>>,
               fase[a] # "baixa", fase'[a] # "baixa",
               \A b \in Atendentes \ {a} :
                 fase'[b] = fase[b] /\ pedido'[b] = pedido[b] /\ linha'[b] = linha[b]
        PROVE  ContasInv'
    <3>1. \A p \in Pecas : \A b \in Atendentes : Tomado(p)'[b] = Tomado(p)[b]
      BY <2>1 DEF Tomado
    <3>2. QED BY <2>1, <3>1, ContasIguais
  <2>2. ASSUME NEW a \in Atendentes, NEW s \in Sessoes, Postar(a, s) \/ Recarregar(a, s)
        PROVE  ContasInv'
    BY <2>1, <2>2 DEF Postar, Recarregar, Iniciar, PodeAtender, TypeInv, TypeOK
  <2>3. ASSUME NEW a \in Atendentes, Recusar(a) \/ EnviarEmail(a) \/ ResponderServico(a)
        PROVE  ContasInv'
    BY <2>1, <2>3 DEF Recusar, EnviarEmail, ResponderServico, Responder, TypeInv, TypeOK
  <2>4. ASSUME NEW a \in Atendentes, Aceitar(a)
        PROVE  ContasInv'
    <3>1. /\ fase[a] = "leitura" /\ fase' = [fase EXCEPT ![a] = "baixa"]
          /\ linha' = [linha EXCEPT ![a] = 1] /\ pedido' = pedido
          /\ UNCHANGED <<estoque, servicos>>
          /\ pedido[a].form \in Formularios
      BY <2>4 DEF Aceitar, TypeInv, PedidoEmCurso, Pedido
    <3>2. /\ fase'[a] = "baixa" /\ linha'[a] - 1 = 0
          /\ \A b \in Atendentes \ {a} : fase'[b] = fase[b] /\ linha'[b] = linha[b]
      BY <3>1 DEF TypeInv, TypeOK
    <3>3. ASSUME NEW p \in Pecas, NEW b \in Atendentes
          PROVE  Tomado(p)'[b] = Tomado(p)[b]
      <4>1. CASE b = a
        <5>1. Consumo(pedido[a].form, p, 0) = 0
          BY <3>1, ConsumoPasso
        <5>2. QED BY <3>1, <3>2, <4>1, <5>1 DEF Tomado
      <4>2. CASE b # a
        BY <3>1, <3>2, <4>2 DEF Tomado
      <4>3. QED BY <4>1, <4>2
    <3>4. QED BY <3>1, <3>3, ContasIguais
  <2>5. ASSUME NEW a \in Atendentes, DarBaixa(a)
        PROVE  ContasInv'
    BY <2>5, ContasNaBaixa
  <2>6. ASSUME NEW a \in Atendentes, RegistrarServico(a)
        PROVE  ContasInv'
    BY <2>6, ContasNoRegistro
  <2>7. CASE UNCHANGED vars
    <3>1. \A p \in Pecas : \A b \in Atendentes : Tomado(p)'[b] = Tomado(p)[b]
      BY <2>7 DEF vars, Tomado
    <3>2. QED BY <2>7, <3>1, ContasIguais DEF vars
  <2>8. QED
    BY <2>2, <2>3, <2>4, <2>5, <2>6, <2>7 DEF Next, Andar, Abortar
<1>3. Spec => [](TypeInv /\ LinhaInv /\ MensagemInv)
  BY MensagemInvariante, LinhaInvariante, TypeCorrect, PTL DEF TypeInv
<1>4. ContasInv => ContasFecham
  BY DEF ContasInv
<1>5. QED BY <1>1, <1>2, <1>3, <1>4, PTL DEF Spec

-----------------------------------------------------------------------------
(* How far below zero the stock may go. *)

\* What each running request has still to take, and the stock less all of it.
Resta(p) ==
  [a \in Atendentes |->
     IF fase[a] = "baixa"
     THEN ConsumoTotal(pedido[a].form, p) - Consumo(pedido[a].form, p, linha[a] - 1)
     ELSE 0]

RestaATodos(p) == SumFunctionOnSet(Resta(p), Atendentes)

\* Not only the stock is above the limit: what the running requests have still to
\* take may be taken from it as well.
DescobertoInv ==
  \A p \in Pecas :
    estoque[p] - RestaATodos(p) >= -((Cardinality(Atendentes) - 1) * MaiorConsumo(p))

\* A request may still take a natural number, at most what its form takes.
LEMMA RestaTipo ==
  ASSUME TypeInv, LinhaInv, NEW p, NEW a \in Atendentes
  PROVE  /\ Resta(p)[a] \in Nat
         /\ fase[a] = "baixa" => Resta(p)[a] <= ConsumoTotal(pedido[a].form, p)
<1>1. CASE fase[a] = "baixa"
  <2> DEFINE c == Consumo(pedido[a].form, p, linha[a] - 1)
             t == ConsumoTotal(pedido[a].form, p)
  <2>1. c \in Nat /\ t \in Nat /\ c <= t
    BY <1>1, NoLaco, ConsumoTipo
  <2>2. Resta(p)[a] = t - c
    BY <1>1 DEF Resta
  <2> HIDE DEF c, t
  <2>3. t - c \in Nat /\ t - c <= t
    BY <2>1
  <2>4. QED BY <2>2, <2>3 DEF t
<1>2. CASE fase[a] # "baixa"
  BY <1>2 DEF Resta
<1>3. QED BY <1>1, <1>2

\* The largest consumption of the finitely many forms.
LEMMA MaiorConsumoLimita ==
  ASSUME IsFiniteSet(Formularios), Formularios # {}, NEW p
  PROVE  /\ MaiorConsumo(p) \in Nat
         /\ \A f \in Formularios : ConsumoTotal(f, p) <= MaiorConsumo(p)
<1> DEFINE g == [f \in Formularios |-> ConsumoTotal(f, p)]
           S == {ConsumoTotal(f, p) : f \in Formularios}
<1>1. ASSUME NEW f \in Formularios
      PROVE  ConsumoTotal(f, p) \in Nat
  <2>1. 0 <= Len(f.itens)
    BY ItensDoFormulario
  <2>2. Consumo(f, p, 0) \in Nat /\ ConsumoTotal(f, p) \in Nat
    BY <2>1, ConsumoTipo
  <2>3. QED BY <2>2
<1>2. g \in Surjection(Formularios, S)
  BY DEF Surjection
<1>3. IsFiniteSet(S)
  BY <1>2, FS_Surjection
<1>4. S # {} /\ S \subseteq Int /\ S \subseteq Nat
  BY <1>1
<1>5. \E m \in S : \A x \in S : m >= x
  BY <1>3, <1>4, MaiorExiste
<1>6. MaiorConsumo(p) \in S /\ \A x \in S : MaiorConsumo(p) >= x
  BY <1>5 DEF MaiorConsumo, Max
<1>7. QED BY <1>1, <1>4, <1>6

\* A form that is granted asks for no more of a part than there is, since each part
\* is in one row at most.
LEMMA AceitoCabe ==
  ASSUME CadaPecaUmaVez, NEW f \in Formularios, NEW p \in Pecas, estoque[p] \in Int,
         Atendivel(f, estoque), ConsumoTotal(f, p) # 0
  PROVE  estoque[p] >= ConsumoTotal(f, p)
<1> DEFINE R == 1..Len(f.itens)
           t == Tirado(f, p)
<1>1. R = DOMAIN f.itens /\ IsFiniteSet(R) /\ \A i \in R : t[i] \in Nat
  BY ItensDoFormulario, TiradoDaLinha, FS_Interval
<1>2. \A i \in R : t[i] = IF f.itens[i].peca = p THEN Quantidade(f.itens[i]) ELSE 0
  BY TiradoDaLinha
<1>3. ConsumoTotal(f, p) = SumFunctionOnSet(t, R)
  BY DEF ConsumoTotal, Consumo
<1> HIDE DEF t, R
<1>4. PICK i \in R : f.itens[i].peca = p
  <2>1. (\A i \in R : t[i] = 0) => SumFunctionOnSet(t, R) = 0
    BY <1>1, SomaZero
  <2>2. QED BY <1>2, <1>3, <2>1
<1>5. \A j \in R \ {i} : t[j] = 0
  BY <1>1, <1>2, <1>4 DEF CadaPecaUmaVez
<1>6. IsFiniteSet(R \ {i})
  BY <1>1, FS_RemoveElement
<1>7. SumFunctionOnSet(t, R \ {i}) = 0
  BY <1>5, <1>6, SomaZero
<1>8. SumFunctionOnSet(t, R) = t[i] + SumFunctionOnSet(t, R \ {i})
  BY <1>1, SomaRetira
<1>9. t[i] = Quantidade(f.itens[i]) /\ estoque[p] >= Quantidade(f.itens[i]) /\ t[i] \in Nat
  BY <1>1, <1>2, <1>4 DEF Atendivel, ItemAtendivel
<1>10. QED BY <1>3, <1>7, <1>8, <1>9

\* The bound is a number of the right sign.
LEMMA LimiteNatural ==
  ASSUME IsFiniteSet(Atendentes), Atendentes # {},
         IsFiniteSet(Formularios), Formularios # {}, NEW p
  PROVE  /\ Cardinality(Atendentes) \in Nat \ {0}
         /\ (Cardinality(Atendentes) - 1) * MaiorConsumo(p) \in Nat
<1>1. Cardinality(Atendentes) \in Nat \ {0}
  BY FS_CardinalityType, FS_EmptySet
<1>2. MaiorConsumo(p) \in Nat
  BY MaiorConsumoLimita
<1> DEFINE c == Cardinality(Atendentes) - 1
<1>3. c \in Nat
  BY <1>1
<1> HIDE DEF c
<1>4. c * MaiorConsumo(p) \in Nat
  BY <1>2, <1>3
<1>5. QED BY <1>1, <1>4 DEF c

\* Steps after which every request has at most as much left to take, and the stock is
\* what it was.
LEMMA DescobertoMantido ==
  ASSUME TypeInv, LinhaInv, TypeInv', LinhaInv', DescobertoInv,
         IsFiniteSet(Atendentes), Atendentes # {}, IsFiniteSet(Formularios), Formularios # {},
         UNCHANGED estoque, NEW a \in Atendentes, fase'[a] # "baixa",
         \A b \in Atendentes \ {a} :
           fase'[b] = fase[b] /\ pedido'[b] = pedido[b] /\ linha'[b] = linha[b]
  PROVE  DescobertoInv'
<1>1. ASSUME NEW p \in Pecas
      PROVE  estoque'[p] - RestaATodos(p)'
               >= -((Cardinality(Atendentes) - 1) * MaiorConsumo(p))
  <2> DEFINE g == [b \in Atendentes |->
                     IF fase'[b] = "baixa"
                     THEN ConsumoTotal(pedido'[b].form, p) - Consumo(pedido'[b].form, p, linha'[b] - 1)
                     ELSE 0]
  <2>1. g[a] = 0 /\ \A b \in Atendentes \ {a} : Resta(p)[b] = g[b]
    BY DEF Resta
  <2>2. RestaATodos(p)' = SumFunctionOnSet(g, Atendentes)
    BY DEF RestaATodos, Resta
  <2> HIDE DEF g
  <2>3. \A b \in Atendentes : Resta(p)[b] \in Nat
    BY RestaTipo
  <2>4. \A b \in Atendentes : Resta(p)[b] \in Int /\ g[b] \in Int
    BY <2>1, <2>3
  <2>5. SumFunctionOnSet(g, Atendentes)
          = SumFunctionOnSet(Resta(p), Atendentes) - Resta(p)[a] + g[a]
    BY <2>1, <2>4, SomaTroca
  <2>6. RestaATodos(p) \in Int
    BY <2>4, SomaInteira DEF RestaATodos
  <2>7. RestaATodos(p)' = RestaATodos(p) - Resta(p)[a] + 0
    BY <2>1, <2>2, <2>5 DEF RestaATodos
  <2>8. estoque'[p] = estoque[p] /\ estoque[p] \in Int
    BY DEF TypeInv, TypeOK
  <2> DEFINE L == (Cardinality(Atendentes) - 1) * MaiorConsumo(p)
  <2>9. estoque[p] - RestaATodos(p) >= -L /\ L \in Nat
    BY LimiteNatural DEF DescobertoInv
  <2> HIDE DEF L
  <2>10. estoque'[p] - RestaATodos(p)' >= -L
    BY <2>3, <2>6, <2>7, <2>8, <2>9
  <2>11. QED BY <2>10 DEF L
<1>2. \A p : MaiorConsumo(p)' = MaiorConsumo(p)
  BY DEF MaiorConsumo, ConsumoTotal, Consumo, Tirado
<1>3. QED BY <1>1, <1>2 DEF DescobertoInv

\* An UPDATE takes from the table what the request has no longer to take.
LEMMA DescobertoNaBaixa ==
  ASSUME TypeInv, LinhaInv, TypeInv', LinhaInv', DescobertoInv, IsFiniteSet(Atendentes),
         NEW a \in Atendentes, DarBaixa(a)
  PROVE  DescobertoInv'
<1>1. ASSUME NEW p \in Pecas
      PROVE  estoque'[p] - RestaATodos(p)' = estoque[p] - RestaATodos(p)
  <2> DEFINE q == Tirado(pedido[a].form, p)[linha[a]]
             f == pedido[a].form
             g == [b \in Atendentes |->
                     IF fase'[b] = "baixa"
                     THEN ConsumoTotal(pedido'[b].form, p) - Consumo(pedido'[b].form, p, linha'[b] - 1)
                     ELSE 0]
  <2>1. /\ q \in Nat /\ fase[a] = "baixa"
        /\ estoque[p] \in Int /\ estoque'[p] = estoque[p] - q
        /\ Consumo(f, p, linha[a]) = Consumo(f, p, linha[a] - 1) + q
        /\ linha'[a] = linha[a] + 1 /\ pedido' = pedido /\ fase' = fase
        /\ \A b \in Atendentes \ {a} : linha'[b] = linha[b]
    BY BaixaMove
  <2>2. linha[a] \in Nat /\ linha'[a] - 1 = linha[a]
    BY <2>1 DEF TypeInv, TypeOK
  <2>3. Consumo(f, p, linha[a] - 1) \in Nat /\ ConsumoTotal(f, p) \in Nat
    BY <2>1, NoLaco, ConsumoTipo
  <2>4. /\ g[a] = ConsumoTotal(f, p) - Consumo(f, p, linha[a])
        /\ Resta(p)[a] = ConsumoTotal(f, p) - Consumo(f, p, linha[a] - 1)
    BY <2>1, <2>2 DEF Resta
  <2>5. \A b \in Atendentes \ {a} : Resta(p)[b] = g[b]
    BY <2>1 DEF Resta
  <2>6. RestaATodos(p)' = SumFunctionOnSet(g, Atendentes)
    BY DEF RestaATodos, Resta
  <2> HIDE DEF g, q, f
  <2>7. g[a] = Resta(p)[a] - q
    BY <2>1, <2>3, <2>4
  <2>8. \A b \in Atendentes : Resta(p)[b] \in Int
    BY RestaTipo
  <2>9. \A b \in Atendentes : g[b] \in Int
    BY <2>1, <2>5, <2>7, <2>8
  <2>10. SumFunctionOnSet(g, Atendentes)
          = SumFunctionOnSet(Resta(p), Atendentes) - Resta(p)[a] + g[a]
    BY <2>5, <2>8, <2>9, SomaTroca
  <2>11. RestaATodos(p) \in Int
    BY <2>8, SomaInteira DEF RestaATodos
  <2>12. RestaATodos(p)' = RestaATodos(p) - Resta(p)[a] + (Resta(p)[a] - q)
    BY <2>6, <2>7, <2>10 DEF RestaATodos
  <2>13. RestaATodos(p)' = RestaATodos(p) - q
    BY <2>1, <2>8, <2>11, <2>12
  <2>14. QED BY <2>1, <2>11, <2>13
<1>2. \A p : MaiorConsumo(p)' = MaiorConsumo(p)
  BY DEF MaiorConsumo, ConsumoTotal, Consumo, Tirado
<1>3. QED BY <1>1, <1>2 DEF DescobertoInv

\* The check against the snapshot grants what there is; what is not there any more is
\* at most what the other workers have still to take.
LEMMA DescobertoAoAceitar ==
  ASSUME TypeInv, LinhaInv, DescobertoInv, CadaPecaUmaVez,
         IsFiniteSet(Atendentes), Atendentes # {}, IsFiniteSet(Formularios), Formularios # {},
         NEW a \in Atendentes, Aceitar(a)
  PROVE  DescobertoInv'
<1> DEFINE f == pedido[a].form
<1>1. /\ fase[a] = "leitura" /\ fase' = [fase EXCEPT ![a] = "baixa"]
      /\ linha' = [linha EXCEPT ![a] = 1] /\ pedido' = pedido /\ estoque' = estoque
      /\ f \in Formularios /\ Atendivel(f, estoque)
  BY DEF Aceitar, TypeInv, PedidoEmCurso, Pedido
<1>2. /\ fase'[a] = "baixa" /\ linha'[a] - 1 = 0
      /\ \A b \in Atendentes \ {a} : fase'[b] = fase[b] /\ linha'[b] = linha[b]
  BY <1>1 DEF TypeInv, TypeOK
<1> HIDE DEF f
<1>3. ASSUME NEW p \in Pecas
      PROVE  estoque'[p] - RestaATodos(p)'
               >= -((Cardinality(Atendentes) - 1) * MaiorConsumo(p))
  <2> DEFINE c == ConsumoTotal(f, p)
             outros == Atendentes \ {a}
             L == (Cardinality(Atendentes) - 1) * MaiorConsumo(p)
             g == [b \in Atendentes |->
                     IF fase'[b] = "baixa"
                     THEN ConsumoTotal(pedido'[b].form, p) - Consumo(pedido'[b].form, p, linha'[b] - 1)
                     ELSE 0]
             s == SumFunctionOnSet(Resta(p), outros)
  <2>1. Consumo(f, p, 0) = 0 /\ c \in Nat
    <3>1. 0 <= Len(f.itens)
      BY <1>1, ItensDoFormulario
    <3>2. Consumo(f, p, 0) = 0
      BY <1>1, ConsumoPasso
    <3>3. Consumo(f, p, 0) \in Nat /\ ConsumoTotal(f, p) \in Nat
      BY <1>1, <3>1, ConsumoTipo
    <3>4. QED BY <3>2, <3>3
  <2>2. g[a] = c - 0
    BY <1>1, <1>2, <2>1 DEF f
  <2>3. \A b \in outros : Resta(p)[b] = g[b]
    BY <1>1, <1>2 DEF Resta
  <2>4. Resta(p)[a] = 0
    BY <1>1 DEF Resta
  <2>5. RestaATodos(p)' = SumFunctionOnSet(g, Atendentes)
    BY DEF RestaATodos, Resta
  <2>6. \A b \in Atendentes : Resta(p)[b] \in Int /\ Resta(p)[b] \in Nat
    BY RestaTipo
  <2> HIDE DEF g, c
  <2>7. \A b \in Atendentes : g[b] \in Int
    BY <2>1, <2>2, <2>3, <2>6
  <2>8. IsFiniteSet(outros) /\ Cardinality(outros) = Cardinality(Atendentes) - 1
    BY FS_RemoveElement
  <2>9. \A b \in outros : Resta(p)[b] <= MaiorConsumo(p)
    <3> SUFFICES ASSUME NEW b \in Atendentes PROVE Resta(p)[b] <= MaiorConsumo(p)
      OBVIOUS
    <3>1. MaiorConsumo(p) \in Nat
      BY MaiorConsumoLimita
    <3>2. CASE fase[b] = "baixa"
      <4>1. pedido[b].form \in Formularios
        BY <3>2, NoLaco
      <4>2. /\ ConsumoTotal(pedido[b].form, p) <= MaiorConsumo(p)
            /\ Consumo(pedido[b].form, p, 0) \in Nat /\ ConsumoTotal(pedido[b].form, p) \in Nat
        <5>1. 0 <= Len(pedido[b].form.itens)
          BY <4>1, ItensDoFormulario
        <5>2. /\ Consumo(pedido[b].form, p, 0) \in Nat
              /\ ConsumoTotal(pedido[b].form, p) \in Nat
          BY <4>1, <5>1, ConsumoTipo
        <5>3. QED BY <4>1, <5>2, MaiorConsumoLimita
      <4>3. Resta(p)[b] \in Nat /\ Resta(p)[b] <= ConsumoTotal(pedido[b].form, p)
        BY <3>2, RestaTipo
      <4>4. QED BY <3>1, <4>2, <4>3
    <3>3. CASE fase[b] # "baixa"
      <4>1. Resta(p)[b] = 0
        BY <3>3 DEF Resta
      <4>2. QED BY <3>1, <4>1
    <3>4. QED BY <3>2, <3>3
  <2>10. s <= L
    <3>1. MaiorConsumo(p) \in Int
      BY MaiorConsumoLimita
    <3>2. SumFunctionOnSet(Resta(p), outros) <= Cardinality(outros) * MaiorConsumo(p)
      <4> HIDE DEF outros
      <4>1. \A b \in outros : Resta(p)[b] \in Int /\ Resta(p)[b] <= MaiorConsumo(p)
        BY <2>6, <2>9 DEF outros
      <4>2. QED BY <2>8, <3>1, <4>1, SomaLimitada
    <3>3. QED BY <2>8, <3>2
  <2>11. /\ SumFunctionOnSet(g, Atendentes) = g[a] + SumFunctionOnSet(g, outros)
         /\ SumFunctionOnSet(Resta(p), Atendentes) = Resta(p)[a] + s
    BY <2>6, <2>7, SomaRetira
  <2>12. SumFunctionOnSet(g, outros) = s
    BY <2>3, <2>8, SomaIgual
  <2>13. s \in Int
    BY <2>6, <2>8, SomaInteira
  <2>14. L \in Nat
    BY LimiteNatural
  <2>15. estoque[p] \in Int /\ estoque[p] - RestaATodos(p) >= -L
    BY DEF DescobertoInv, TypeInv, TypeOK
  <2>16. c = 0 \/ estoque[p] >= c
    BY <1>1, <2>15, AceitoCabe DEF c
  <2> HIDE DEF s, L, outros
  <2>17. RestaATodos(p) = 0 + s /\ RestaATodos(p)' = c - 0 + s
    BY <2>2, <2>4, <2>5, <2>11, <2>12 DEF RestaATodos
  <2>18. estoque[p] - (c - 0 + s) >= -L
    BY <2>1, <2>10, <2>13, <2>14, <2>15, <2>16, <2>17
  <2>19. QED BY <1>1, <2>17, <2>18 DEF L
<1>4. \A p : MaiorConsumo(p)' = MaiorConsumo(p)
  BY DEF MaiorConsumo, ConsumoTotal, Consumo, Tirado
<1>5. QED BY <1>3, <1>4 DEF DescobertoInv

\* The stock may be overdrawn by the forms of all workers but one, and no further,
\* for any number of workers and also when requests die in their loops: a worker is
\* granted what the snapshot shows, and only what the others have still to take may be
\* missing from it.  Each form names a part once, and nobody edits the stock.
THEOREM DescobertoSempreLimitado ==
  ASSUME IsFiniteSet(Atendentes), Atendentes # {}, IsFiniteSet(Formularios),
         Formularios # {}, CadaPecaUmaVez, Editores = {}
  PROVE  Spec => []DescobertoLimitado
<1>1. Init => DescobertoInv
  <2> SUFFICES ASSUME Init PROVE DescobertoInv
    OBVIOUS
  <2>1. estoque = Inicial /\ \A a \in Atendentes : fase[a] # "baixa"
    BY DEF Init
  <2>2. ASSUME NEW p \in Pecas
        PROVE  estoque[p] - RestaATodos(p)
                 >= -((Cardinality(Atendentes) - 1) * MaiorConsumo(p))
    <3>1. \A a \in Atendentes : Resta(p)[a] = 0
      BY <2>1 DEF Resta
    <3>2. RestaATodos(p) = 0
      BY <3>1, SomaZero DEF RestaATodos
    <3> DEFINE L == (Cardinality(Atendentes) - 1) * MaiorConsumo(p)
    <3>3. L \in Nat
      BY LimiteNatural
    <3>4. estoque[p] \in Nat
      BY <2>1, ConstantesBemFormadas
    <3> HIDE DEF L
    <3>5. estoque[p] - RestaATodos(p) >= -L
      BY <3>2, <3>3, <3>4
    <3>6. QED BY <3>5 DEF L
  <2>3. QED BY <2>2 DEF DescobertoInv
<1>2. TypeInv /\ LinhaInv /\ DescobertoInv /\ TypeInv' /\ LinhaInv' /\ [Next]_vars
        => DescobertoInv'
  <2> SUFFICES ASSUME TypeInv, LinhaInv, DescobertoInv, TypeInv', LinhaInv', [Next]_vars
               PROVE  DescobertoInv'
    OBVIOUS
  <2>1. ASSUME NEW a \in Atendentes, NEW s \in Sessoes, Postar(a, s) \/ Recarregar(a, s)
        PROVE  DescobertoInv'
    BY <2>1, DescobertoMantido DEF Postar, Recarregar, Iniciar, TypeInv, TypeOK
  <2>2. ASSUME NEW a \in Atendentes,
               \/ Recusar(a) \/ RegistrarServico(a) \/ EnviarEmail(a)
               \/ ResponderServico(a) \/ Abortar(a)
        PROVE  DescobertoInv'
    <3>1. /\ UNCHANGED estoque /\ fase'[a] # "baixa"
          /\ \A b \in Atendentes \ {a} :
               fase'[b] = fase[b] /\ pedido'[b] = pedido[b] /\ linha'[b] = linha[b]
      BY <2>2
      DEF Recusar, RegistrarServico, EnviarEmail, ResponderServico, Abortar, Responder,
          TypeInv, TypeOK
    <3>2. QED BY <3>1, DescobertoMantido
  <2>3. ASSUME NEW a \in Atendentes, Aceitar(a)
        PROVE  DescobertoInv'
    BY <2>3, DescobertoAoAceitar
  <2>4. ASSUME NEW a \in Atendentes, DarBaixa(a)
        PROVE  DescobertoInv'
    BY <2>4, DescobertoNaBaixa
  <2>5. CASE UNCHANGED vars
    BY <2>5 DEF vars, DescobertoInv, RestaATodos, Resta, MaiorConsumo, ConsumoTotal, Consumo,
                Tirado
  <2>6. QED BY <2>1, <2>2, <2>3, <2>4, <2>5 DEF Next, Andar
<1>3. TypeInv /\ LinhaInv /\ DescobertoInv => DescobertoLimitado
  <2> SUFFICES ASSUME TypeInv, LinhaInv, DescobertoInv, NEW p \in Pecas
               PROVE  estoque[p] >= -((Cardinality(Atendentes) - 1) * MaiorConsumo(p))
    BY DEF DescobertoLimitado
  <2> DEFINE L == (Cardinality(Atendentes) - 1) * MaiorConsumo(p)
  <2>1. estoque[p] - RestaATodos(p) >= -L /\ L \in Nat /\ estoque[p] \in Int
    BY LimiteNatural DEF DescobertoInv, TypeInv, TypeOK
  <2>2. \A a \in Atendentes : Resta(p)[a] \in Nat
    BY RestaTipo
  <2>3. RestaATodos(p) \in Nat
    BY <2>2, SomaNatural DEF RestaATodos
  <2> HIDE DEF L
  <2>4. estoque[p] >= -L
    BY <2>1, <2>3
  <2>5. QED BY <2>4 DEF L
<1>4. Spec => [](TypeInv /\ LinhaInv)
  BY LinhaInvariante, TypeCorrect, PTL DEF TypeInv
<1>5. QED BY <1>1, <1>2, <1>3, <1>4, PTL DEF Spec

=============================================================================
