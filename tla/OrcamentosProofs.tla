-------------------------- MODULE OrcamentosProofs --------------------------
(***************************************************************************)
(* Theorems of Orcamentos for any parts, prices, forms, sessions, posts.   *)
(***************************************************************************)
EXTENDS Orcamentos, Somas

\* The rows that a form can give, from one reading of the prices.
Linhas == {Linha(form, lidos, n) : form \in Formularios, lidos \in [Pecas -> Nat], n \in Nat}

Tipos ==
  /\ preco \in [Pecas -> Nat]
  /\ orcamentos \in Seq(Linhas)
  /\ fase \in [Sessoes -> Fases]
  /\ pedido \in [Sessoes -> Pedido \cup {Nenhum}]
  /\ tela \in [Sessoes -> Tela \cup {Nenhum}]
  /\ numero \in 0..MaxPedidos

\* A request for a mail knows the row it is about: its own, made from what it read,
\* or one that was stored before.
PedidoBom(p, f) ==
  /\ p \in Pedido
  /\ f \in {"ler", "inserir", "enviar"} => p.form \in Formularios
  /\ f = "inserir" /\ p.banco => p.lidos \in [Pecas -> Nat]
  /\ f = "enviar" => p.id \in Ids /\ orcamentos[p.id] = Linha(p.form, p.lidos, p.numero)
  /\ f = "reenviar" => p.id \in Ids

PedidosInv == \A s \in Sessoes : fase[s] # "livre" => PedidoBom(pedido[s], fase[s])

EmailBom(e) ==
  /\ e.id \in Ids
  /\ e.total = orcamentos[e.id].total
  /\ orcamentos[e.id].peca # Nenhum => e.quantidade = orcamentos[e.id].quantidade

EmailsInv == \A e \in emails : EmailBom(e)

\* What a screen says of a quotation that was saved.
TelaBoa(t) ==
  /\ t.aviso \in {"salvo", "salvo_e_enviado", "salvo_nao_enviado", "salvo_sem_email"}
       => ~t.banco \/ \E i \in Ids : orcamentos[i].numero = t.numero
  /\ t.aviso = "salvo_e_enviado" => \E e \in emails : orcamentos[e.id].numero = t.numero

TelasInv == \A s \in Sessoes : tela[s] # Nenhum => TelaBoa(tela[s])

OrcamentosInv == Tipos /\ PedidosInv /\ EmailsInv /\ TelasInv

-----------------------------------------------------------------------------
(* What the sums give. *)

\* The rows of a form are counted from 1 and taken for at least one unit each.
LEMMA ItensDoFormulario ==
  ASSUME NEW form \in Formularios
  PROVE  /\ DOMAIN form.itens = 1..Len(form.itens) /\ Len(form.itens) \in Nat
         /\ IsFiniteSet(DOMAIN form.itens)
         /\ \A i \in DOMAIN form.itens : Quantidade(form.itens[i]) \in Nat \ {0}
         /\ form.cliente \in Clientes \cup {Nenhum}
         /\ form.maoObra \in Int /\ form.desconto \in Int
<1>1. form \in Formulario
  BY OrcamentosConstantes
<1>2. form.itens \in Seq(Item) /\ form.maoObra \in Int /\ form.desconto \in Int
  BY <1>1 DEF Formulario
<1>3. DOMAIN form.itens = 1..Len(form.itens) /\ Len(form.itens) \in Nat
  BY <1>2
<1>4. IsFiniteSet(DOMAIN form.itens)
  BY <1>3, FS_Interval
<1>5. \A i \in DOMAIN form.itens : form.itens[i] \in Item
  BY <1>2
<1>6. \A i \in DOMAIN form.itens : Quantidade(form.itens[i]) \in Nat \ {0}
  BY <1>5 DEF Item, Quantidade
<1>7. QED BY <1>1, <1>2, <1>3, <1>4, <1>6 DEF Formulario

\* The quantities of a form that has rows add up to at least one.
LEMMA QuantidadeTotalPositiva ==
  ASSUME NEW form \in Formularios
  PROVE  /\ QuantidadeTotal(form.itens) \in Nat
         /\ DOMAIN form.itens # {} => QuantidadeTotal(form.itens) \in Nat \ {0}
<1> DEFINE R == DOMAIN form.itens
           q == [i \in R |-> Quantidade(form.itens[i])]
<1>1. IsFiniteSet(R) /\ \A i \in R : q[i] \in Nat \ {0}
  BY ItensDoFormulario
<1>2. QuantidadeTotal(form.itens) = SumFunctionOnSet(q, R)
  BY DEF QuantidadeTotal, SumFunction
<1> HIDE DEF R, q
<1>3. SumFunctionOnSet(q, R) \in Nat /\ \A i \in R : q[i] <= SumFunctionOnSet(q, R)
  BY <1>1, SomaNatural
<1>4. R # {} => SumFunctionOnSet(q, R) # 0
  BY <1>1, <1>3
<1>5. QED BY <1>2, <1>3, <1>4 DEF R

\* The first row that names a part is one of those that do.
LEMMA PrimeiraValida ==
  ASSUME NEW form \in Formularios, NEW lidos, Validas(form.itens, lidos) # {}
  PROVE  Primeira(form.itens, lidos) \in Validas(form.itens, lidos)
<1>1. Validas(form.itens, lidos) \subseteq Nat
  BY ItensDoFormulario DEF Validas
<1>2. \E m \in Validas(form.itens, lidos) : \A x \in Validas(form.itens, lidos) : m <= x
  BY <1>1, MenorExiste
<1>3. QED BY <1>2 DEF Primeira, Min

\* The id bound to the INSERT is one that was posted.
LEMMA PrincipalPostado ==
  ASSUME NEW form \in Formularios, NEW lidos \in [Pecas -> Nat],
         Validas(form.itens, lidos) # {}
  PROVE  Principal(form.itens) \in Pecas \cup Outras
<1> DEFINE P == {i \in DOMAIN form.itens : form.itens[i].peca # Nenhum}
<1>1. P \subseteq Nat
  BY ItensDoFormulario
<1>2. P # {}
  BY OrcamentosConstantes DEF Validas
<1>3. \E m \in P : \A x \in P : m <= x
  BY <1>1, <1>2, MenorExiste
<1>4. Min(P) \in P
  BY <1>3 DEF Min
<1>5. form.itens \in Seq(Item)
  BY OrcamentosConstantes DEF Formulario
<1>6. \A i \in P : form.itens[i].peca \in Pecas \cup Outras
  <2>1. \A i \in DOMAIN form.itens : form.itens[i] \in Item
    BY <1>5
  <2>2. QED BY <2>1 DEF Item
<1>7. Principal(form.itens) = form.itens[Min(P)].peca
  BY DEF Principal
<1>8. QED BY <1>4, <1>6, <1>7

\* The parts of a form are worth a natural number at natural prices.
LEMMA ValorNatural ==
  ASSUME NEW form \in Formularios, NEW lidos \in [Pecas -> Nat]
  PROVE  ValorItens(form.itens, lidos) \in Nat
<1> DEFINE V == Validas(form.itens, lidos)
           v == [i \in V |-> lidos[form.itens[i].peca] * Quantidade(form.itens[i])]
<1>1. V \in SUBSET DOMAIN form.itens /\ \A i \in V : form.itens[i].peca \in Pecas
  BY DEF Validas
<1>2. IsFiniteSet(V)
  BY <1>1, ItensDoFormulario, FS_Subset
<1>3. ASSUME NEW i \in V
      PROVE  v[i] \in Nat
  <2>1. lidos[form.itens[i].peca] \in Nat /\ Quantidade(form.itens[i]) \in Nat
    BY <1>1, ItensDoFormulario
  <2>2. \A a, b \in Nat : a * b \in Nat
    OBVIOUS
  <2>3. QED BY <2>1, <2>2
<1>4. ValorItens(form.itens, lidos) = SumFunctionOnSet(v, V)
  BY DEF ValorItens, SumFunction
<1> HIDE DEF V, v
<1>5. QED BY <1>2, <1>3, <1>4, SomaNatural

\* A total is never negative.
LEMMA TotalNatural ==
  ASSUME NEW form \in Formularios, NEW lidos \in [Pecas -> Nat]
  PROVE  Total(form, lidos) \in Nat
<1>1. ValorItens(form.itens, lidos) \in Int /\ form.maoObra \in Int /\ form.desconto \in Int
  BY ValorNatural, ItensDoFormulario
<1>2. QED BY <1>1 DEF Total, ComPiso

\* What is bound to the INSERT has the types of the columns.
LEMMA LinhaTipo ==
  ASSUME NEW form \in Formularios, NEW lidos \in [Pecas -> Nat], NEW n \in Nat
  PROVE  Linha(form, lidos, n) \in Orcamento
<1> DEFINE ha == Validas(form.itens, lidos) # {}
           i == Primeira(form.itens, lidos)
<1>1. ha => i \in DOMAIN form.itens /\ form.itens[i].peca \in Pecas
  BY PrimeiraValida DEF Validas
<1>2. ha => QuantidadeTotal(form.itens) \in Nat \ {0}
  BY <1>1, QuantidadeTotalPositiva
<1>3. ha => lidos[form.itens[i].peca] \in Nat
  BY <1>1
<1>4. Total(form, lidos) \in Nat
  BY TotalNatural
<1> DEFINE peca == IF ha THEN Principal(form.itens) ELSE Nenhum
           quantidade == IF ha THEN QuantidadeTotal(form.itens) ELSE 1
           unitario == IF ha THEN lidos[form.itens[i].peca] ELSE 0
<1>5. peca \in Pecas \cup Outras \cup {Nenhum} /\ quantidade \in Nat \ {0} /\ unitario \in Nat
  BY <1>1, <1>2, <1>3, PrincipalPostado
<1>6. Linha(form, lidos, n) =
        [cliente |-> form.cliente, peca |-> peca, quantidade |-> quantidade,
         unitario |-> unitario, maoObra |-> form.maoObra, desconto |-> form.desconto,
         total |-> Total(form, lidos), form |-> form, lidos |-> lidos, numero |-> n]
  BY DEF Linha
<1> HIDE DEF peca, quantidade, unitario
<1>7. form.cliente \in Clientes \cup {Nenhum} /\ form.maoObra \in Int /\ form.desconto \in Int
  BY ItensDoFormulario
<1>8. QED BY <1>4, <1>5, <1>6, <1>7 DEF Orcamento

\* The row of a form whose parts had one price adds up to its total.
LEMMA LinhaSoma ==
  ASSUME NEW form \in Formularios, NEW lidos \in [Pecas -> Nat], NEW n \in Nat,
         UmPrecoSo(Linha(form, lidos, n))
  PROVE  LET l == Linha(form, lidos, n) IN
         ComPiso(l.unitario * l.quantidade + l.maoObra - l.desconto) = l.total
<1> DEFINE l == Linha(form, lidos, n)
           R == DOMAIN form.itens
           q == [i \in R |-> Quantidade(form.itens[i])]
           v == [i \in Validas(form.itens, lidos) |->
                   lidos[form.itens[i].peca] * Quantidade(form.itens[i])]
<1>1. /\ l.form = form /\ l.lidos = lidos /\ l.maoObra = form.maoObra
      /\ l.desconto = form.desconto /\ l.total = Total(form, lidos)
      /\ Validas(form.itens, lidos) # {} =>
           /\ l.quantidade = QuantidadeTotal(form.itens)
           /\ l.unitario = lidos[form.itens[Primeira(form.itens, lidos)].peca]
      /\ Validas(form.itens, lidos) = {} => l.quantidade = 1 /\ l.unitario = 0
  BY DEF Linha
<1>2. /\ \A j \in R : form.itens[j].peca \in Pecas
      /\ \A j, k \in R : lidos[form.itens[j].peca] = lidos[form.itens[k].peca]
  BY <1>1 DEF UmPrecoSo
<1>3. Validas(form.itens, lidos) = R
  BY <1>2 DEF Validas
<1>4. /\ QuantidadeTotal(form.itens) = SumFunctionOnSet(q, R)
      /\ ValorItens(form.itens, lidos) = SumFunctionOnSet(v, R)
  BY <1>3 DEF QuantidadeTotal, ValorItens, SumFunction
<1>5. l.unitario * l.quantidade = ValorItens(form.itens, lidos)
  <2>1. CASE R = {}
    <3>1. SumFunctionOnSet(v, R) = 0
      BY <2>1, SomaVazia
    <3>2. QED BY <1>1, <1>3, <1>4, <2>1, <3>1
  <2>2. CASE R # {}
    <3> DEFINE c == lidos[form.itens[Primeira(form.itens, lidos)].peca]
    <3>1. Primeira(form.itens, lidos) \in R
      BY <1>3, <2>2, PrimeiraValida
    <3>2. c \in Int
      BY <1>2, <3>1
    <3>3. IsFiniteSet(R) /\ \A i \in R : q[i] \in Int
      BY ItensDoFormulario
    <3>4. \A i \in R : v[i] = c * q[i]
      BY <1>2, <1>3, <3>1
    <3>5. l.unitario = c /\ l.quantidade = SumFunctionOnSet(q, R)
      BY <1>1, <1>3, <1>4, <2>2
    <3> HIDE DEF c, q, v, R, l
    <3>6. SumFunctionOnSet(v, R) = c * SumFunctionOnSet(q, R)
      BY <3>2, <3>3, <3>4, SomaFator
    <3>7. QED BY <1>4, <3>5, <3>6
  <2>3. QED BY <2>1, <2>2
<1>6. QED BY <1>1, <1>5 DEF Total

-----------------------------------------------------------------------------
(* Rows are only ever added. *)

\* A new row comes after the others and leaves them as they are.
LEMMA NovaLinha ==
  ASSUME orcamentos \in Seq(Linhas), NEW l \in Linhas, orcamentos' = Append(orcamentos, l)
  PROVE  /\ orcamentos' \in Seq(Linhas)
         /\ Len(orcamentos') = Len(orcamentos) + 1
         /\ Ids \subseteq Ids' /\ Len(orcamentos') \in Ids'
         /\ orcamentos'[Len(orcamentos')] = l
         /\ \A i \in Ids : orcamentos'[i] = orcamentos[i]
BY DEF Ids

\* What was said, mailed or asked about the rows there were still holds.
LEMMA Persistem ==
  ASSUME Ids \subseteq Ids', \A i \in Ids : orcamentos'[i] = orcamentos[i],
         emails \subseteq emails', EmailsInv
  PROVE  /\ \A p, f : PedidoBom(p, f) => PedidoBom(p, f)'
         /\ \A e \in emails : EmailBom(e)'
         /\ \A t : TelaBoa(t) => TelaBoa(t)'
<1>1. ASSUME NEW p, NEW f, PedidoBom(p, f) PROVE PedidoBom(p, f)'
  BY <1>1 DEF PedidoBom
<1>2. \A e \in emails : e.id \in Ids
  BY DEF EmailsInv, EmailBom
<1>3. ASSUME NEW e \in emails PROVE EmailBom(e)'
  BY <1>2 DEF EmailsInv, EmailBom
<1>4. ASSUME NEW t, TelaBoa(t) PROVE TelaBoa(t)'
  <2>1. (\E i \in Ids : orcamentos[i].numero = t.numero)
          => \E i \in Ids' : orcamentos'[i].numero = t.numero
    OBVIOUS
  <2>2. (\E e \in emails : orcamentos[e.id].numero = t.numero)
          => \E e \in emails' : orcamentos'[e.id].numero = t.numero
    BY <1>2
  <2>3. QED BY <1>4, <2>1, <2>2 DEF TelaBoa
<1>5. QED BY <1>1, <1>3, <1>4

\* What a step of session s has to show: rows only added, good mails, and its own
\* request and screen.
LEMMA PassoDe ==
  ASSUME OrcamentosInv, NEW s \in Sessoes, Tipos',
         Ids \subseteq Ids', \A i \in Ids : orcamentos'[i] = orcamentos[i],
         emails \subseteq emails', \A e \in emails' \ emails : EmailBom(e)',
         \A r \in Sessoes \ {s} :
           tela'[r] = tela[r] /\ fase'[r] = fase[r] /\ pedido'[r] = pedido[r],
         fase'[s] # "livre" => PedidoBom(pedido[s], fase[s])',
         tela'[s] = tela[s] \/ TelaBoa(tela[s])'
  PROVE  OrcamentosInv'
<1>1. /\ \A p, f : PedidoBom(p, f) => PedidoBom(p, f)'
      /\ \A e \in emails : EmailBom(e)'
      /\ \A t : TelaBoa(t) => TelaBoa(t)'
  BY Persistem DEF OrcamentosInv
<1>2. PedidosInv'
  <2> SUFFICES ASSUME NEW r \in Sessoes, fase'[r] # "livre" PROVE PedidoBom(pedido[r], fase[r])'
    BY DEF PedidosInv
  <2>1. CASE r = s
    BY <2>1
  <2>2. CASE r # s
    <3>1. PICK p, f : p = pedido[r] /\ f = fase[r]
      OBVIOUS
    <3>2. PedidoBom(p, f)
      BY <2>2, <3>1 DEF OrcamentosInv, PedidosInv
    <3>3. PedidoBom(p, f)'
      BY <1>1, <3>2
    <3>4. QED BY <2>2, <3>1, <3>3
  <2>3. QED BY <2>1, <2>2
<1>3. EmailsInv'
  BY <1>1 DEF EmailsInv
<1>4. TelasInv'
  <2> SUFFICES ASSUME NEW r \in Sessoes, tela'[r] # Nenhum PROVE TelaBoa(tela[r])'
    BY DEF TelasInv
  <2>1. CASE r = s /\ TelaBoa(tela[s])'
    BY <2>1
  <2>2. CASE tela'[r] = tela[r]
    <3>1. PICK t : t = tela[r]
      OBVIOUS
    <3>2. TelaBoa(t)
      BY <2>2, <3>1 DEF OrcamentosInv, TelasInv
    <3>3. TelaBoa(t)'
      BY <1>1, <3>2
    <3>4. QED BY <2>2, <3>1, <3>3
  <2>3. QED BY <2>1, <2>2
<1>5. QED BY <1>2, <1>3, <1>4 DEF OrcamentosInv

-----------------------------------------------------------------------------
(* One lemma for each step. *)

\* A form is posted, for the first time or again.
LEMMA PassoIniciar ==
  ASSUME OrcamentosInv, NEW s \in Sessoes, NEW form \in Formularios, Iniciar(s, form)
  PROVE  OrcamentosInv'
<1> DEFINE p == [form |-> form, numero |-> numero + 1, banco |-> TRUE, lidos |-> <<>>, id |-> 0]
<1>1. p \in Pedido
  BY DEF OrcamentosInv, Tipos, Pedido
<1>2. /\ pedido' = [pedido EXCEPT ![s] = p] /\ fase' = [fase EXCEPT ![s] = "ler"]
      /\ numero < MaxPedidos /\ numero' = numero + 1
      /\ UNCHANGED <<preco, orcamentos, tela, emails>>
  BY DEF Iniciar
<1>3. p.form \in Formularios
  OBVIOUS
<1> HIDE DEF p
<1>4. Tipos'
  BY <1>1, <1>2, OrcamentosConstantes DEF OrcamentosInv, Tipos, Fases
<1>5. /\ pedido'[s] = p /\ fase'[s] = "ler"
      /\ \A r \in Sessoes \ {s} :
           tela'[r] = tela[r] /\ fase'[r] = fase[r] /\ pedido'[r] = pedido[r]
  BY <1>2 DEF OrcamentosInv, Tipos
<1>6. PedidoBom(pedido[s], fase[s])'
  BY <1>1, <1>3, <1>5 DEF PedidoBom
<1>7. Ids' = Ids
  BY <1>2 DEF Ids
<1>8. QED BY <1>2, <1>4, <1>5, <1>6, <1>7, PassoDe

\* What an answer leaves, whatever it says.
LEMMA OQueResponde ==
  ASSUME Tipos, NEW s \in Sessoes, NEW aviso \in Avisos, Responder(s, aviso),
         pedido[s] \in Pedido
  PROVE  /\ fase' \in [Sessoes -> Fases] /\ fase'[s] = "livre"
         /\ pedido' \in [Sessoes -> Pedido \cup {Nenhum}]
         /\ tela' \in [Sessoes -> Tela \cup {Nenhum}]
         /\ tela'[s].aviso = aviso /\ tela'[s].numero = pedido[s].numero
         /\ tela'[s].banco = pedido[s].banco
         /\ \A r \in Sessoes \ {s} :
              tela'[r] = tela[r] /\ fase'[r] = fase[r] /\ pedido'[r] = pedido[r]
<1> DEFINE t == [aviso |-> aviso, form |-> pedido[s].form, numero |-> pedido[s].numero,
                 banco |-> pedido[s].banco]
<1>1. t \in Tela
  BY DEF Tela, Pedido
<1>2. /\ tela' = [tela EXCEPT ![s] = t] /\ fase' = [fase EXCEPT ![s] = "livre"]
      /\ pedido' = [pedido EXCEPT ![s] = Nenhum]
  BY DEF Responder
<1>3. t.aviso = aviso /\ t.numero = pedido[s].numero /\ t.banco = pedido[s].banco
  OBVIOUS
<1> HIDE DEF t
<1>4. fase' \in [Sessoes -> Fases] /\ fase'[s] = "livre"
  BY <1>2 DEF Tipos, Fases
<1>5. pedido' \in [Sessoes -> Pedido \cup {Nenhum}]
  BY <1>2 DEF Tipos
<1>6. tela' \in [Sessoes -> Tela \cup {Nenhum}] /\ tela'[s] = t
  BY <1>1, <1>2 DEF Tipos
<1>7. \A r \in Sessoes \ {s} :
        tela'[r] = tela[r] /\ fase'[r] = fase[r] /\ pedido'[r] = pedido[r]
  BY <1>2 DEF Tipos
<1>8. QED BY <1>3, <1>4, <1>5, <1>6, <1>7

\* The prices are read, or there is no database.
LEMMA PassoLer ==
  ASSUME OrcamentosInv, NEW s \in Sessoes, Ler(s)
  PROVE  OrcamentosInv'
<1> DEFINE p == pedido[s]
<1>1. p \in Pedido /\ p.form \in Formularios
  BY DEF Ler, OrcamentosInv, PedidosInv, PedidoBom
<1>2. PICK q \in Pedido : /\ pedido' = [pedido EXCEPT ![s] = q]
                          /\ q.form \in Formularios /\ (q.banco => q.lidos \in [Pecas -> Nat])
  <2>1. CASE pedido' = [pedido EXCEPT ![s].lidos = preco]
    <3> DEFINE q == [p EXCEPT !.lidos = preco]
    <3>1. preco \in [Pecas -> Nat]
      BY DEF OrcamentosInv, Tipos
    <3>2. q \in Pedido /\ q.form = p.form /\ q.lidos = preco
      BY <1>1, <3>1 DEF Pedido
    <3>3. pedido' = [pedido EXCEPT ![s] = q]
      BY <2>1
    <3> HIDE DEF q
    <3>4. QED BY <1>1, <3>1, <3>2, <3>3
  <2>2. CASE pedido' = [pedido EXCEPT ![s].banco = FALSE]
    <3> DEFINE q == [p EXCEPT !.banco = FALSE]
    <3>1. q \in Pedido /\ q.form = p.form /\ q.banco = FALSE
      BY <1>1 DEF Pedido
    <3>2. pedido' = [pedido EXCEPT ![s] = q]
      BY <2>2
    <3> HIDE DEF q
    <3>3. QED BY <1>1, <3>1, <3>2
  <2>3. QED BY <2>1, <2>2 DEF Ler
<1>3. fase' = [fase EXCEPT ![s] = "inserir"] /\ UNCHANGED <<preco, orcamentos, tela, emails, numero>>
  BY DEF Ler
<1>4. Tipos'
  BY <1>2, <1>3 DEF OrcamentosInv, Tipos, Fases
<1>5. /\ pedido'[s] = q /\ fase'[s] = "inserir"
      /\ \A r \in Sessoes \ {s} :
           tela'[r] = tela[r] /\ fase'[r] = fase[r] /\ pedido'[r] = pedido[r]
  BY <1>2, <1>3 DEF OrcamentosInv, Tipos
<1>6. PedidoBom(pedido[s], fase[s])'
  BY <1>2, <1>5 DEF PedidoBom
<1>7. Ids' = Ids
  BY <1>3 DEF Ids
<1>8. QED BY <1>3, <1>4, <1>5, <1>6, <1>7, PassoDe

\* The row is stored, or there is no database, and the request answers or goes on to
\* the mail.
LEMMA PassoInserir ==
  ASSUME OrcamentosInv, NEW s \in Sessoes, Inserir(s)
  PROVE  OrcamentosInv'
<1> DEFINE p == pedido[s]
           l == Linha(p.form, p.lidos, p.numero)
<1>1. /\ p \in Pedido /\ p.form \in Formularios /\ p.numero \in Nat
      /\ p.banco => p.lidos \in [Pecas -> Nat]
  BY DEF Inserir, OrcamentosInv, PedidosInv, PedidoBom, Pedido
<1>2. UNCHANGED <<preco, emails, numero>> /\ DepoisDeInserir(s)
  BY DEF Inserir
<1>3. l.numero = p.numero
  BY DEF Linha
<1>4. p.banco => orcamentos' = Append(orcamentos, l) /\ l \in Linhas
  BY <1>1 DEF Inserir, Linhas
<1>5. ~p.banco => orcamentos' = orcamentos
  BY DEF Inserir
<1>6. /\ orcamentos' \in Seq(Linhas) /\ Ids \subseteq Ids' /\ \A i \in Ids : orcamentos'[i] = orcamentos[i]
      /\ p.banco => /\ Len(orcamentos') \in Ids' /\ orcamentos'[Len(orcamentos')] = l
                    /\ Len(orcamentos') \in Nat
  <2> HIDE DEF l, p
  <2>1. CASE p.banco
    <3>1. Len(orcamentos') \in Nat
      BY <1>4, <2>1, NovaLinha DEF OrcamentosInv, Tipos
    <3>2. QED BY <1>4, <2>1, <3>1, NovaLinha DEF OrcamentosInv, Tipos
  <2>2. CASE ~p.banco
    BY <1>5, <2>2 DEF OrcamentosInv, Tipos, Ids
  <2>3. QED BY <2>1, <2>2
<1>7. CASE /\ p.banco
           /\ fase' = [fase EXCEPT ![s] = "enviar"]
           /\ pedido' = [pedido EXCEPT ![s].id = Len(orcamentos')]
           /\ UNCHANGED tela
  <2> DEFINE q == [p EXCEPT !.id = Len(orcamentos')]
  <2>1. /\ q \in Pedido /\ q.form = p.form /\ q.lidos = p.lidos /\ q.numero = p.numero
        /\ q.id = Len(orcamentos')
    BY <1>1, <1>6, <1>7 DEF Pedido
  <2>2. pedido' = [pedido EXCEPT ![s] = q]
    BY <1>7
  <2> HIDE DEF q
  <2>3. Tipos'
    BY <1>2, <1>6, <1>7, <2>1, <2>2 DEF OrcamentosInv, Tipos, Fases
  <2>4. /\ pedido'[s] = q /\ fase'[s] = "enviar"
        /\ \A r \in Sessoes \ {s} :
             tela'[r] = tela[r] /\ fase'[r] = fase[r] /\ pedido'[r] = pedido[r]
    BY <1>7, <2>2 DEF OrcamentosInv, Tipos
  <2>5. q.id \in Ids' /\ orcamentos'[q.id] = Linha(q.form, q.lidos, q.numero)
    BY <1>6, <1>7, <2>1
  <2>6. PedidoBom(pedido[s], fase[s])'
    BY <1>1, <2>1, <2>4, <2>5 DEF PedidoBom
  <2>7. QED BY <1>2, <1>6, <1>7, <2>3, <2>4, <2>6, PassoDe
<1>8. CASE \E aviso \in {"salvo", "salvo_sem_email"} : Responder(s, aviso)
  <2>1. PICK aviso \in {"salvo", "salvo_sem_email"} : Responder(s, aviso)
    BY <1>8
  <2>2. aviso \in Avisos
    BY DEF Avisos
  <2>3. /\ fase' \in [Sessoes -> Fases] /\ fase'[s] = "livre"
        /\ pedido' \in [Sessoes -> Pedido \cup {Nenhum}]
        /\ tela' \in [Sessoes -> Tela \cup {Nenhum}]
        /\ tela'[s].aviso = aviso /\ tela'[s].numero = p.numero /\ tela'[s].banco = p.banco
        /\ \A r \in Sessoes \ {s} :
             tela'[r] = tela[r] /\ fase'[r] = fase[r] /\ pedido'[r] = pedido[r]
    BY <1>1, <2>1, <2>2, OQueResponde DEF OrcamentosInv
  <2>4. Tipos'
    BY <1>2, <1>6, <2>3 DEF OrcamentosInv, Tipos
  <2>5. TelaBoa(tela[s])'
    <3>1. tela'[s].aviso # "salvo_e_enviado"
      BY <2>3
    <3>2. p.banco => \E i \in Ids' : orcamentos'[i].numero = tela'[s].numero
      BY <1>3, <1>6, <2>3
    <3>3. QED BY <2>3, <3>1, <3>2 DEF TelaBoa
  <2>6. QED BY <1>2, <1>6, <2>3, <2>4, <2>5, PassoDe
<1>9. QED BY <1>2, <1>7, <1>8 DEF DepoisDeInserir

\* What is mailed of a row that its request has just stored is what the row says.
LEMMA CorpoBom ==
  ASSUME NEW p, p.id \in Ids, orcamentos[p.id] = Linha(p.form, p.lidos, p.numero)
  PROVE  EmailBom(Corpo(p)) /\ Corpo(p).id = p.id
<1>1. Linha(p.form, p.lidos, p.numero).total = Total(p.form, p.lidos)
  BY DEF Linha
<1>2. Linha(p.form, p.lidos, p.numero).peca # Nenhum =>
        Linha(p.form, p.lidos, p.numero).quantidade = QuantidadeTotal(p.form.itens)
  BY DEF Linha
<1>3. QED BY <1>1, <1>2 DEF EmailBom, Corpo

LEMMA CorpoGuardadoBom ==
  ASSUME NEW i \in Ids
  PROVE  EmailBom(CorpoGuardado(i)) /\ CorpoGuardado(i).id = i
BY DEF EmailBom, CorpoGuardado

\* A mail goes out, or not, and the request answers.
LEMMA PassoCorreio ==
  ASSUME OrcamentosInv, NEW s \in Sessoes, NEW e, NEW aviso \in Avisos,
         fase[s] # "livre", EmailBom(e), emails' \in {emails, emails \cup {e}},
         Responder(s, aviso), UNCHANGED <<preco, orcamentos, numero>>,
         aviso \in {"salvo_e_enviado", "salvo_nao_enviado"} =>
           orcamentos[e.id].numero = pedido[s].numero,
         aviso = "salvo_e_enviado" => e \in emails',
         aviso \notin {"salvo", "salvo_sem_email"}
  PROVE  OrcamentosInv'
<1>1. pedido[s] \in Pedido
  BY DEF OrcamentosInv, PedidosInv, PedidoBom
<1>2. /\ fase' \in [Sessoes -> Fases] /\ fase'[s] = "livre"
      /\ pedido' \in [Sessoes -> Pedido \cup {Nenhum}]
      /\ tela' \in [Sessoes -> Tela \cup {Nenhum}]
      /\ tela'[s].aviso = aviso /\ tela'[s].numero = pedido[s].numero
      /\ \A r \in Sessoes \ {s} :
           tela'[r] = tela[r] /\ fase'[r] = fase[r] /\ pedido'[r] = pedido[r]
  BY <1>1, OQueResponde DEF OrcamentosInv
<1>3. Tipos'
  BY <1>2 DEF OrcamentosInv, Tipos
<1>4. Ids' = Ids /\ orcamentos' = orcamentos
  BY DEF Ids
<1>5. \A g \in emails' \ emails : EmailBom(g)'
  BY <1>4 DEF EmailBom
<1>6. TelaBoa(tela[s])'
  <2>1. e.id \in Ids
    BY DEF EmailBom
  <2>2. QED BY <1>2, <1>4, <2>1 DEF TelaBoa
<1>7. QED BY <1>2, <1>3, <1>4, <1>5, <1>6, PassoDe

LEMMA PassoEnviar ==
  ASSUME OrcamentosInv, NEW s \in Sessoes, Enviar(s)
  PROVE  OrcamentosInv'
<1>1. /\ fase[s] = "enviar" /\ PedidoBom(pedido[s], "enviar")
      /\ UNCHANGED <<preco, orcamentos, numero>>
  BY DEF Enviar, OrcamentosInv, PedidosInv
<1>2. EmailBom(Corpo(pedido[s])) /\ Corpo(pedido[s]).id = pedido[s].id
  BY <1>1, CorpoBom DEF PedidoBom
<1>3. orcamentos[Corpo(pedido[s]).id].numero = pedido[s].numero
  BY <1>1, <1>2 DEF PedidoBom, Linha
<1>4. "salvo_e_enviado" \in Avisos /\ "salvo_nao_enviado" \in Avisos
  BY DEF Avisos
<1>5. CASE emails' = emails \cup {Corpo(pedido[s])} /\ Responder(s, "salvo_e_enviado")
  BY <1>1, <1>2, <1>3, <1>4, <1>5, PassoCorreio
<1>6. CASE /\ emails' \in {emails, emails \cup {Corpo(pedido[s])}}
           /\ Responder(s, "salvo_nao_enviado")
  BY <1>1, <1>2, <1>3, <1>4, <1>6, PassoCorreio
<1>7. QED BY <1>5, <1>6 DEF Enviar

LEMMA PassoReenviar ==
  ASSUME OrcamentosInv, NEW s \in Sessoes, Reenviar(s)
  PROVE  OrcamentosInv'
<1>1. /\ fase[s] = "reenviar" /\ PedidoBom(pedido[s], "reenviar")
      /\ UNCHANGED <<preco, orcamentos, numero>>
  BY DEF Reenviar, OrcamentosInv, PedidosInv
<1>2. EmailBom(CorpoGuardado(pedido[s].id))
  BY <1>1, CorpoGuardadoBom DEF PedidoBom
<1>3. "enviado" \in Avisos /\ "nao_enviado" \in Avisos
  BY DEF Avisos
<1>4. PICK aviso \in {"enviado", "nao_enviado"} :
        /\ emails' \in {emails, emails \cup {CorpoGuardado(pedido[s].id)}}
        /\ Responder(s, aviso)
  BY DEF Reenviar
<1>5. QED BY <1>1, <1>2, <1>3, <1>4, PassoCorreio

\* A request breaks off.
LEMMA PassoAbortar ==
  ASSUME OrcamentosInv, NEW s \in Sessoes, Abortar(s)
  PROVE  OrcamentosInv'
<1>1. pedido[s] \in Pedido
  BY DEF Abortar, OrcamentosInv, PedidosInv, PedidoBom
<1>2. Responder(s, "erro") /\ "erro" \in Avisos /\ UNCHANGED <<preco, orcamentos, emails, numero>>
  BY DEF Abortar, Avisos
<1>3. /\ fase' \in [Sessoes -> Fases] /\ fase'[s] = "livre"
      /\ pedido' \in [Sessoes -> Pedido \cup {Nenhum}]
      /\ tela' \in [Sessoes -> Tela \cup {Nenhum}]
      /\ tela'[s].aviso = "erro"
      /\ \A r \in Sessoes \ {s} :
           tela'[r] = tela[r] /\ fase'[r] = fase[r] /\ pedido'[r] = pedido[r]
  BY <1>1, <1>2, OQueResponde DEF OrcamentosInv
<1>4. Tipos'
  BY <1>2, <1>3 DEF OrcamentosInv, Tipos
<1>5. Ids' = Ids
  BY <1>2 DEF Ids
<1>6. TelaBoa(tela[s])'
  BY <1>3 DEF TelaBoa
<1>7. QED BY <1>2, <1>3, <1>4, <1>5, <1>6, PassoDe

\* A stored quotation is read to be mailed, or its client has no address.
LEMMA PassoLerGuardado ==
  ASSUME OrcamentosInv, NEW s \in Sessoes, NEW i \in Ids, LerGuardado(s, i)
  PROVE  OrcamentosInv'
<1>1. UNCHANGED <<preco, orcamentos, emails, numero>> /\ Ids' = Ids
  BY DEF LerGuardado, Ids
<1>2. i \in Nat
  BY DEF OrcamentosInv, Tipos, Ids
<1>3. CASE /\ pedido' = [pedido EXCEPT ![s] =
                [form |-> Nenhum, numero |-> 0, banco |-> TRUE, lidos |-> <<>>, id |-> i]]
           /\ fase' = [fase EXCEPT ![s] = "reenviar"]
           /\ UNCHANGED tela
  <2> DEFINE q == [form |-> Nenhum, numero |-> 0, banco |-> TRUE, lidos |-> <<>>, id |-> i]
  <2>1. q \in Pedido /\ q.id = i
    BY <1>2 DEF Pedido
  <2>2. pedido' = [pedido EXCEPT ![s] = q]
    BY <1>3
  <2> HIDE DEF q
  <2>3. Tipos'
    BY <1>1, <1>3, <2>1, <2>2 DEF OrcamentosInv, Tipos, Fases
  <2>4. /\ pedido'[s] = q /\ fase'[s] = "reenviar"
        /\ \A r \in Sessoes \ {s} :
             tela'[r] = tela[r] /\ fase'[r] = fase[r] /\ pedido'[r] = pedido[r]
    BY <1>3, <2>2 DEF OrcamentosInv, Tipos
  <2>5. PedidoBom(pedido[s], fase[s])'
    BY <1>1, <2>1, <2>4 DEF PedidoBom
  <2>6. QED BY <1>1, <1>3, <2>3, <2>4, <2>5, PassoDe
<1>4. CASE /\ tela' = [tela EXCEPT ![s] =
                [aviso |-> "sem_email", form |-> Nenhum, numero |-> 0, banco |-> TRUE]]
           /\ UNCHANGED <<fase, pedido>>
  <2> DEFINE t == [aviso |-> "sem_email", form |-> Nenhum, numero |-> 0, banco |-> TRUE]
  <2>1. t \in Tela /\ t.aviso = "sem_email"
    BY DEF Tela, Avisos
  <2>2. tela' = [tela EXCEPT ![s] = t]
    BY <1>4
  <2> HIDE DEF t
  <2>3. Tipos'
    BY <1>1, <1>4, <2>1, <2>2 DEF OrcamentosInv, Tipos
  <2>4. tela'[s] = t /\ \A r \in Sessoes \ {s} : tela'[r] = tela[r]
    BY <2>2 DEF OrcamentosInv, Tipos
  <2>5. TelaBoa(tela[s])'
    BY <2>1, <2>4 DEF TelaBoa
  <2>6. fase'[s] = "livre"
    BY <1>4 DEF LerGuardado
  <2>7. QED BY <1>1, <1>4, <2>3, <2>4, <2>5, <2>6, PassoDe
<1>5. QED BY <1>3, <1>4 DEF LerGuardado

\* A price changes: nothing that was stored or said looks at it.
LEMMA PassoMudarPreco ==
  ASSUME OrcamentosInv, NEW p \in Pecas, MudarPreco(p)
  PROVE  OrcamentosInv'
<1>1. UNCHANGED <<orcamentos, fase, pedido, tela, emails, numero>>
  BY DEF MudarPreco
<1>2. preco' \in [Pecas -> Nat]
  BY OrcamentosConstantes DEF MudarPreco, OrcamentosInv, Tipos
<1>3. QED
  BY <1>1, <1>2 DEF OrcamentosInv, Tipos, PedidosInv, PedidoBom, EmailsInv, EmailBom, TelasInv,
                    TelaBoa, Ids

-----------------------------------------------------------------------------
(* The invariant, and what it is for. *)

LEMMA Inicio == Init => OrcamentosInv
<1> SUFFICES ASSUME Init PROVE OrcamentosInv
  OBVIOUS
<1>1. Tipos
  <2>1. preco \in [Pecas -> Nat]
    BY OrcamentosConstantes DEF Init
  <2>2. orcamentos \in Seq(Linhas) /\ numero \in 0..MaxPedidos
    BY OrcamentosConstantes DEF Init
  <2>3. /\ fase \in [Sessoes -> Fases] /\ tela \in [Sessoes -> Tela \cup {Nenhum}]
        /\ pedido \in [Sessoes -> Pedido \cup {Nenhum}]
    BY DEF Init, Fases
  <2>4. QED BY <2>1, <2>2, <2>3 DEF Tipos
<1>2. PedidosInv /\ EmailsInv /\ TelasInv
  BY DEF Init, PedidosInv, EmailsInv, TelasInv
<1>3. QED BY <1>1, <1>2 DEF OrcamentosInv

LEMMA Passo == OrcamentosInv /\ [Next]_vars => OrcamentosInv'
<1> SUFFICES ASSUME OrcamentosInv, [Next]_vars PROVE OrcamentosInv'
  OBVIOUS
<1>1. CASE UNCHANGED vars
  BY <1>1 DEF vars, OrcamentosInv, Tipos, PedidosInv, PedidoBom, EmailsInv, EmailBom, TelasInv,
              TelaBoa, Ids
<1>2. ASSUME NEW s \in Sessoes, Recarregar(s) PROVE OrcamentosInv'
  <2>1. tela[s].form \in Formularios /\ Iniciar(s, tela[s].form)
    BY <1>2 DEF Recarregar, OrcamentosInv, Tipos, Tela
  <2>2. QED BY <2>1, PassoIniciar
<1>3. CASE Next
  BY <1>2, <1>3, PassoIniciar, PassoLer, PassoInserir, PassoEnviar, PassoReenviar, PassoAbortar,
     PassoLerGuardado, PassoMudarPreco
  DEF Next, Andar, Postar
<1>4. QED BY <1>1, <1>3

\* Rows, requests, mails and answers are always those of one form and one reading of the
\* prices.
THEOREM Invariante == Spec => []OrcamentosInv
<1>1. QED BY Inicio, Passo, PTL DEF Spec

\* orcamentos.php: the row, the mail of the day and every later mail of a quotation tell
\* one total and one quantity, whenever pecas.php changed prices.
THEOREM UmPrecoSempre == Spec => []UmPreco
<1>1. OrcamentosInv => UmPreco
  BY DEF OrcamentosInv, EmailsInv, EmailBom, UmPreco
<1>2. QED BY <1>1, Invariante, PTL

\* "Salvo" is said of a stored row unless there was no database, and of a mail that went out.
THEOREM SalvoQuerDizerSalvo == Spec => []SalvoSeHouveBanco
<1>1. OrcamentosInv => SalvoSeHouveBanco
  BY DEF OrcamentosInv, TelasInv, TelaBoa, SalvoSeHouveBanco
<1>2. QED BY <1>1, Invariante, PTL

\* Type correctness: whatever is posted, a stored quotation has at least one unit and
\* a total that is not negative.
THEOREM TypeCorrect == Spec => []TypeOK
<1>1. OrcamentosInv => TypeOK
  <2> SUFFICES ASSUME OrcamentosInv PROVE TypeOK
    OBVIOUS
  <2>1. orcamentos \in Seq(Orcamento)
    <3>1. Linhas \subseteq Orcamento
      BY LinhaTipo DEF Linhas
    <3>2. QED BY <3>1 DEF OrcamentosInv, Tipos
  <2>2. \A s \in Sessoes : fase[s] # "livre" => pedido[s] \in Pedido
    BY DEF OrcamentosInv, PedidosInv, PedidoBom
  <2>3. \A e \in emails : e.id \in Ids
    BY DEF OrcamentosInv, EmailsInv, EmailBom
  <2>4. QED BY <2>1, <2>2, <2>3 DEF OrcamentosInv, Tipos, TypeOK
<1>2. QED BY <1>1, Invariante, PTL

\* The view of a stored quotation adds up when all its parts had one price, for any
\* number of rows, prices, quantities and discounts.
THEOREM VistaSoma == Spec => []VistaSomaComUmPreco
<1>1. OrcamentosInv => VistaSomaComUmPreco
  <2> SUFFICES ASSUME OrcamentosInv, NEW i \in Ids, UmPrecoSo(orcamentos[i])
               PROVE  Soma(Vista(i))
    BY DEF VistaSomaComUmPreco
  <2>1. orcamentos[i] \in Linhas
    BY DEF OrcamentosInv, Tipos, Ids
  <2>2. PICK form \in Formularios, lidos \in [Pecas -> Nat], n \in Nat :
          orcamentos[i] = Linha(form, lidos, n)
    BY <2>1 DEF Linhas
  <2>3. LET l == orcamentos[i] IN
        ComPiso(l.unitario * l.quantidade + l.maoObra - l.desconto) = l.total
    BY <2>2, LinhaSoma
  <2>4. QED BY <2>3 DEF Soma, Vista
<1>2. QED BY <1>1, Invariante, PTL

=============================================================================
