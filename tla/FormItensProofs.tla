--------------------------- MODULE FormItensProofs ---------------------------
(***************************************************************************)
(* Proofs about FormItens: what PHP's array keeps of the rows of a form,   *)
(* whatever their names are, and what a submission can lose.               *)
(*                                                                         *)
(* What is counted is the indices that no row has, among those that the    *)
(* rows would have had if none had been removed (Faltam).  Only the        *)
(* removal of a row from above others adds one; a new row, whose index is  *)
(* the number of rows, adds none even when it repeats the index of another *)
(* row; and a submission loses at most one row for each.                   *)
(***************************************************************************)
EXTENDS FormItens, Somas

Indices(ls) == {ls[i].indice : i \in DOMAIN ls}

\* No index is that of two rows.
Distintos(ls) == \A i, j \in DOMAIN ls : ls[i].indice = ls[j].indice => i = j

\* Rows only move up: no row is below the place its index says.
EmOrdem(ls) == \A i \in DOMAIN ls : ls[i].indice >= i - 1

\* The indices that no row has.
Faltam(ls) == (0..Len(ls) - 1) \ Indices(ls)

FormItensInv ==
  /\ TypeOK
  /\ EmOrdem(linhas)
  /\ Cardinality(Faltam(linhas)) <= buracos
  /\ PerdaLimitada
  /\ NadaMisturado

-----------------------------------------------------------------------------
(* The array of the first n rows. *)

\* One unfolding of the arrays g of the prefixes of ls, up to the length m.
Colhida(ls, m, g) == [n \in 0..m |-> IF n = 0 THEN <<>> ELSE GuardarLinha(g[n - 1], ls[n])]

Colhidas(ls) == CHOOSE g : g = Colhida(ls, Len(ls), g)

\* The array of a form is that of its longest prefix.
LEMMA ColetarDesdobrada ==
  ASSUME NEW ls
  PROVE  Coletar(ls) = Colhidas(ls)[Len(ls)]
BY DEF Coletar, Colhidas, Colhida

\* There are such arrays, for as many rows as there may be.
LEMMA ColhidasExistem ==
  ASSUME NEW ls, NEW m \in Nat
  PROVE  \E g : g = Colhida(ls, m, g)
<1> DEFINE D == {n \in Nat : ~\E g : g = Colhida(ls, n, g)}
<1> SUFFICES ASSUME D # {} PROVE FALSE
  OBVIOUS
<1>1. PICK n \in D : \A k \in D : n <= k
  <2> HIDE DEF D
  <2>1. D # {} /\ (D \subseteq Nat)
    BY DEF D
  <2>2. QED BY <2>1, MenorExiste
<1>2. n # 0
  <2> DEFINE g == [k \in 0..0 |-> <<>>]
  <2>1. g = Colhida(ls, 0, g)
    BY DEF Colhida
  <2>2. 0 \notin D
    <3> HIDE DEF g
    <3>1. QED BY <2>1
  <2>3. QED BY <1>1, <2>2
<1>3. n - 1 \in Nat /\ n - 1 \notin D
  BY <1>1, <1>2
<1>4. PICK g : g = Colhida(ls, n - 1, g)
  BY <1>3
<1> DEFINE h == [k \in 0..n |-> IF k = n THEN GuardarLinha(g[n - 1], ls[n]) ELSE g[k]]
<1>5. h = Colhida(ls, n, h)
  <2>1. \A k \in 0..n : h[k] = IF k = 0 THEN <<>> ELSE GuardarLinha(h[k - 1], ls[k])
    <3> SUFFICES ASSUME NEW k \in 0..n
                 PROVE  h[k] = IF k = 0 THEN <<>> ELSE GuardarLinha(h[k - 1], ls[k])
      OBVIOUS
    <3>1. CASE k = n
      <4>1. n - 1 \in 0..n /\ n - 1 # n /\ n \in 0..n
        BY <1>2, <1>3
      <4>2. h[n - 1] = g[n - 1] /\ h[n] = GuardarLinha(g[n - 1], ls[n])
        BY <4>1
      <4>3. QED BY <3>1, <4>2, <1>2
    <3>2. CASE k # n
      <4>1. k \in 0..n - 1 /\ h[k] = g[k]
        BY <3>2, <1>3
      <4>2. g[k] = IF k = 0 THEN <<>> ELSE GuardarLinha(g[k - 1], ls[k])
        BY <1>4, <4>1 DEF Colhida
      <4>3. k # 0 => k - 1 \in 0..n /\ k - 1 # n /\ h[k - 1] = g[k - 1]
        BY <4>1, <1>3
      <4>4. QED BY <4>1, <4>2, <4>3
    <3>3. QED BY <3>1, <3>2
  <2>2. h = [k \in 0..n |-> h[k]]
    OBVIOUS
  <2>3. QED
    <3> HIDE DEF h
    <3>1. QED BY <2>1, <2>2 DEF Colhida
<1>6. QED
  <2> HIDE DEF h
  <2>1. n \notin D
    BY <1>5
  <2>2. QED BY <1>1, <2>1

\* They start from the empty array, and each row is stored in that of the rows above.
LEMMA ColhidasPassos ==
  ASSUME NEW ls \in Seq(Linha)
  PROVE  /\ Colhidas(ls)[0] = <<>>
         /\ \A n \in 1..Len(ls) : Colhidas(ls)[n] = GuardarLinha(Colhidas(ls)[n - 1], ls[n])
<1> DEFINE g == Colhidas(ls)
<1>1. g = Colhida(ls, Len(ls), g)
  <2>1. Len(ls) \in Nat
    OBVIOUS
  <2>2. \E f : f = Colhida(ls, Len(ls), f)
    BY <2>1, ColhidasExistem
  <2>3. QED BY <2>2 DEF Colhidas
<1> HIDE DEF g
<1>2. \A n \in 0..Len(ls) : g[n] = IF n = 0 THEN <<>> ELSE GuardarLinha(g[n - 1], ls[n])
  BY <1>1 DEF Colhida
<1>3. 0 \in 0..Len(ls) /\ \A n \in 1..Len(ls) : n \in 0..Len(ls) /\ n # 0
  OBVIOUS
<1>4. QED BY <1>2, <1>3 DEF g

-----------------------------------------------------------------------------
(* What one assignment does, and what all of them do. *)

\* A row stored as one value: in the place of the entry that has its index, or last.
Trocar(itens, l) ==
  IF l.indice \in Indices(itens)
    THEN [n \in DOMAIN itens |-> IF itens[n].indice = l.indice THEN l ELSE itens[n]]
    ELSE Append(itens, l)

\* An entry with another part, and with another quantity.
ComPeca(r, p) == [r EXCEPT !.peca = p]
ComQuantidade(r, q) == [r EXCEPT !.quantidade = q]

LEMMA CampoMuda ==
  ASSUME NEW r \in Linha, NEW p \in Pecas \cup {SemPeca}, NEW q \in Quantidades
  PROVE  /\ ComPeca(r, p) \in Linha /\ ComPeca(r, p).indice = r.indice
         /\ ComQuantidade(ComPeca(r, p), q) = [indice |-> r.indice, peca |-> p, quantidade |-> q]
<1>1. PICK i, p0, q0 : /\ i \in Nat /\ p0 \in Pecas \cup {SemPeca} /\ q0 \in Quantidades
                       /\ r = [indice |-> i, peca |-> p0, quantidade |-> q0]
  BY DEF Linha
<1>2. ComPeca(r, p) = [indice |-> i, peca |-> p, quantidade |-> q0]
  BY <1>1 DEF ComPeca
<1>3. ComQuantidade(ComPeca(r, p), q) = [indice |-> i, peca |-> p, quantidade |-> q]
  BY <1>2 DEF ComQuantidade
<1>4. QED BY <1>1, <1>2, <1>3 DEF Linha

LEMMA Achada ==
  ASSUME NEW itens, NEW k
  PROVE  /\ k \in Indices(itens) => Achar(itens, k) = itens
         /\ k \notin Indices(itens) => Achar(itens, k) = Append(itens, Nova(k))
BY DEF Achar, Indices

\* Both fields of a row being named with its index, storing them one after the other
\* comes to storing the row: nothing stays of the row that had that index before.
LEMMA LinhaInteira ==
  ASSUME NEW itens \in Seq(Linha), NEW l \in Linha
  PROVE  GuardarLinha(itens, l) = Trocar(itens, l)
<1>1. PICK k, p, q : /\ k = l.indice /\ p = l.peca /\ q = l.quantidade
                     /\ k \in Nat /\ p \in Pecas \cup {SemPeca} /\ q \in Quantidades
                     /\ l = [indice |-> k, peca |-> p, quantidade |-> q]
  BY DEF Linha
<1>2. PICK a : a = Achar(itens, k)
  OBVIOUS
<1>3. PICK b : b = GuardarPeca(itens, k, p)
  OBVIOUS
<1>4. GuardarLinha(itens, l) = GuardarQuantidade(b, k, q)
  BY <1>1, <1>3 DEF GuardarLinha, IndiceDaQuantidade
<1>5. \A r \in Linha : /\ ComPeca(r, p) \in Linha /\ ComPeca(r, p).indice = r.indice
                        /\ r.indice = k => ComQuantidade(ComPeca(r, p), q) = l
  BY <1>1, CampoMuda
<1>6. b = [n \in DOMAIN a |-> IF a[n].indice = k THEN ComPeca(a[n], p) ELSE a[n]]
  BY <1>2, <1>3 DEF GuardarPeca, ComPeca
<1>7. a \in Seq(Linha) /\ k \in Indices(a)
  <2>1. CASE k \in Indices(itens)
    BY <1>2, <2>1, Achada
  <2>2. CASE k \notin Indices(itens)
    <3>1. Nova(k) \in Linha /\ Nova(k).indice = k
      BY <1>1, FormItensConstantes DEF Nova, Linha
    <3>2. a = Append(itens, Nova(k))
      BY <1>2, <2>2, Achada
    <3>3. /\ a \in Seq(Linha) /\ Len(itens) + 1 \in DOMAIN a
          /\ a[Len(itens) + 1] = Nova(k)
      BY <3>1, <3>2
    <3>4. QED BY <3>1, <3>3 DEF Indices
  <2>3. QED BY <2>1, <2>2
<1>8. \A n \in DOMAIN a : a[n] \in Linha
  BY <1>7
<1>9. /\ DOMAIN b = DOMAIN a
      /\ \A n \in DOMAIN a : b[n] \in Linha /\ b[n].indice = a[n].indice
  <2>1. DOMAIN b = DOMAIN a
    BY <1>6
  <2>2. \A n \in DOMAIN a : b[n] = IF a[n].indice = k THEN ComPeca(a[n], p) ELSE a[n]
    BY <1>6
  <2>3. ASSUME NEW n \in DOMAIN a
        PROVE  b[n] \in Linha /\ b[n].indice = a[n].indice
    <3>1. a[n] \in Linha
      BY <1>8
    <3>2. ComPeca(a[n], p) \in Linha /\ ComPeca(a[n], p).indice = a[n].indice
      BY <1>1, <3>1, CampoMuda
    <3>3. b[n] = ComPeca(a[n], p) \/ b[n] = a[n]
      BY <2>2
    <3>4. QED BY <3>1, <3>2, <3>3
  <2>4. QED BY <2>1, <2>3
<1>10. b \in Seq(Linha) /\ k \in Indices(b)
  <2>1. DOMAIN a = 1..Len(a) /\ Len(a) \in Nat
    BY <1>7
  <2>2. b \in [1..Len(a) -> Linha]
    BY <1>6, <1>9, <2>1
  <2>3. b \in Seq(Linha)
    BY <2>1, <2>2
  <2>4. k \in Indices(b)
    BY <1>7, <1>9 DEF Indices
  <2>5. QED BY <2>3, <2>4
<1>11. GuardarQuantidade(b, k, q)
         = [n \in DOMAIN b |-> IF b[n].indice = k THEN ComQuantidade(b[n], q) ELSE b[n]]
  <2>1. Achar(b, k) = b
    BY <1>10, Achada
  <2>2. QED BY <2>1 DEF GuardarQuantidade, ComQuantidade
<1>12. \A n \in DOMAIN a :
         (IF b[n].indice = k THEN ComQuantidade(b[n], q) ELSE b[n])
           = IF a[n].indice = k THEN l ELSE a[n]
  BY <1>5, <1>6, <1>8, <1>9
<1>13. GuardarLinha(itens, l) = [n \in DOMAIN a |-> IF a[n].indice = k THEN l ELSE a[n]]
  BY <1>4, <1>9, <1>11, <1>12
<1>14. CASE k \in Indices(itens)
  <2>1. a = itens
    BY <1>2, <1>14, Achada
  <2>2. QED BY <1>1, <1>13, <1>14, <2>1 DEF Trocar
<1>15. CASE k \notin Indices(itens)
  <2>1. PICK m, c, s : m = Len(itens) /\ c = Append(itens, l) /\ s = Nova(k)
    OBVIOUS
  <2>2. s \in Linha /\ s.indice = k
    BY <1>1, <2>1, FormItensConstantes DEF Nova, Linha
  <2>3. a = Append(itens, s)
    BY <1>2, <1>15, <2>1, Achada
  <2>4. /\ m \in Nat /\ DOMAIN a = 1..m + 1 /\ a[m + 1] = s
        /\ \A n \in 1..m : a[n] = itens[n]
    BY <2>1, <2>2, <2>3
  <2>5. /\ c \in Seq(Linha) /\ DOMAIN c = 1..m + 1 /\ c[m + 1] = l
        /\ \A n \in 1..m : c[n] = itens[n]
    BY <2>1
  <2>6. \A n \in 1..m : itens[n].indice # k
    BY <1>15, <2>1 DEF Indices
  <2>7. \A n \in 1..m + 1 : n = m + 1 \/ n \in 1..m
    BY <2>4
  <2>8. \A n \in 1..m + 1 : (IF a[n].indice = k THEN l ELSE a[n]) = c[n]
    BY <2>2, <2>4, <2>5, <2>6, <2>7
  <2>9. c = [n \in 1..m + 1 |-> c[n]]
    BY <2>5
  <2>10. Trocar(itens, l) = c
    BY <1>1, <1>15, <2>1 DEF Trocar
  <2>11. QED BY <1>13, <2>4, <2>8, <2>9, <2>10
<1>16. QED BY <1>14, <1>15

\* Storing a row keeps the keys apart, adds its key when it is new, and puts nothing
\* but the row in the array.
LEMMA GuardarFaz ==
  ASSUME NEW itens \in Seq(Linha), NEW l \in Linha, Distintos(itens)
  PROVE  /\ GuardarLinha(itens, l) \in Seq(Linha)
         /\ Len(GuardarLinha(itens, l)) <= Len(itens) + 1
         /\ Distintos(GuardarLinha(itens, l))
         /\ Indices(GuardarLinha(itens, l)) = Indices(itens) \cup {l.indice}
         /\ \A n \in DOMAIN GuardarLinha(itens, l) :
              \/ GuardarLinha(itens, l)[n] = l
              \/ \E k \in DOMAIN itens : GuardarLinha(itens, l)[n] = itens[k]
         /\ EmOrdem(itens) /\ Len(itens) <= l.indice => EmOrdem(GuardarLinha(itens, l))
         /\ l.indice \notin Indices(itens) => GuardarLinha(itens, l) = Append(itens, l)
<1>1. CASE l.indice \in Indices(itens)
  <2> DEFINE r == [n \in DOMAIN itens |-> IF itens[n].indice = l.indice THEN l ELSE itens[n]]
  <2>1. GuardarLinha(itens, l) = r
    BY <1>1, LinhaInteira DEF Trocar
  <2>2. r \in Seq(Linha) /\ Len(r) = Len(itens) /\ DOMAIN r = DOMAIN itens
    OBVIOUS
  <2>3. \A n \in DOMAIN itens : /\ r[n].indice = itens[n].indice
                                /\ r[n] = l \/ r[n] = itens[n]
    OBVIOUS
  <2> HIDE DEF r
  <2>4. Distintos(r)
    BY <2>2, <2>3 DEF Distintos
  <2>5. Indices(r) = Indices(itens)
    BY <2>2, <2>3 DEF Indices
  <2>6. EmOrdem(itens) => EmOrdem(r)
    BY <2>2, <2>3 DEF EmOrdem
  <2>7. Len(r) <= Len(itens) + 1 /\ Indices(r) = Indices(itens) \cup {l.indice}
    BY <1>1, <2>2, <2>5
  <2>8. \A n \in DOMAIN r : r[n] = l \/ \E k \in DOMAIN itens : r[n] = itens[k]
    BY <2>2, <2>3
  <2>9. QED BY <1>1, <2>1, <2>2, <2>4, <2>6, <2>7, <2>8
<1>2. CASE l.indice \notin Indices(itens)
  <2> DEFINE r == Append(itens, l)
             m == Len(itens)
  <2>1. GuardarLinha(itens, l) = r
    BY <1>2, LinhaInteira DEF Trocar
  <2>2. r \in Seq(Linha) /\ Len(r) = m + 1 /\ m \in Nat
    OBVIOUS
  <2>3. /\ DOMAIN r = 1..m + 1 /\ DOMAIN itens = 1..m
        /\ r[m + 1] = l /\ \A n \in 1..m : r[n] = itens[n]
    OBVIOUS
  <2> HIDE DEF r, m
  <2>4. \A n \in DOMAIN r : n = m + 1 \/ n \in 1..m
    BY <2>2, <2>3
  <2>5. Distintos(r)
    <3>1. \A n \in 1..m : r[n].indice # l.indice
      BY <1>2, <2>3 DEF Indices
    <3>2. QED BY <2>2, <2>3, <2>4, <3>1 DEF Distintos
  <2>6. Indices(r) = Indices(itens) \cup {l.indice}
    BY <2>2, <2>3, <2>4 DEF Indices
  <2>7. EmOrdem(itens) /\ m <= l.indice => EmOrdem(r)
    <3>1. l.indice \in Nat
      BY DEF Linha
    <3>2. QED BY <2>2, <2>3, <2>4, <3>1 DEF EmOrdem
  <2>8. QED BY <2>1, <2>2, <2>3, <2>4, <2>5, <2>6, <2>7 DEF m, r
<1>3. QED BY <1>1, <1>2

\* What the array of the first n rows of ls is.
Bem(ls, n, c) ==
  /\ c \in Seq(Linha)
  /\ Len(c) <= n
  /\ Distintos(c)
  /\ Indices(c) = {ls[i].indice : i \in 1..n}
  /\ \A k \in DOMAIN c : \E i \in 1..n : c[k] = ls[i]
  /\ EmOrdem(ls) => EmOrdem(c)
  /\ Distintos(ls) => /\ Len(c) = n
                      /\ \A k \in 1..n : c[k] = ls[k]

\* One more row keeps it so.
LEMMA MaisUma ==
  ASSUME NEW ls \in Seq(Linha), NEW n \in 1..Len(ls), NEW c, Bem(ls, n - 1, c)
  PROVE  Bem(ls, n, GuardarLinha(c, ls[n]))
<1> DEFINE l == ls[n]
           r == GuardarLinha(c, ls[n])
<1>1. l \in Linha /\ c \in Seq(Linha) /\ Distintos(c) /\ n \in Nat /\ n - 1 \in Nat /\ Len(c) \in Nat
  BY DEF Bem
<1>2. /\ r \in Seq(Linha) /\ Len(r) <= Len(c) + 1 /\ Distintos(r)
      /\ Indices(r) = Indices(c) \cup {l.indice}
      /\ \A k \in DOMAIN r : r[k] = l \/ \E j \in DOMAIN c : r[k] = c[j]
      /\ EmOrdem(c) /\ Len(c) <= l.indice => EmOrdem(r)
      /\ l.indice \notin Indices(c) => r = Append(c, l)
  BY <1>1, GuardarFaz
<1>3. 1..n = (1..n - 1) \cup {n}
  BY <1>1
<1> HIDE DEF r
<1>4. Len(r) <= n
  <2>1. Len(r) \in Nat
    BY <1>2
  <2>2. QED BY <1>1, <1>2, <2>1 DEF Bem
<1>5. Indices(r) = {ls[i].indice : i \in 1..n}
  <2>1. Indices(c) = {ls[i].indice : i \in 1..n - 1}
    BY DEF Bem
  <2>2. QED BY <1>2, <1>3, <2>1
<1>6. \A k \in DOMAIN r : \E i \in 1..n : r[k] = ls[i]
  BY <1>2, <1>3 DEF Bem
<1>7. EmOrdem(ls) => EmOrdem(r)
  <2> SUFFICES ASSUME EmOrdem(ls) PROVE EmOrdem(r)
    OBVIOUS
  <2>1. l.indice \in Nat /\ l.indice >= n - 1
    BY <1>1 DEF EmOrdem, Linha
  <2>2. Len(c) <= n - 1 /\ EmOrdem(c)
    BY DEF Bem
  <2>3. Len(c) <= l.indice
    BY <1>1, <2>1, <2>2
  <2>4. QED BY <1>2, <2>2, <2>3
<1>8. Distintos(ls) => Len(r) = n /\ \A k \in 1..n : r[k] = ls[k]
  <2> SUFFICES ASSUME Distintos(ls) PROVE Len(r) = n /\ \A k \in 1..n : r[k] = ls[k]
    OBVIOUS
  <2>1. Len(c) = n - 1 /\ \A k \in 1..n - 1 : c[k] = ls[k]
    BY DEF Bem
  <2>2. l.indice \notin Indices(c)
    <3>1. \A i \in 1..n - 1 : i \in DOMAIN ls /\ n \in DOMAIN ls /\ i # n
      BY <1>1
    <3>2. \A i \in 1..n - 1 : ls[i].indice # ls[n].indice
      BY <3>1 DEF Distintos
    <3>3. QED BY <3>2 DEF Bem
  <2>3. r = Append(c, l)
    BY <1>2, <2>2
  <2> HIDE DEF l
  <2>4. Len(r) = n /\ r[n] = l /\ \A k \in 1..n - 1 : r[k] = c[k]
    BY <1>1, <2>1, <2>3
  <2>5. \A k \in 1..n : k = n \/ k \in 1..n - 1
    BY <1>3
  <2>6. QED BY <2>1, <2>4, <2>5 DEF l
<1>9. QED BY <1>2, <1>4, <1>5, <1>6, <1>7, <1>8 DEF Bem, r

\* The array has the indices of the rows, each once; its entries are rows; it takes
\* none below the place its index says; and when no two rows share an index it is the
\* form as the user saw it.
LEMMA ColetarFaz ==
  ASSUME NEW ls \in Seq(Linha)
  PROVE  /\ Bem(ls, Len(ls), Coletar(ls))
         /\ Indices(Coletar(ls)) = Indices(ls)
         /\ Distintos(ls) => Coletar(ls) = ls
<1> DEFINE g == Colhidas(ls)
           D == {n \in 0..Len(ls) : ~Bem(ls, n, g[n])}
<1>1. g[0] = <<>> /\ \A n \in 1..Len(ls) : g[n] = GuardarLinha(g[n - 1], ls[n])
  BY ColhidasPassos
<1> HIDE DEF g
<1>2. Bem(ls, 0, g[0])
  <2>1. << >> \in Seq(Linha) /\ Len(<< >>) = 0 /\ DOMAIN << >> = {} /\ 1..0 = {}
    OBVIOUS
  <2>2. Indices(<< >>) = {} /\ Distintos(<< >>) /\ EmOrdem(<< >>)
    BY <2>1 DEF Indices, Distintos, EmOrdem
  <2>3. QED BY <1>1, <2>1, <2>2 DEF Bem
<1>3. D = {}
  <2> SUFFICES ASSUME D # {} PROVE FALSE
    OBVIOUS
  <2>1. PICK n \in D : \A k \in D : n <= k
    <3>1. D \subseteq Nat
      OBVIOUS
    <3> HIDE DEF D
    <3>2. QED BY <3>1, MenorExiste
  <2>2. n # 0
    BY <1>2, <2>1
  <2>3. n \in 1..Len(ls) /\ n - 1 \in 0..Len(ls) /\ n - 1 \notin D
    BY <2>1, <2>2
  <2>4. Bem(ls, n - 1, g[n - 1])
    BY <2>3
  <2>5. Bem(ls, n, g[n])
    BY <1>1, <2>3, <2>4, MaisUma
  <2>6. QED BY <2>1, <2>5
<1> DEFINE c == Coletar(ls)
<1>4. Bem(ls, Len(ls), c)
  <2>1. Len(ls) \in 0..Len(ls)
    OBVIOUS
  <2>2. c = g[Len(ls)]
    BY ColetarDesdobrada DEF g
  <2>3. QED BY <1>3, <2>1, <2>2
<1> HIDE DEF c
<1>5. DOMAIN ls = 1..Len(ls) /\ DOMAIN c = 1..Len(c)
  BY <1>4 DEF Bem
<1>6. Indices(c) = Indices(ls)
  BY <1>4, <1>5 DEF Bem, Indices
<1>7. Distintos(ls) => c = ls
  <2> SUFFICES ASSUME Distintos(ls) PROVE c = ls
    OBVIOUS
  <2>1. Len(c) = Len(ls) /\ \A k \in 1..Len(ls) : c[k] = ls[k]
    BY <1>4 DEF Bem
  <2>2. c = [k \in DOMAIN c |-> c[k]] /\ ls = [k \in DOMAIN ls |-> ls[k]]
    BY <1>4 DEF Bem
  <2>3. QED BY <1>5, <2>1, <2>2
<1>8. QED BY <1>4, <1>6, <1>7 DEF c

-----------------------------------------------------------------------------
(* Counting. *)

\* The indices of n rows are finitely many: at most n, and n only if no two rows share
\* one.
LEMMA QuantosIndices ==
  ASSUME NEW ls \in Seq(Linha)
  PROVE  /\ IsFiniteSet(Indices(ls)) /\ Cardinality(Indices(ls)) \in Nat
         /\ Cardinality(Indices(ls)) <= Len(ls)
         /\ Cardinality(Indices(ls)) = Len(ls) <=> Distintos(ls)
<1> DEFINE n == Len(ls)
           f == [i \in 1..n |-> ls[i].indice]
<1>1. n \in Nat /\ DOMAIN ls = 1..n
  OBVIOUS
<1>2. f \in Surjection(1..n, Indices(ls))
  BY <1>1 DEF Surjection, Indices
<1>3. IsFiniteSet(1..n) /\ Cardinality(1..n) = n
  BY <1>1, FS_Interval
<1>4. f \in Injection(1..n, Indices(ls)) <=> Distintos(ls)
  BY <1>1, <1>2 DEF Injection, IsInjective, Surjection, Distintos
<1> HIDE DEF f, n
<1>5. /\ IsFiniteSet(Indices(ls)) /\ Cardinality(Indices(ls)) <= n
      /\ Cardinality(Indices(ls)) = n <=> f \in Injection(1..n, Indices(ls))
  BY <1>2, <1>3, FS_Surjection
<1>6. QED BY <1>4, <1>5, FS_CardinalityType DEF n

\* The indices that no row has are finitely many, and fewer indices leave more of them.
LEMMA FaltamPoucas ==
  ASSUME NEW ls \in Seq(Linha)
  PROVE  /\ IsFiniteSet(Faltam(ls)) /\ Cardinality(Faltam(ls)) \in Nat
         /\ Len(ls) - Cardinality(Indices(ls)) <= Cardinality(Faltam(ls))
         /\ Cardinality(Faltam(ls)) = 0 => Distintos(ls)
<1> DEFINE n == Len(ls)
           I == Indices(ls)
           F == Faltam(ls)
<1>1. n \in Nat /\ IsFiniteSet(0..n - 1) /\ Cardinality(0..n - 1) = n
  <2>1. n \in Nat /\ 0 \in Int /\ n - 1 \in Int
    OBVIOUS
  <2> HIDE DEF n
  <2>2. /\ IsFiniteSet(0..n - 1)
        /\ Cardinality(0..n - 1) = IF 0 > n - 1 THEN 0 ELSE n - 1 - 0 + 1
    BY <2>1, FS_Interval
  <2>3. QED BY <2>1, <2>2
<1>2. IsFiniteSet(I) /\ Cardinality(I) \in Nat /\ Cardinality(I) <= n
      /\ (Cardinality(I) = n <=> Distintos(ls))
  BY QuantosIndices
<1>3. F \in SUBSET (0..n - 1) /\ (0..n - 1) \subseteq I \cup F
  BY DEF Faltam
<1> HIDE DEF n, I, F
<1>4. IsFiniteSet(F) /\ Cardinality(F) \in Nat
  BY <1>1, <1>3, FS_Subset, FS_CardinalityType
<1>5. /\ IsFiniteSet(I \cup F)
      /\ Cardinality(I \cup F) = Cardinality(I) + Cardinality(F) - Cardinality(I \cap F)
      /\ Cardinality(I \cap F) \in Nat /\ Cardinality(I \cup F) \in Nat
  <2>1. IsFiniteSet(I \cup F) /\ IsFiniteSet(I \cap F)
    BY <1>2, <1>4, FS_Union, FS_Intersection
  <2>2. QED BY <1>2, <1>4, <2>1, FS_Union, FS_CardinalityType
<1>6. n <= Cardinality(I \cup F)
  BY <1>1, <1>3, <1>5, FS_Subset
<1>7. n - Cardinality(I) <= Cardinality(F)
  BY <1>1, <1>2, <1>4, <1>5, <1>6
<1>8. Cardinality(F) = 0 => Distintos(ls)
  BY <1>1, <1>2, <1>7
<1>9. QED BY <1>4, <1>7, <1>8 DEF n, I, F

\* Where no index comes to be missing, their number does not grow; where one does, it
\* grows by one.
LEMMA FaltamMenos ==
  ASSUME NEW ls \in Seq(Linha), NEW us \in Seq(Linha)
  PROVE  /\ Faltam(us) \subseteq Faltam(ls) =>
              Cardinality(Faltam(us)) <= Cardinality(Faltam(ls))
         /\ \A x : Faltam(us) \subseteq Faltam(ls) \cup {x} =>
              Cardinality(Faltam(us)) <= Cardinality(Faltam(ls)) + 1
<1> DEFINE F == Faltam(ls)
           G == Faltam(us)
<1>1. /\ IsFiniteSet(F) /\ Cardinality(F) \in Nat
      /\ IsFiniteSet(G) /\ Cardinality(G) \in Nat
  BY FaltamPoucas
<1> HIDE DEF F, G
<1>2. G \subseteq F => Cardinality(G) <= Cardinality(F)
  BY <1>1, FS_Subset
<1>3. ASSUME NEW x, G \subseteq F \cup {x} PROVE Cardinality(G) <= Cardinality(F) + 1
  <2>1. /\ IsFiniteSet(F \cup {x})
        /\ Cardinality(F \cup {x}) = IF x \in F THEN Cardinality(F) ELSE Cardinality(F) + 1
    BY <1>1, FS_AddElement
  <2>2. Cardinality(G) <= Cardinality(F \cup {x})
    BY <1>3, <2>1, FS_Subset
  <2>3. QED BY <1>1, <2>1, <2>2
<1>4. QED BY <1>2, <1>3 DEF F, G

\* The form with one row less.
LEMMA SemUma ==
  ASSUME NEW ls \in Seq(Linha), NEW i \in DOMAIN ls
  PROVE  /\ RemoveAt(ls, i) \in Seq(Linha)
         /\ Len(RemoveAt(ls, i)) = Len(ls) - 1
         /\ \A j \in 1..Len(ls) - 1 :
              RemoveAt(ls, i)[j] = IF j < i THEN ls[j] ELSE ls[j + 1]
<1> DEFINE a == SubSeq(ls, 1, i - 1)
           b == SubSeq(ls, i + 1, Len(ls))
<1>1. Len(ls) \in Nat /\ i \in 1..Len(ls)
  OBVIOUS
<1>2. a \in Seq(Linha) /\ Len(a) = i - 1 /\ \A j \in 1..i - 1 : a[j] = ls[j]
  BY <1>1
<1>3. b \in Seq(Linha) /\ Len(b) = Len(ls) - i /\ \A j \in 1..Len(ls) - i : b[j] = ls[j + i]
  BY <1>1
<1> HIDE DEF a, b
<1>4. RemoveAt(ls, i) = a \o b
  BY DEF RemoveAt, a, b
<1>5. a \o b \in Seq(Linha) /\ Len(a \o b) = Len(ls) - 1
  BY <1>1, <1>2, <1>3
<1>6. ASSUME NEW j \in 1..Len(ls) - 1
      PROVE  (a \o b)[j] = IF j < i THEN ls[j] ELSE ls[j + 1]
  <2>1. CASE j < i
    BY <1>1, <1>2, <1>3, <2>1
  <2>2. CASE ~(j < i)
    <3>1. j - (i - 1) \in 1..Len(ls) - i /\ j - (i - 1) + i = j + 1
      BY <1>1, <2>2
    <3>2. (a \o b)[j] = b[j - (i - 1)]
      BY <1>1, <1>2, <1>3, <2>2
    <3>3. QED BY <1>3, <2>2, <3>1, <3>2
  <2>3. QED BY <2>1, <2>2
<1>7. QED BY <1>4, <1>5, <1>6

-----------------------------------------------------------------------------
(* The steps. *)

\* A page with one empty row lacks nothing.
LEMMA SoUma ==
  /\ UmaLinha \in Seq(Linha) /\ Len(UmaLinha) = 1 /\ EmOrdem(UmaLinha)
  /\ Faltam(UmaLinha) = {}
<1>1. /\ UmaLinha \in Seq(Linha) /\ Len(UmaLinha) = 1 /\ DOMAIN UmaLinha = 1..1
      /\ UmaLinha[1].indice = 0
  BY FormItensConstantes DEF UmaLinha, Nova, Linha
<1>2. EmOrdem(UmaLinha)
  BY <1>1 DEF EmOrdem
<1>3. 0 \in Indices(UmaLinha) /\ 0..Len(UmaLinha) - 1 = {0}
  BY <1>1 DEF Indices
<1>4. QED BY <1>1, <1>2, <1>3 DEF Faltam

\* The page as it is first drawn, and again whenever it is opened.
LEMMA PassoAbrir == Init => FormItensInv
<1> SUFFICES ASSUME Init PROVE FormItensInv
  OBVIOUS
<1> linhas = UmaLinha /\ recebido = <<>> /\ visto = <<>> /\ buracos = 0
  BY DEF Init
<1>1. /\ linhas \in Seq(Linha) /\ Len(linhas) = 1 /\ EmOrdem(linhas)
      /\ Cardinality(Faltam(linhas)) = 0
  BY SoUma, FS_EmptySet
<1>2. TypeOK
  BY <1>1, FormItensConstantes DEF TypeOK
<1>3. /\ DOMAIN recebido = {} /\ Len(recebido) = 0 /\ DOMAIN visto = {} /\ Len(visto) = 0
  OBVIOUS
<1>4. Mostrado(recebido) = visto
  BY <1>3 DEF Mostrado
<1>5. PerdaLimitada /\ NadaMisturado
  BY <1>3, <1>4 DEF PerdaLimitada, TudoEntregue, NadaMisturado
<1>6. QED BY <1>1, <1>2, <1>5 DEF FormItensInv

\* A step that leaves the last submission alone leaves what is said about it, which
\* more holes make no stronger.
LEMMA MesmaEntrega ==
  ASSUME FormItensInv, UNCHANGED <<recebido, visto>>, buracos' \in Nat, buracos' >= buracos
  PROVE  PerdaLimitada' /\ NadaMisturado'
<1>1. buracos \in Nat /\ Len(visto) \in Nat /\ Len(recebido) \in Nat
  BY DEF FormItensInv, TypeOK
<1>2. Len(visto) - Len(recebido) <= buracos /\ (buracos = 0 => TudoEntregue)
  BY DEF FormItensInv, PerdaLimitada
<1>3. TudoEntregue' = TudoEntregue
  BY DEF TudoEntregue, Mostrado
<1>4. buracos' = 0 => buracos = 0
  BY <1>1
<1>5. PerdaLimitada'
  BY <1>1, <1>2, <1>3, <1>4 DEF PerdaLimitada
<1>6. NadaMisturado'
  BY DEF FormItensInv, NadaMisturado
<1>7. QED BY <1>5, <1>6

LEMMA PassoAdicionar ==
  ASSUME FormItensInv, Adicionar
  PROVE  FormItensInv'
<1> DEFINE l == Nova(Len(linhas))
           n == Len(linhas)
<1>1. linhas \in Seq(Linha) /\ n \in Nat /\ buracos \in Nat /\ l \in Linha
  BY FormItensConstantes DEF FormItensInv, TypeOK, Nova, Linha
<1>2. linhas' = Append(linhas, l) /\ n < MaxLinhas /\ UNCHANGED <<recebido, visto, buracos>>
  BY DEF Adicionar, NovoIndice
<1>3. l.indice = n
  BY DEF Nova
<1> HIDE DEF l
<1>4. /\ linhas' \in Seq(Linha) /\ Len(linhas') = n + 1
      /\ DOMAIN linhas = 1..n /\ DOMAIN linhas' = 1..n + 1
      /\ linhas'[n + 1] = l /\ \A i \in 1..n : linhas'[i] = linhas[i]
  BY <1>1, <1>2
<1> HIDE DEF n
<1>5. TypeOK'
  BY <1>1, <1>2, <1>4, FormItensConstantes DEF FormItensInv, TypeOK, n
<1>6. EmOrdem(linhas')
  BY <1>1, <1>3, <1>4 DEF FormItensInv, EmOrdem
<1>7. Faltam(linhas') \subseteq Faltam(linhas)
  <2>1. n + 1 \in DOMAIN linhas' /\ \A i \in DOMAIN linhas : i \in DOMAIN linhas'
    BY <1>1, <1>4
  <2>2. n \in Indices(linhas')
    BY <1>3, <1>4, <2>1 DEF Indices
  <2>3. Indices(linhas) \subseteq Indices(linhas')
    BY <1>4, <2>1 DEF Indices
  <2>4. 0..Len(linhas') - 1 = (0..n - 1) \cup {n}
    BY <1>1, <1>4
  <2>5. Faltam(linhas) = (0..n - 1) \ Indices(linhas)
    BY DEF Faltam, n
  <2>6. QED BY <2>2, <2>3, <2>4, <2>5 DEF Faltam
<1>8. Cardinality(Faltam(linhas')) <= buracos'
  <2>1. Cardinality(Faltam(linhas')) \in Nat /\ Cardinality(Faltam(linhas)) \in Nat
    BY <1>1, <1>4, FaltamPoucas
  <2>2. Cardinality(Faltam(linhas')) <= Cardinality(Faltam(linhas))
    BY <1>1, <1>4, <1>7, FaltamMenos
  <2>3. QED BY <1>1, <1>2, <2>1, <2>2 DEF FormItensInv
<1>9. PerdaLimitada' /\ NadaMisturado'
  BY <1>1, <1>2, MesmaEntrega
<1>10. QED BY <1>5, <1>6, <1>8, <1>9 DEF FormItensInv

\* A field that is changed names the row as before.
LEMMA PassoMudar ==
  ASSUME FormItensInv, NEW i \in DOMAIN linhas,
         \/ \E p \in Pecas : EscolherPeca(i, p)
         \/ \E q \in Quantidades : Digitar(i, q)
  PROVE  FormItensInv'
<1>1. linhas \in Seq(Linha) /\ buracos \in Nat
  BY DEF FormItensInv, TypeOK
<1>2. PICK r \in Linha : /\ linhas' = [linhas EXCEPT ![i] = r] /\ r.indice = linhas[i].indice
                         /\ UNCHANGED <<recebido, visto, buracos>>
  <2>1. linhas[i] \in Linha
    BY <1>1
  <2>2. CASE \E p \in Pecas : EscolherPeca(i, p)
    <3>1. PICK p \in Pecas : EscolherPeca(i, p)
      BY <2>2
    <3>2. /\ linhas' = [linhas EXCEPT ![i] = [linhas[i] EXCEPT !.peca = p]]
          /\ UNCHANGED <<recebido, visto, buracos>>
      BY <3>1 DEF EscolherPeca
    <3>3. /\ [linhas[i] EXCEPT !.peca = p] \in Linha
          /\ [linhas[i] EXCEPT !.peca = p].indice = linhas[i].indice
      BY <2>1 DEF Linha
    <3>4. QED BY <3>2, <3>3
  <2>3. CASE \E q \in Quantidades : Digitar(i, q)
    <3>1. PICK q \in Quantidades : Digitar(i, q)
      BY <2>3
    <3>2. /\ linhas' = [linhas EXCEPT ![i] = [linhas[i] EXCEPT !.quantidade = q]]
          /\ UNCHANGED <<recebido, visto, buracos>>
      BY <3>1 DEF Digitar
    <3>3. /\ [linhas[i] EXCEPT !.quantidade = q] \in Linha
          /\ [linhas[i] EXCEPT !.quantidade = q].indice = linhas[i].indice
      BY <2>1 DEF Linha
    <3>4. QED BY <3>2, <3>3
  <2>4. QED BY <2>2, <2>3
<1>3. /\ linhas' \in Seq(Linha) /\ Len(linhas') = Len(linhas) /\ DOMAIN linhas' = DOMAIN linhas
      /\ \A j \in DOMAIN linhas : linhas'[j].indice = linhas[j].indice
  BY <1>1, <1>2
<1>4. TypeOK'
  BY <1>2, <1>3 DEF FormItensInv, TypeOK
<1>5. EmOrdem(linhas')
  BY <1>3 DEF FormItensInv, EmOrdem
<1>6. Indices(linhas') = Indices(linhas)
  BY <1>3 DEF Indices
<1>7. Cardinality(Faltam(linhas')) <= buracos'
  BY <1>2, <1>3, <1>6 DEF FormItensInv, Faltam
<1>8. PerdaLimitada' /\ NadaMisturado'
  BY <1>1, <1>2, MesmaEntrega
<1>9. QED BY <1>4, <1>5, <1>7, <1>8 DEF FormItensInv

\* The removal of the last row leaves no index missing that was not, since the row
\* that goes had a lower place than its index, or the index of the last place.
LEMMA PassoRemover ==
  ASSUME FormItensInv, NEW i \in DOMAIN linhas, Remover(i)
  PROVE  FormItensInv'
<1> DEFINE n == Len(linhas)
           x == linhas[i].indice
<1>1. /\ linhas \in Seq(Linha) /\ n \in Nat /\ buracos \in Nat /\ i \in 1..n
      /\ DOMAIN linhas = 1..n /\ \A j \in 1..n : linhas[j].indice \in Nat
  <2>1. linhas \in Seq(Linha) /\ buracos \in Nat
    BY DEF FormItensInv, TypeOK
  <2>2. n \in Nat /\ DOMAIN linhas = 1..n /\ \A j \in 1..n : linhas[j] \in Linha
    BY <2>1
  <2>3. QED BY <2>1, <2>2 DEF Linha
<1>2. linhas' = RemoveAt(linhas, i) /\ UNCHANGED <<recebido, visto>>
  BY DEF Remover
<1>3. \/ i = n /\ buracos' = buracos
      \/ i # n /\ buracos < MaxBuracos /\ buracos' = buracos + 1
  BY DEF Remover
<1>4. /\ linhas' \in Seq(Linha) /\ Len(linhas') = n - 1 /\ DOMAIN linhas' = 1..n - 1
      /\ \A j \in 1..n - 1 : linhas'[j] = IF j < i THEN linhas[j] ELSE linhas[j + 1]
  <2>1. /\ linhas' \in Seq(Linha) /\ Len(linhas') = n - 1
        /\ \A j \in 1..n - 1 : linhas'[j] = IF j < i THEN linhas[j] ELSE linhas[j + 1]
    BY <1>1, <1>2, SemUma
  <2>2. QED BY <2>1
<1>5. \A j \in 1..n : linhas[j].indice >= j - 1
  BY <1>1 DEF FormItensInv, EmOrdem
<1>6. x \in Nat
  BY <1>1
<1> HIDE DEF n, x
<1>7. buracos' \in Nat /\ buracos' >= buracos /\ buracos' \in 0..MaxBuracos
  BY <1>1, <1>3, FormItensConstantes DEF FormItensInv, TypeOK
<1>8. TypeOK'
  <2>1. Len(linhas') <= MaxLinhas
    BY <1>1, <1>4, FormItensConstantes DEF FormItensInv, TypeOK, n
  <2>2. QED BY <1>2, <1>4, <1>7, <2>1 DEF FormItensInv, TypeOK
<1>9. EmOrdem(linhas')
  <2> SUFFICES ASSUME NEW j \in 1..n - 1 PROVE linhas'[j].indice >= j - 1
    BY <1>4 DEF EmOrdem
  <2>1. j \in 1..n /\ j + 1 \in 1..n
    BY <1>1
  <2>2. /\ linhas[j].indice >= j - 1 /\ linhas[j + 1].indice >= j + 1 - 1
        /\ linhas[j + 1].indice \in Nat
    BY <1>1, <1>5, <2>1
  <2>3. CASE j < i
    BY <1>4, <2>2, <2>3
  <2>4. CASE ~(j < i)
    BY <1>4, <2>1, <2>2, <2>4
  <2>5. QED BY <2>3, <2>4
<1>10. \A y \in Indices(linhas) : y = x \/ y \in Indices(linhas')
  <2> SUFFICES ASSUME NEW j \in 1..n, j # i
               PROVE  linhas[j].indice \in Indices(linhas')
    BY <1>1 DEF Indices, x
  <2>1. CASE j < i
    <3>1. j \in 1..n - 1
      BY <1>1, <2>1
    <3>2. QED BY <1>4, <2>1, <3>1 DEF Indices
  <2>2. CASE j > i
    <3>1. j - 1 \in 1..n - 1 /\ ~(j - 1 < i) /\ j - 1 + 1 = j
      BY <1>1, <2>2
    <3>2. linhas'[j - 1] = linhas[j]
      BY <1>4, <3>1
    <3>3. QED BY <1>4, <3>1, <3>2 DEF Indices
  <2>3. QED BY <1>1, <2>1, <2>2
<1>11. Faltam(linhas') \subseteq Faltam(linhas) \cup {x}
  <2>1. \A y \in 0..n - 1 - 1 : y \in 0..n - 1
    BY <1>1
  <2>2. QED BY <1>4, <1>10, <2>1 DEF Faltam, n
<1>12. i = n => Faltam(linhas') \subseteq Faltam(linhas)
  <2> SUFFICES ASSUME i = n PROVE Faltam(linhas') \subseteq Faltam(linhas)
    OBVIOUS
  <2>1. x >= n - 1
    BY <1>1, <1>5 DEF x
  <2>2. x \notin 0..n - 1 - 1
    BY <1>1, <1>6, <2>1
  <2>3. QED BY <1>4, <1>11, <2>2 DEF Faltam
<1>13. Cardinality(Faltam(linhas')) <= buracos'
  <2>1. Cardinality(Faltam(linhas')) \in Nat /\ Cardinality(Faltam(linhas)) \in Nat
    BY <1>1, <1>4, FaltamPoucas
  <2>2. Cardinality(Faltam(linhas)) <= buracos
    BY DEF FormItensInv
  <2>3. Cardinality(Faltam(linhas')) <= Cardinality(Faltam(linhas)) + 1
    BY <1>1, <1>4, <1>11, FaltamMenos
  <2>4. i = n => Cardinality(Faltam(linhas')) <= Cardinality(Faltam(linhas))
    BY <1>1, <1>4, <1>12, FaltamMenos
  <2>5. QED BY <1>1, <1>3, <2>1, <2>2, <2>3, <2>4
<1>14. PerdaLimitada' /\ NadaMisturado'
  BY <1>2, <1>7, MesmaEntrega
<1>15. QED BY <1>8, <1>9, <1>13, <1>14 DEF FormItensInv

\* A submission: what the array loses of the rows is at most the indices missing, and
\* the page that answers lacks no other.
LEMMA PassoEnviar ==
  ASSUME FormItensInv, Enviar
  PROVE  FormItensInv'
<1> DEFINE c == Coletar(linhas)
           n == Len(linhas)
<1>1. linhas \in Seq(Linha) /\ n \in Nat /\ buracos \in 0..MaxBuracos /\ n <= MaxLinhas
  BY DEF FormItensInv, TypeOK
<1>2. /\ \A i \in DOMAIN linhas : linhas[i].peca # SemPeca
      /\ recebido' = c /\ visto' = Mostrado(linhas) /\ buracos' = buracos
      /\ linhas' = IF c = <<>> THEN UmaLinha ELSE c
  BY DEF Enviar
<1>3. /\ c \in Seq(Linha) /\ Len(c) <= n /\ Distintos(c) /\ Indices(c) = Indices(linhas)
      /\ \A k \in DOMAIN c : \E i \in 1..n : c[k] = linhas[i]
      /\ EmOrdem(c)
      /\ Distintos(linhas) => c = linhas
  BY <1>1, ColetarFaz DEF Bem, FormItensInv
<1>4. DOMAIN linhas = 1..n /\ DOMAIN c = 1..Len(c) /\ Len(c) \in Nat
  BY <1>1, <1>3
<1>5. /\ visto' \in Seq([peca: Pecas, quantidade: Quantidades])
      /\ Len(visto') = n /\ DOMAIN visto' = 1..n
      /\ \A i \in 1..n : visto'[i] = [peca |-> linhas[i].peca, quantidade |-> linhas[i].quantidade]
  <2> DEFINE V == [peca: Pecas, quantidade: Quantidades]
             v(i) == [peca |-> linhas[i].peca, quantidade |-> linhas[i].quantidade]
  <2>1. \A i \in 1..n : v(i) \in V
    <3>1. \A i \in 1..n : linhas[i] \in Linha /\ linhas[i].peca # SemPeca
      BY <1>1, <1>2, <1>4
    <3>2. QED BY <3>1 DEF Linha
  <2>2. visto' = [i \in 1..n |-> v(i)]
    BY <1>2, <1>4 DEF Mostrado
  <2> HIDE DEF n, V, v
  <2>3. visto' \in Seq(V) /\ Len(visto') = n /\ DOMAIN visto' = 1..n
    BY <1>1, <2>1, <2>2
  <2>4. \A i \in 1..n : visto'[i] = v(i)
    BY <2>2
  <2>5. QED BY <2>3, <2>4 DEF V, v
<1> HIDE DEF c
<1>6. recebido' \in Seq(Linha)
  BY <1>2, <1>3
<1>7. linhas' \in Seq(Linha) /\ Len(linhas') <= MaxLinhas /\ EmOrdem(linhas')
  <2>1. Len(c) <= MaxLinhas /\ 1 <= MaxLinhas
    BY <1>1, <1>3, <1>4, FormItensConstantes
  <2>2. QED BY <1>2, <1>3, <2>1, SoUma
<1>8. TypeOK'
  BY <1>1, <1>2, <1>5, <1>6, <1>7 DEF TypeOK
<1>9. Faltam(linhas') \subseteq Faltam(linhas)
  <2>1. CASE c = <<>>
    BY <1>2, <2>1, SoUma
  <2>2. CASE c # <<>>
    <3>1. \A y \in 0..Len(c) - 1 : y \in 0..n - 1
      BY <1>1, <1>3, <1>4
    <3>2. QED BY <1>2, <1>3, <2>2, <3>1 DEF Faltam
  <2>3. QED BY <2>1, <2>2
<1>10. /\ Cardinality(Faltam(linhas)) \in Nat /\ Cardinality(Faltam(linhas)) <= buracos
       /\ n - Cardinality(Indices(linhas)) <= Cardinality(Faltam(linhas))
       /\ Cardinality(Faltam(linhas)) = 0 => Distintos(linhas)
       /\ Cardinality(Indices(linhas)) \in Nat
  BY <1>1, FaltamPoucas, QuantosIndices DEF FormItensInv
<1>11. Cardinality(Faltam(linhas')) <= buracos'
  <2>1. Cardinality(Faltam(linhas')) \in Nat
        /\ Cardinality(Faltam(linhas')) <= Cardinality(Faltam(linhas))
    BY <1>1, <1>7, <1>9, FaltamPoucas, FaltamMenos
  <2>2. QED BY <1>1, <1>2, <1>10, <2>1
<1>12. Len(c) = Cardinality(Indices(linhas))
  BY <1>3, QuantosIndices
<1>13. PerdaLimitada'
  <2>1. Len(visto') - Len(recebido') <= buracos'
    BY <1>1, <1>2, <1>5, <1>10, <1>12
  <2>2. ASSUME buracos' = 0 PROVE TudoEntregue'
    <3>1. Distintos(linhas)
      BY <1>1, <1>2, <1>10, <2>2
    <3>2. recebido' = linhas
      BY <1>2, <1>3, <3>1
    <3>3. QED BY <1>2, <3>2 DEF TudoEntregue, Mostrado
  <2>3. QED BY <2>1, <2>2 DEF PerdaLimitada
<1>14. NadaMisturado'
  <2> SUFFICES ASSUME NEW k \in 1..Len(c)
               PROVE  \E i \in 1..n : visto'[i] = Mostrado(c)[k]
    BY <1>2, <1>4, <1>5 DEF NadaMisturado
  <2>1. PICK i \in 1..n : c[k] = linhas[i]
    BY <1>3, <1>4
  <2>2. Mostrado(c)[k] = [peca |-> c[k].peca, quantidade |-> c[k].quantidade]
    BY <1>4 DEF Mostrado
  <2>3. QED BY <1>5, <2>1, <2>2
<1>15. QED BY <1>7, <1>8, <1>11, <1>13, <1>14 DEF FormItensInv

-----------------------------------------------------------------------------
(* The invariant, and what follows. *)

LEMMA Passo == FormItensInv /\ [Next]_vars => FormItensInv'
<1> SUFFICES ASSUME FormItensInv, [Next]_vars PROVE FormItensInv'
  OBVIOUS
<1>1. CASE UNCHANGED vars
  BY <1>1 DEF vars, FormItensInv, TypeOK, EmOrdem, Faltam, Indices, PerdaLimitada, TudoEntregue,
              Mostrado, NadaMisturado
<1>2. CASE Abrir
  <2>1. Init'
    BY <1>2 DEF Abrir, Init
  <2>2. QED BY <2>1, PassoAbrir, PTL
<1>3. QED
  BY <1>1, <1>2, PassoAdicionar, PassoMudar, PassoRemover, PassoEnviar DEF Next

\* Among the indices that the rows would have had if none had been removed, no more are
\* missing than rows were removed from above others, and the three properties hold.
THEOREM Invariante == Spec => []FormItensInv
BY PassoAbrir, Passo, PTL DEF Spec

\* The rows on the page, the array and the counters are always of their types, the
\* bounds on rows and holes included, whatever rows are added, chosen, removed, posted
\* and drawn again.
THEOREM TypeCorrect == Spec => []TypeOK
<1>1. FormItensInv => TypeOK
  BY DEF FormItensInv
<1>2. QED BY <1>1, Invariante, PTL

\* For forms of any length: a submission of the service or quotation form loses at most
\* one row for each row ever removed from above others since the page was opened, and
\* none, in order and content, when only last rows were removed.
THEOREM PerdaSempreLimitada == Spec => []PerdaLimitada
<1>1. FormItensInv => PerdaLimitada
  BY DEF FormItensInv
<1>2. QED BY <1>1, Invariante, PTL

\* For forms of any length and any collisions of indices: every entry of the array that
\* the handler reads has the part and the quantity of one and the same row on the
\* screen, although PHP stores the two fields of a row separately.
THEOREM NadaSeMistura == Spec => []NadaMisturado
<1>1. FormItensInv => NadaMisturado
  BY DEF FormItensInv
<1>2. QED BY <1>1, Invariante, PTL

=============================================================================
