--------------------------- MODULE EstoqueAbstrato ---------------------------
(***************************************************************************)
(* What the workshop wants of its stock: finishing a service takes all its *)
(* parts and records it in one step, and only when there is enough of each *)
(* of them.  Nothing else moves the stock but a count of one part, by      *)
(* somebody who holds the sheet of that part, and, as the pages have no    *)
(* transactions, a service that breaks off: it is not recorded, and some   *)
(* of its parts, each with its whole quantity, are gone.                   *)
(***************************************************************************)
EXTENDS Integers

CONSTANTS
  Pecas,     \* the parts
  Usos,      \* what services may use: functions from parts to quantities
  Numeros,   \* names of requests
  Inicial,   \* the first count
  Editores,  \* those who count parts
  SemFolha   \* "no sheet", not a part

VARIABLES
  saldo,        \* units of each part on the shelf
  registrados,  \* finished services: request and use
  folhas        \* the part whose sheet each of those who count has in hand

abstrato == <<saldo, registrados, folhas>>

Init == saldo = Inicial /\ registrados = {} /\ folhas = [s \in Editores |-> SemFolha]

\* One service, whole: enough of every part, all taken, one new record.
Finalizar(n, uso) ==
  /\ \A r \in registrados : r.numero # n
  /\ \A p \in Pecas : uso[p] <= saldo[p]
  /\ saldo' = [p \in Pecas |-> saldo[p] - uso[p]]
  /\ registrados' = registrados \cup {[numero |-> n, uso |-> uso]}
  /\ UNCHANGED folhas

\* A service that came to nothing: the parts it had taken were there.
Perder(uso, tomadas) ==
  /\ \A p \in tomadas : uso[p] <= saldo[p]
  /\ saldo' = [p \in Pecas |-> IF p \in tomadas THEN saldo[p] - uso[p] ELSE saldo[p]]
  /\ UNCHANGED <<registrados, folhas>>

\* Somebody takes the sheet of a part, in place of the one in hand.
Abrir(s, p) ==
  /\ folhas' = [folhas EXCEPT ![s] = p]
  /\ UNCHANGED <<saldo, registrados>>

\* A count hands in the sheet: the balance of its part becomes a natural number.
Contar(s) ==
  LET p == folhas[s] IN
    /\ p # SemFolha
    /\ saldo'[p] \in Nat
    /\ saldo' = [saldo EXCEPT ![p] = saldo'[p]]
    /\ folhas' = [folhas EXCEPT ![s] = SemFolha]
    /\ UNCHANGED registrados

Next ==
  \/ \E n \in Numeros, uso \in Usos : Finalizar(n, uso)
  \/ \E uso \in Usos, tomadas \in SUBSET Pecas : Perder(uso, tomadas)
  \/ \E s \in Editores : Contar(s) \/ \E p \in Pecas : Abrir(s, p)

Spec == Init /\ [][Next]_abstrato

=============================================================================
