---------------------------- MODULE Implantacao ----------------------------
(***************************************************************************)
(* The system as it runs on the workshop's computer: the servers started   *)
(* by iniciar_oficina.bat (Iniciador) are the workers that serve the       *)
(* pages' requests on the two databases of inc/db.php (Conexao).  `php -S`  *)
(* serves one request at a time, and closing its window ends the one in    *)
(* course.                                                                 *)
(***************************************************************************)
EXTENDS Iniciador, Conexao

vars == <<varsIniciador, varsConexao>>

ASSUME CadaLancamentoUmServidor == Servidores = Lancamentos

TypeOK == TypeOKIniciador /\ TypeOKConexao

Init == InitIniciador /\ InitConexao

\* A run of the script goes on; no request is touched.
Lancar(l) == (Sondar8000(l) \/ Andamento(l)) /\ UNCHANGED varsConexao

\* The request in course ends with the process that served it.
AoFechar(l) == curso' = [curso EXCEPT ![l] = Nada]

Fechar(l) ==
  /\ FecharJanela(l)
  /\ AoFechar(l)
  /\ UNCHANGED <<mysql, trocas, linhas, salvos, form, pagina, ultimo>>

\* The browser reaches a server that listens: its own, or, on a shared port, any.
Navegar(l, u) == servidor[l] = "ouvindo" /\ Pedir(l, u) /\ UNCHANGED varsIniciador

Servir(l) == Atender(l) /\ UNCHANGED varsIniciador

Ambiente ==
  \/ Trocar /\ UNCHANGED varsIniciador
  \/ \E p \in Portas : (Esquecer(p) \/ Ocupar(p)) /\ UNCHANGED varsConexao

Next ==
  \/ \E l \in Lancamentos : Lancar(l) \/ Fechar(l) \/ Servir(l)
  \/ \E l \in Lancamentos, u \in Usuarios : Navegar(l, u)
  \/ Ambiente

Spec == Init /\ [][Next]_vars

=============================================================================
