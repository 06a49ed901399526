SPECIFICATION Spec
CONSTANTS
  Navegadores = {n1}
  Atendentes = {a1, a2, a3}
  Arquivos = {f1, f2, f3}
  e1 = e1
  e2 = e2
  x1 = x1
  Emails = {e1, e2}
  Senhas = {x1, x2}
  Tabelas <- TabelasIniciais
  Buffers = {TRUE, FALSE}
  Ninguem = Ninguem
INVARIANTS TypeOK EmailUnico SaidaVale SessaoDeUsuario LoginTemEfeito PaginaDeQuemEntrou
PROPERTIES CadastroVerdadeiro
SYMMETRY Simetria
