------------------------------ MODULE VelhaProva ------------------------------
(***************************************************************************)
(* Proofs about Velha, whatever the users play and whoever abandons the    *)
(* game: as long as no child dies without a verdict, the two processes     *)
(* play one game and their verdicts agree.                                 *)
(***************************************************************************)
EXTENDS Velha, FiniteSetTheorems, SequenceTheorems, TLAPS

Quadro == [Casas -> {"X", "O", VAZIA}]

LEMMA Dois == /\ Jogador = {1, 2} /\ Outro(1) = 2 /\ Outro(2) = 1
              /\ Sinal(1) = "X" /\ Sinal(2) = "O"
              /\ \A i \in Jogador : /\ Outro(i) \in Jogador /\ Outro(i) # i
                                    /\ Outro(Outro(i)) = i
                                    /\ Sinal(i) \in {"X", "O"} /\ Sinal(Outro(i)) \in {"X", "O"}
  BY DEF Jogador, Outro, Sinal

-----------------------------------------------------------------------------
(* Boards *)

LEMMA NoveCasas == IsFiniteSet(Casas) /\ Cardinality(Casas) = 9
<1>1. IsFiniteSet(0..2) /\ Cardinality(0..2) = 3
  <2>1. 0 \in Int /\ 2 \in Int /\ ~(0 > 2) /\ 2 - 0 + 1 = 3
    OBVIOUS
  <2> QED
    BY <2>1, FS_Interval
<1>2. IsFiniteSet((0..2) \X (0..2)) /\ Cardinality((0..2) \X (0..2)) = 3 * 3
  BY <1>1, FS_Product
<1> QED
  BY <1>2 DEF Casas

LEMMA Contagem ==
  ASSUME NEW b \in Quadro
  PROVE  /\ IsFiniteSet(Cheias(b)) /\ Cardinality(Cheias(b)) \in 0..9
         /\ Cardinality(Cheias(b)) = 9 => Cheias(b) = Casas
<1>1. Cheias(b) \in SUBSET Casas
  BY DEF Cheias
<1>2. /\ IsFiniteSet(Cheias(b)) /\ Cardinality(Cheias(b)) <= 9
      /\ Cardinality(Cheias(b)) = 9 => Cheias(b) = Casas
  BY <1>1, NoveCasas, FS_Subset
<1>3. Cardinality(Cheias(b)) \in Nat
  BY <1>2, FS_CardinalityType
<1> QED
  BY <1>2, <1>3

\* A move adds one to the count and passes the turn.
LEMMA UmaMarca ==
  ASSUME NEW b \in Quadro, NEW m \in Casas, b[m] = VAZIA, NEW s \in {"X", "O"},
         NEW d, d = [b EXCEPT ![m] = s]
  PROVE  /\ d \in Quadro /\ d[m] = s
         /\ \A c \in Casas : c # m => d[c] = b[c]
         /\ Cardinality(Cheias(d)) = Cardinality(Cheias(b)) + 1
         /\ Cardinality(Cheias(d)) \in 0..9
         /\ VezDe(d) # VezDe(b) /\ VezDe(b) \in {"X", "O"} /\ VezDe(d) \in {"X", "O"}
<1>1. d \in Quadro /\ d[m] = s /\ \A c \in Casas : c # m => d[c] = b[c]
  BY DEF Quadro
<1>2. Cheias(d) = Cheias(b) \cup {m} /\ m \notin Cheias(b)
  BY <1>1 DEF Cheias, VAZIA
<1>3. Cardinality(Cheias(d)) = Cardinality(Cheias(b)) + 1
  BY <1>2, Contagem, FS_AddElement
<1>4. Cardinality(Cheias(d)) \in 0..9 /\ Cardinality(Cheias(b)) \in 0..9
  BY <1>1, Contagem
<1>5. VezDe(d) # VezDe(b) /\ VezDe(b) \in {"X", "O"} /\ VezDe(d) \in {"X", "O"}
  <2>1. \A x \in 0..9, y \in 0..9 :
          y = x + 1 => (x \in {0, 2, 4, 6, 8} <=> y \notin {0, 2, 4, 6, 8})
    OBVIOUS
  <2>2. Cardinality(Cheias(b)) \in {0, 2, 4, 6, 8} <=> Cardinality(Cheias(d)) \notin {0, 2, 4, 6, 8}
    BY <1>3, <1>4, <2>1
  <2> QED
    BY <2>2, Zenon DEF VezDe
<1> QED
  BY <1>1, <1>3, <1>4, <1>5

\* Tabuleiro joins the two boards; they differ by one move at most.
Uniao(a, b) == [c \in Casas |-> IF a[c] # VAZIA THEN a[c] ELSE b[c]]

LEMMA UmTabuleiro ==
  ASSUME NEW a \in Quadro, NEW m \in Casas, a[m] = VAZIA, NEW s \in {"X", "O"},
         NEW d, d = [a EXCEPT ![m] = s]
  PROVE  Uniao(a, d) = d /\ Uniao(d, a) = d
<1>1. d \in Quadro /\ d[m] # VAZIA /\ \A c \in Casas : c # m => d[c] = a[c]
  BY DEF Quadro, VAZIA
<1> QED
  BY <1>1 DEF Uniao, Quadro

LEMMA Juntos == ASSUME NEW a \in Quadro
                 PROVE  Uniao(a, a) = a
  BY DEF Uniao, Quadro

\* A move of the game that JogoDaVelha describes.
LEMMA UmaJogada ==
  ASSUME NEW m \in Casas, NEW s \in {"X", "O"}, Tabuleiro \in Quadro,
         Tabuleiro[m] = VAZIA, Vez = s, VereditoDe(Tabuleiro) = INDEFINIDO,
         Tabuleiro' = [Tabuleiro EXCEPT ![m] = s], Vez' # s, Vez' \in {"X", "O"}
  PROVE  Jogo!Next
<1>1. (CHOOSE t \in {"X", "O"} : t # s) = Vez'
  OBVIOUS
<1>2. ~AcabouParaOCodigo(Tabuleiro)
  BY DEF AcabouParaOCodigo
<1>3. Jogo!Joga(m)
  BY <1>1, <1>2 DEF Jogo!Joga, Jogo!Sinais, Jogo!VAZIA, VAZIA
<1> QED
  BY <1>3 DEF Jogo!Next, Jogo!Casas, Casas

-----------------------------------------------------------------------------
(* verifica_ganhador *)

LEMMA Primeira ==
  ASSUME NEW I \in [1..8 -> BOOLEAN], NEW k0 \in 1..8, I[k0]
  PROVE  \E k \in 1..8 : I[k] /\ \A j \in 1..(k - 1) : ~I[j]
<1>1. k0 \in {1, 2, 3, 4, 5, 6, 7, 8}
  OBVIOUS
<1>2. CASE I[1]
  BY <1>2
<1>3. CASE ~I[1] /\ I[2]
  BY <1>3
<1>4. CASE ~I[1] /\ ~I[2] /\ I[3]
  BY <1>4
<1>5. CASE ~I[1] /\ ~I[2] /\ ~I[3] /\ I[4]
  BY <1>5
<1>6. CASE ~I[1] /\ ~I[2] /\ ~I[3] /\ ~I[4] /\ I[5]
  BY <1>6
<1>7. CASE ~I[1] /\ ~I[2] /\ ~I[3] /\ ~I[4] /\ ~I[5] /\ I[6]
  BY <1>7
<1>8. CASE ~I[1] /\ ~I[2] /\ ~I[3] /\ ~I[4] /\ ~I[5] /\ ~I[6] /\ I[7]
  BY <1>8
<1>9. CASE ~I[1] /\ ~I[2] /\ ~I[3] /\ ~I[4] /\ ~I[5] /\ ~I[6] /\ ~I[7] /\ I[8]
  BY <1>9
<1> QED
  BY <1>1, <1>2, <1>3, <1>4, <1>5, <1>6, <1>7, <1>8, <1>9

\* The first line of equal cells decides, if there is one.
LEMMA Decide ==
  ASSUME NEW b, NEW senao
  PROVE  \/ \E s \in {"X", "O", VAZIA} : TemLinha(b, s) /\ PrimeiraLinha(b, senao) = s
         \/ (\A k \in 1..8 : ~Iguais(b, k)) /\ PrimeiraLinha(b, senao) = senao
<1>1. CASE \E k \in 1..8 : Iguais(b, k)
  <2> DEFINE I == [k \in 1..8 |-> Iguais(b, k)]
             k == CHOOSE j \in 1..8 : Iguais(b, j) /\ \A l \in 1..(j - 1) : ~Iguais(b, l)
             s == CHOOSE t \in {"X", "O", VAZIA} : \A c \in Linhas[k] : b[c] = t
  <2>1. PICK k0 \in 1..8 : Iguais(b, k0)
    BY <1>1
  <2>2. I \in [1..8 -> BOOLEAN] /\ I[k0]
    BY <2>1 DEF Iguais
  <2>3. \E j \in 1..8 : I[j] /\ \A l \in 1..(j - 1) : ~I[l]
    <3> HIDE DEF I
    <3> QED
      BY <2>2, Primeira
  <2>4. \E j \in 1..8 : Iguais(b, j) /\ \A l \in 1..(j - 1) : ~Iguais(b, l)
    <3>1. PICK j \in 1..8 : I[j] /\ \A l \in 1..(j - 1) : ~I[l]
      BY <2>3
    <3>2. \A l \in 1..(j - 1) : l \in 1..8
      OBVIOUS
    <3> QED
      BY <3>1, <3>2
  <2>5. k \in 1..8 /\ Iguais(b, k)
    BY <2>4
  <2>6. PrimeiraLinha(b, senao) = s
    BY <1>1 DEF PrimeiraLinha
  <2> HIDE DEF k
  <2>7. s \in {"X", "O", VAZIA} /\ \A c \in Linhas[k] : b[c] = s
    BY <2>5 DEF Iguais
  <2> QED
    BY <2>5, <2>6, <2>7 DEF TemLinha
<1>2. CASE \A k \in 1..8 : ~Iguais(b, k)
  BY <1>2 DEF PrimeiraLinha
<1> QED
  BY <1>1, <1>2

\* What a verdict means, and that a blank board does not end the game.
LEMMA Sentenca ==
  ASSUME NEW b \in Quadro
  PROVE  /\ VereditoDe(b) \in {"X", "O", EMPATE, INDEFINIDO}
         /\ VereditoDe(b) \in {"X", "O"} => TemLinha(b, VereditoDe(b))
         /\ VereditoDe(b) = EMPATE => /\ Cheias(b) = Casas
                                      /\ \A s \in {"X", "O"} : ~TemLinha(b, s)
<1> DEFINE senao == IF Cardinality(Cheias(b)) = 9 THEN EMPATE ELSE INDEFINIDO
<1>1. VereditoDe(b) = PrimeiraLinha(b, senao)
  BY DEF VereditoDe, verifica_ganhador
<1>2. CASE \E s \in {"X", "O", VAZIA} : TemLinha(b, s) /\ PrimeiraLinha(b, senao) = s
  BY <1>1, <1>2 DEF EMPATE, INDEFINIDO, VAZIA
<1>3. CASE (\A k \in 1..8 : ~Iguais(b, k)) /\ PrimeiraLinha(b, senao) = senao
  <2>1. \A s \in {"X", "O"} : ~TemLinha(b, s)
    BY <1>3 DEF TemLinha, Iguais
  <2> QED
    BY <1>1, <1>3, <2>1, Contagem DEF EMPATE, INDEFINIDO, VAZIA
<1> QED
  BY <1>2, <1>3, Decide

LEMMA EmBranco ==
  ASSUME NEW b \in Quadro, \A c \in Casas : b[c] = VAZIA
  PROVE  VereditoDe(b) = INDEFINIDO /\ Cardinality(Cheias(b)) = 0 /\ VezDe(b) = "X"
<1>1. Cheias(b) = {}
  BY DEF Cheias
<1>2. Cardinality(Cheias(b)) = 0 /\ VezDe(b) = "X"
  BY <1>1, FS_EmptySet DEF VezDe
<1>3. \A s \in {"X", "O"} : ~TemLinha(b, s)
  <2>1. \A k \in 1..8 : \E c \in Casas : c \in Linhas[k]
    <3>1. ASSUME NEW k \in 1..8 PROVE k \in {1, 2, 3, 4, 5, 6, 7, 8}
      OBVIOUS
    <3>2. /\ <<0,0>> \in Casas /\ <<1,0>> \in Casas /\ <<0,1>> \in Casas
          /\ <<2,0>> \in Casas /\ <<0,2>> \in Casas
      <4>1. 0 \in 0..2 /\ 1 \in 0..2 /\ 2 \in 0..2
        OBVIOUS
      <4> QED
        BY <4>1, Zenon DEF Casas
    <3>3. /\ <<0,0>> \in Linhas[1] /\ <<0,0>> \in Linhas[2] /\ <<1,0>> \in Linhas[3]
          /\ <<0,1>> \in Linhas[4] /\ <<2,0>> \in Linhas[5] /\ <<0,2>> \in Linhas[6]
          /\ <<0,0>> \in Linhas[7] /\ <<0,2>> \in Linhas[8]
      BY DEF Linhas
    <3> QED
      BY <3>1, <3>2, <3>3
  <2> QED
    BY <2>1 DEF TemLinha, VAZIA
<1>4. VereditoDe(b) = PrimeiraLinha(b, INDEFINIDO)
  BY <1>2 DEF VereditoDe, verifica_ganhador
<1> QED
  BY <1>2, <1>3, <1>4, Decide DEF INDEFINIDO, VAZIA

-----------------------------------------------------------------------------
(* The initial states and the types *)

LEMMA InitIInv == Init => IInv
<1> SUFFICES ASSUME Init PROVE IInv
  OBVIOUS
<1>1. \A i \in Jogador : velha[i] \in Quadro /\ \A c \in Casas : velha[i][c] = VAZIA
  BY DEF Init, Quadro
<1>2. TypeOK
  <2>1. cano \in [Jogador -> Seq(Casas \cup {NENHUMA})]
    BY EmptySeq DEF Init
  <2> QED
    BY <1>1, <2>1 DEF Init, TypeOK, INDEFINIDO, Quadro
<1>3. \A i \in Jogador : /\ VereditoDe(velha[i]) = INDEFINIDO
                         /\ Cardinality(Cheias(velha[i])) = 0 /\ VezDe(velha[i]) = "X"
  BY <1>1, EmBranco
<1>4. AntesDoFork /\ Processos
  BY DEF Init, AntesDoFork, Processos, Jogador
<1>5. \A i \in Jogador : EmDia(i)
  BY <1>3 DEF Init, EmDia
<1>6. SuaVez(1)
  BY <1>3, Dois DEF Init, SuaVez, Espera, SemRecado
<1> QED
  BY <1>2, <1>4, <1>5, <1>6, Dois DEF IInv, Partida, Fase

\* marca_velha gives a board, whatever it is asked to mark.
LEMMA TipoMarca == ASSUME NEW b \in Quadro, NEW m, NEW s \in {"X", "O"}
                   PROVE  marca_velha(b, m, s) \in Quadro
  BY DEF marca_velha, Quadro

LEMMA TipoVeredito == ASSUME NEW b, NEW k
                      PROVE  verifica_ganhador(b, k) \in {"X", "O", EMPATE, INDEFINIDO}
<1> DEFINE senao == IF k = 9 THEN EMPATE ELSE INDEFINIDO
<1>1. verifica_ganhador(b, k) = PrimeiraLinha(b, senao)
  BY DEF verifica_ganhador
<1>2. senao \in {EMPATE, INDEFINIDO}
  OBVIOUS
<1>3. PrimeiraLinha(b, senao) \in {"X", "O", VAZIA} \/ PrimeiraLinha(b, senao) = senao
  <2> HIDE DEF senao
  <2> QED
    BY Decide
<1> QED
  BY <1>1, <1>2, <1>3 DEF INDEFINIDO

Estado == {"nao", "pede", "le", "manda", "verifica", "aguarda", "escuta", "veredito", "fim"}

LEMMA TipoPasso == ASSUME TypeOK, [Next]_vars
                   PROVE  TypeOK'
<1> USE DEF jogo
<1>1. /\ pc \in [Jogador -> Estado] /\ velha \in [Jogador -> Quadro]
      /\ cano \in [Jogador -> Seq(Casas \cup {NENHUMA})]
      /\ contador \in [Jogador -> Nat]
      /\ msgPlayer \in [Jogador -> Casas \cup {NENHUMA}]
      /\ win \in [Jogador -> {"X", "O", EMPATE, INDEFINIDO}]
  BY DEF TypeOK, Estado, Quadro
<1>2. ASSUME NEW i \in Jogador, NEW m, Marca(i, m)
      PROVE  velha' \in [Jogador -> Quadro] /\ pc' \in [Jogador -> Estado]
  <2>1. marca_velha(velha[i], m, Sinal(i)) \in Quadro
    BY <1>1, Dois, TipoMarca
  <2> QED
    BY <1>1, <1>2, <2>1 DEF Marca, Estado
<1>3. ASSUME NEW i \in Jogador, NEW b, NEW segue \in Estado, Verifica(i, b, segue)
      PROVE  /\ contador' \in [Jogador -> Nat] /\ pc' \in [Jogador -> Estado]
             /\ win' \in [Jogador -> {"X", "O", EMPATE, INDEFINIDO}]
  <2> DEFINE v == verifica_ganhador(b, contador[i] + 1)
  <2>1. v \in {"X", "O", EMPATE, INDEFINIDO}
    BY TipoVeredito
  <2>2. /\ contador' = [contador EXCEPT ![i] = @ + 1] /\ win' = [win EXCEPT ![i] = v]
        /\ pc' = [pc EXCEPT ![i] = IF v = INDEFINIDO THEN segue ELSE "veredito"]
    BY <1>3 DEF Verifica
  <2> HIDE DEF v
  <2> QED
    BY <1>1, <2>1, <2>2 DEF Estado
<1>4. ASSUME NEW i \in Jogador, NEW m \in Casas \cup {NENHUMA}, Anota(i, m)
      PROVE  /\ velha' \in [Jogador -> Quadro] /\ contador' \in [Jogador -> Nat]
             /\ msgPlayer' \in [Jogador -> Casas \cup {NENHUMA}] /\ pc' \in [Jogador -> Estado]
             /\ win' \in [Jogador -> {"X", "O", EMPATE, INDEFINIDO}]
  <2>1. marca_velha(velha[i], m, Sinal(Outro(i))) \in Quadro
    BY <1>1, Dois, TipoMarca
  <2>2. /\ velha' = [velha EXCEPT ![i] = marca_velha(velha[i], m, Sinal(Outro(i)))]
        /\ msgPlayer' = [msgPlayer EXCEPT ![i] = m]
        /\ Verifica(i, marca_velha(velha[i], m, Sinal(Outro(i))), "pede")
    BY <1>4 DEF Anota
  <2>3. "pede" \in Estado
    BY DEF Estado
  <2> QED
    BY <1>1, <1>3, <2>1, <2>2, <2>3
<1>5. CASE AceitaFalha \/ Waitpid
  BY <1>5 DEF AceitaFalha, Waitpid, TypeOK
<1>6. ASSUME NEW i \in Jogador, Aceita(i) PROVE TypeOK'
  <2>1. /\ pai' \in {"accept1", "accept2", "waitpid", "fim"} /\ pc' \in [Jogador -> Estado]
        /\ conexao' \in [Jogador -> {"nao", "aberta", "fechada", "rst"}]
    BY <1>1, <1>6, Dois DEF Aceita, TypeOK, Estado
  <2> QED
    BY <1>6, <2>1 DEF Aceita, TypeOK, Estado
<1>7. ASSUME NEW i \in Jogador, Pede(i) \/ Aguarda(i) \/ Veredito(i) PROVE TypeOK'
  <2>1. pc' \in [Jogador -> Estado]
    BY <1>1, <1>7 DEF Pede, Aguarda, Veredito, Envia, Estado
  <2>2. conversa' \in [Jogador -> {NADA, SUA_VEZ} \cup Casas]
    BY <1>7 DEF Pede, Aguarda, Veredito, TypeOK
  <2> QED
    BY <1>7, <2>1, <2>2 DEF Pede, Aguarda, Veredito, TypeOK, Estado
<1>8. ASSUME NEW i \in Jogador, Le(i) PROVE TypeOK'
  <2>1. velha' \in [Jogador -> Quadro] /\ pc' \in [Jogador -> Estado]
    BY <1>2, <1>8 DEF Le
  <2>2. /\ msgPlayer' \in [Jogador -> Casas \cup {NENHUMA}]
        /\ conversa' \in [Jogador -> {NADA, SUA_VEZ} \cup Casas]
    BY <1>8 DEF Le, TypeOK
  <2> QED
    BY <1>8, <2>1, <2>2 DEF Le, TypeOK, Estado, Quadro
<1>9. ASSUME NEW i \in Jogador, LeFim(i) PROVE TypeOK'
  <2>1. velha' \in [Jogador -> Quadro] /\ pc' \in [Jogador -> Estado]
    BY <1>2, <1>9 DEF LeFim
  <2> QED
    BY <1>9, <2>1 DEF LeFim, TypeOK, Estado, Quadro
<1>10. ASSUME NEW i \in Jogador, Manda(i) PROVE TypeOK'
  <2>1. pc' \in [Jogador -> Estado]
    BY <1>1, <1>10 DEF Manda, Estado
  <2>2. cano' \in [Jogador -> Seq(Casas \cup {NENHUMA})]
    <3>1. Append(cano[i], msgPlayer[i]) \in Seq(Casas \cup {NENHUMA})
      BY <1>1, AppendProperties
    <3> QED
      BY <1>1, <1>10, <3>1 DEF Manda
  <2> QED
    BY <1>10, <2>1, <2>2 DEF Manda, TypeOK, Estado
<1>11. ASSUME NEW i \in Jogador, VerificaMinha(i) PROVE TypeOK'
  <2>1. /\ contador' \in [Jogador -> Nat] /\ pc' \in [Jogador -> Estado]
        /\ win' \in [Jogador -> {"X", "O", EMPATE, INDEFINIDO}]
    BY <1>3, <1>11 DEF VerificaMinha, Estado
  <2> QED
    BY <1>11, <2>1 DEF VerificaMinha, TypeOK, Estado
<1>12. ASSUME NEW i \in Jogador, Escuta(i) PROVE TypeOK'
  <2>1. Head(cano[Outro(i)]) \in Casas \cup {NENHUMA}
    BY <1>1, <1>12, Dois, HeadTailProperties DEF Escuta
  <2>2. /\ velha' \in [Jogador -> Quadro] /\ contador' \in [Jogador -> Nat]
        /\ msgPlayer' \in [Jogador -> Casas \cup {NENHUMA}] /\ pc' \in [Jogador -> Estado]
        /\ win' \in [Jogador -> {"X", "O", EMPATE, INDEFINIDO}]
    BY <1>4, <1>12, <2>1 DEF Escuta
  <2>3. cano' \in [Jogador -> Seq(Casas \cup {NENHUMA})]
    BY <1>1, <1>12, EmptySeq DEF Escuta
  <2> QED
    BY <1>12, <2>2, <2>3 DEF Escuta, TypeOK, Estado, Quadro
<1>13. ASSUME NEW i \in Jogador, EscutaFim(i) PROVE TypeOK'
  <2>1. /\ velha' \in [Jogador -> Quadro] /\ contador' \in [Jogador -> Nat]
        /\ msgPlayer' \in [Jogador -> Casas \cup {NENHUMA}] /\ pc' \in [Jogador -> Estado]
        /\ win' \in [Jogador -> {"X", "O", EMPATE, INDEFINIDO}]
    BY <1>1, <1>4, <1>13 DEF EscutaFim
  <2> QED
    BY <1>13, <2>1 DEF EscutaFim, TypeOK, Estado, Quadro
<1>14. ASSUME NEW i \in Jogador, FimDeConexao(i) \/ Abandona(i) \/ Reset(i) PROVE TypeOK'
  <2>1. conexao' \in [Jogador -> {"nao", "aberta", "fechada", "rst"}]
    BY <1>14 DEF FimDeConexao, Abandona, Reset, TypeOK
  <2> QED
    BY <1>14, <2>1 DEF FimDeConexao, Abandona, Reset, TypeOK
<1>15. ASSUME NEW i \in Jogador, NEW c \in Casas, Responde(i, c) PROVE TypeOK'
  <2>1. conversa' \in [Jogador -> {NADA, SUA_VEZ} \cup Casas]
    BY <1>15 DEF Responde, TypeOK
  <2> QED
    BY <1>15, <2>1 DEF Responde, TypeOK
<1>16. CASE UNCHANGED vars
  BY <1>16 DEF vars, TypeOK
<1> QED
  BY <1>5, <1>6, <1>7, <1>8, <1>9, <1>10, <1>11, <1>12, <1>13, <1>14, <1>15, <1>16
  DEF Next, Filho
-----------------------------------------------------------------------------
(* A game that is no longer whole is not made whole by a step *)

\* Which steps fork and end children.
LEMMA QuemMuda ==
  ASSUME TypeOK, AntesDoFork, [Next]_vars
  PROVE  /\ \/ pai' = pai /\ (pc'[2] = "nao" <=> pc[2] = "nao")
            \/ pai = "accept1" /\ pai' \in {"accept2", "fim"} /\ pc'[2] = pc[2]
            \/ pai = "accept2" /\ (pai' = "waitpid" \/ (pai' = "fim" /\ pc'[2] = pc[2]))
            \/ pai = "waitpid" /\ pai' = "fim" /\ pc'[2] = pc[2]
         /\ pc'[1] = "nao" => pc[1] = "nao"
         /\ pc[1] = "nao" /\ pc'[1] # "nao" => pai = "accept1" /\ pai' = "accept2"
         /\ \A j \in Jogador : pc[j] = "fim" => pc'[j] = "fim" /\ win'[j] = win[j]
<1> USE DEF jogo
<1>1. CASE AceitaFalha \/ Waitpid
  BY <1>1 DEF AceitaFalha, Waitpid
<1>2. CASE Aceita(1)
  BY <1>2, Dois DEF Aceita, TypeOK, AntesDoFork
<1>3. CASE Aceita(2)
  BY <1>3, Dois DEF Aceita, TypeOK, AntesDoFork
<1>4. ASSUME NEW i \in Jogador, Filho(i)
      PROVE  /\ pai' = pai /\ pc[i] \notin {"nao", "fim"} /\ pc'[i] # "nao"
             /\ \A j \in Jogador \ {i} : pc'[j] = pc[j] /\ win'[j] = win[j]
  <2>1. CASE Pede(i) \/ Aguarda(i) \/ Veredito(i)
    BY <2>1 DEF Pede, Aguarda, Veredito, Envia, TypeOK
  <2>2. CASE Le(i) \/ LeFim(i)
    BY <2>2 DEF Le, LeFim, Marca, TypeOK
  <2>3. CASE Manda(i)
    BY <2>3 DEF Manda, TypeOK
  <2>4. CASE VerificaMinha(i)
    BY <2>4 DEF VerificaMinha, Verifica, TypeOK
  <2>5. CASE Escuta(i) \/ EscutaFim(i)
    BY <2>5 DEF Escuta, EscutaFim, Anota, Verifica, TypeOK
  <2> QED
    BY <1>4, <2>1, <2>2, <2>3, <2>4, <2>5 DEF Filho
<1>5. ASSUME NEW i \in Jogador, Filho(i)
      PROVE  \A j \in Jogador : pc'[j] = "nao" <=> pc[j] = "nao"
  BY <1>4, <1>5
<1>6. CASE \E i \in Jogador : \/ FimDeConexao(i) \/ Abandona(i) \/ Reset(i)
                              \/ \E c \in Casas : Responde(i, c)
  BY <1>6 DEF FimDeConexao, Abandona, Reset, Responde
<1>7. CASE UNCHANGED vars
  BY <1>7 DEF vars
<1>8. ASSUME NEW i \in Jogador, Filho(i)
      PROVE  /\ pai' = pai /\ (pc'[2] = "nao" <=> pc[2] = "nao")
             /\ pc'[1] = "nao" <=> pc[1] = "nao"
             /\ \A j \in Jogador : pc[j] = "fim" => pc'[j] = "fim" /\ win'[j] = win[j]
  BY <1>4, <1>5, <1>8, Dois
<1> QED
  BY <1>1, <1>2, <1>3, <1>6, <1>7, <1>8, Dois DEF Next

LEMMA PassoAntes == ASSUME TypeOK, AntesDoFork, [Next]_vars
                    PROVE  AntesDoFork' /\ (Inteira' => Inteira)
<1>1. AntesDoFork'
  BY QuemMuda DEF AntesDoFork
<1>2. Inteira' => Inteira
  BY QuemMuda, Dois DEF Inteira, AntesDoFork
<1> QED
  BY <1>1, <1>2

-----------------------------------------------------------------------------
(* The phases *)

\* Where a child is tells the phase.
LEMMA Momento ==
  ASSUME Partida, NEW i \in Jogador
  PROVE  /\ pc[i] \in {"pede", "le"} => SuaVez(i)
         /\ pc[i] = "manda" => Marcou(i)
         /\ pc[i] \in {"aguarda", "escuta"} =>
              SuaVez(Outro(i)) \/ Marcou(Outro(i)) \/ Mandou(Outro(i)) \/ Mandou(i)
         /\ pc[i] = "verifica" =>
              \/ SuaVez(Outro(i)) \/ Marcou(Outro(i)) \/ Mandou(Outro(i)) \/ Mandou(i)
              \/ FimDeJogo
         /\ pc[i] = "veredito" => Mandou(i) \/ FimDeJogo
         /\ cano[Outro(i)] # <<>> => Mandou(Outro(i))
<1>1. \/ FimDeJogo \/ SuaVez(i) \/ Marcou(i) \/ Mandou(i)
      \/ SuaVez(Outro(i)) \/ Marcou(Outro(i)) \/ Mandou(Outro(i))
  BY Dois DEF Partida, Fase
<1>2. Outro(Outro(i)) = i /\ Outro(i) \in Jogador
  BY Dois
<1>3. CASE FimDeJogo
  BY <1>2, <1>3 DEF FimDeJogo, SemRecado
<1>4. CASE SuaVez(i)
  BY <1>2, <1>4 DEF SuaVez, SemRecado
<1>5. CASE Marcou(i)
  BY <1>2, <1>5 DEF Marcou, SemRecado
<1>6. CASE Mandou(i)
  BY <1>2, <1>6 DEF Mandou
<1>7. CASE SuaVez(Outro(i)) \/ Marcou(Outro(i)) \/ Mandou(Outro(i))
  <2>1. Espera(i)
    BY <1>2, <1>7 DEF SuaVez, Marcou, Mandou
  <2>2. cano[Outro(i)] # <<>> => Mandou(Outro(i))
    BY <1>2, <1>7 DEF SuaVez, Marcou, SemRecado
  <2> QED
    BY <1>7, <2>1, <2>2 DEF Espera
<1> QED
  BY <1>1, <1>3, <1>4, <1>5, <1>6, <1>7
LEMMA EmDiaDepois ==
  ASSUME NEW j \in Jogador, EmDia(j),
         pc'[j] = pc[j], velha'[j] = velha[j], contador'[j] = contador[j], win'[j] = win[j]
  PROVE  EmDia(j)'
  BY DEF EmDia

Esperando == {"nao", "verifica", "aguarda", "escuta"}

\* A step of child i that leaves boards and pipes alone stays in its phase.
LEMMA MesmaFase ==
  ASSUME Fase, NEW i \in Jogador, UNCHANGED <<velha, msgPlayer, cano>>,
         pc'[Outro(i)] = pc[Outro(i)],
         SuaVez(i) => pc'[i] \in {"pede", "le"},
         Marcou(i) => pc'[i] = "manda",
         Mandou(i) => pc'[i] \in {"verifica", "aguarda", "escuta", "veredito", "fim"},
         SuaVez(Outro(i)) \/ Marcou(Outro(i)) \/ Mandou(Outro(i)) => pc'[i] \in Esperando,
         FimDeJogo => pc'[i] \in {"verifica", "veredito", "fim"}
  PROVE  Fase'
<1> DEFINE o == Outro(i)
<1>1. /\ o \in Jogador /\ o # i /\ Outro(o) = i /\ \A j \in Jogador : j = i \/ j = o
      /\ pc'[o] = pc[o]
  BY Dois
<1>2. FimDeJogo \/ SuaVez(i) \/ Marcou(i) \/ Mandou(i) \/ SuaVez(o) \/ Marcou(o) \/ Mandou(o)
  BY <1>1 DEF Fase
<1> HIDE DEF o
<1>3. CASE FimDeJogo
  BY <1>1, <1>3 DEF FimDeJogo, SemRecado, Fase
<1>4. CASE SuaVez(i)
  <2>1. Espera(o)' /\ SemRecado'
    BY <1>1, <1>4 DEF SuaVez, Espera, SemRecado, o
  <2>2. SuaVez(i)'
    BY <1>1, <1>4, <2>1 DEF SuaVez, o
  <2> QED
    BY <2>2 DEF Fase
<1>5. CASE Marcou(i)
  <2>1. Espera(o)' /\ SemRecado'
    BY <1>1, <1>5 DEF Marcou, Espera, SemRecado, o
  <2>2. Marcou(i)'
    BY <1>1, <1>5, <2>1 DEF Marcou, UmAMais, o
  <2> QED
    BY <2>2 DEF Fase
<1>6. CASE Mandou(i)
  <2>1. Espera(o)'
    BY <1>1, <1>6 DEF Mandou, Espera, o
  <2>2. Mandou(i)'
    BY <1>1, <1>6, <2>1 DEF Mandou, UmAMais, o
  <2> QED
    BY <2>2 DEF Fase
<1>7. CASE SuaVez(o) \/ Marcou(o) \/ Mandou(o)
  <2>1. Espera(i)
    BY <1>1, <1>7 DEF SuaVez, Marcou, Mandou
  <2>2. Espera(i)'
    BY <1>7, <2>1 DEF Espera, Esperando, o
  <2>3. SuaVez(o) => SuaVez(o)'
    BY <1>1, <2>2 DEF SuaVez, SemRecado
  <2>4. Marcou(o) => Marcou(o)'
    BY <1>1, <2>2 DEF Marcou, SemRecado, UmAMais
  <2>5. Mandou(o) => Mandou(o)'
    BY <1>1, <2>2 DEF Mandou, UmAMais
  <2> QED
    BY <1>1, <1>7, <2>3, <2>4, <2>5 DEF Fase
<1> QED
  BY <1>2, <1>3, <1>4, <1>5, <1>6, <1>7

-----------------------------------------------------------------------------
(* The steps of a game *)

\* The parent ends, a client answers or goes away, the connection is reset.
LEMMA PassoQuieto ==
  ASSUME TypeOK, AntesDoFork, Inteira, Partida, Inteira',
         \/ AceitaFalha \/ Waitpid \/ UNCHANGED vars
         \/ \E i \in Jogador : \/ FimDeConexao(i) \/ Abandona(i) \/ Reset(i)
                               \/ \E c \in Casas : Responde(i, c)
  PROVE  Partida'
<1> USE DEF jogo, vars
<1>1. UNCHANGED <<pc, velha, contador, msgPlayer, win, cano>>
  BY DEF AceitaFalha, Waitpid, FimDeConexao, Abandona, Reset, Responde
<1>2. \A j \in Jogador : EmDia(j)'
  BY <1>1, EmDiaDepois DEF Partida
<1>3. Fase'
  BY <1>1 DEF Partida, Fase, FimDeJogo, SuaVez, Marcou, Mandou, Espera, SemRecado, UmAMais
<1>4. (pc[1] = "nao" <=> pai' = "accept1") /\ (pc[2] = "nao" <=> pai' \in {"accept1", "accept2"})
  <2>1. CASE AceitaFalha
    BY <1>1, <2>1 DEF AceitaFalha, AntesDoFork, Inteira
  <2>2. CASE Waitpid
    BY <2>2 DEF Waitpid, Partida, Processos
  <2>3. CASE pai' = pai
    BY <2>3 DEF Partida, Processos
  <2> QED
    BY <2>1, <2>2, <2>3 DEF FimDeConexao, Abandona, Reset, Responde
<1>5. conexao'[1] \in {"fechada", "rst"} => msgPlayer[1] \in Casas \/ pc[1] = "fim"
  <2>1. conexao[1] \in {"fechada", "rst"} => msgPlayer[1] \in Casas \/ pc[1] = "fim"
    BY DEF Partida, Processos
  <2>2. msgPlayer[1] \in Casas \cup {NENHUMA} /\ 1 \in Jogador
    BY Dois DEF TypeOK
  <2>3. ASSUME NEW i \in Jogador, FimDeConexao(i) \/ Abandona(i) \/ Reset(i)
        PROVE  conexao'[1] \in {"fechada", "rst"} => msgPlayer[1] \in Casas \/ pc[1] = "fim"
    <3>1. CASE i # 1
      BY <2>1, <2>2, <2>3, <3>1 DEF FimDeConexao, Abandona, Reset, TypeOK
    <3>2. CASE i = 1
      BY <2>1, <2>2, <2>3, <3>2 DEF FimDeConexao, Abandona, Reset
    <3> QED
      BY <3>1, <3>2
  <2>4. CASE conexao' = conexao
    BY <2>1, <2>4
  <2> QED
    BY <2>3, <2>4 DEF AceitaFalha, Waitpid, Responde
<1>6. Processos'
  BY <1>1, <1>4, <1>5 DEF Partida, Processos
<1> QED
  BY <1>2, <1>3, <1>6 DEF Partida

\* What a child or a fork leaves of Processos.
LEMMA ProcessosDepois ==
  ASSUME TypeOK, Partida, NEW i \in Jogador, pai' = pai, conexao' = conexao,
         pc[i] \notin {"nao", "fim"}, pc'[i] # "nao", pc'[Outro(i)] = pc[Outro(i)],
         msgPlayer'[Outro(i)] = msgPlayer[Outro(i)],
         msgPlayer'[i] = msgPlayer[i] \/ msgPlayer'[i] \in Casas,
         pc'[i] \in {"pede", "le"} => pc[i] \in {"pede", "le"} \/ msgPlayer'[i] \in Casas
  PROVE  Processos'
<1>1. CASE i = 1
  BY <1>1, Dois DEF Partida, Processos
<1>2. CASE i = 2
  BY <1>2, Dois DEF Partida, Processos
<1> QED
  BY <1>1, <1>2, Dois

\* A fork.
LEMMA PassoAceita ==
  ASSUME TypeOK, AntesDoFork, Inteira, Partida, NEW i \in Jogador, Aceita(i)
  PROVE  Partida'
<1> USE DEF jogo
<1>1. /\ UNCHANGED <<velha, contador, msgPlayer, win, cano>>
      /\ pc[i] = "nao" /\ pc'[Outro(i)] = pc[Outro(i)]
      /\ i = 1 => pc'[1] = "pede" /\ pai = "accept1" /\ pai' = "accept2" /\ pc[2] = "nao"
      /\ i = 2 => pc'[2] = "aguarda" /\ pai = "accept2" /\ pai' = "waitpid"
  BY Dois DEF Aceita, TypeOK, AntesDoFork
<1>2. \A j \in Jogador : EmDia(j)'
  <2>1. EmDia(Outro(i))'
    BY <1>1, Dois, EmDiaDepois DEF Partida
  <2>2. EmDia(i)'
    BY <1>1, Dois DEF Partida, EmDia
  <2> QED
    BY <2>1, <2>2, Dois
<1>3. Fase'
  <2>1. i = 1 => ~SuaVez(2) /\ ~Marcou(2) /\ ~Mandou(2)
    BY <1>1 DEF SuaVez, Marcou, Mandou
  <2>2. i = 2 => ~SuaVez(2)
    BY <1>1 DEF SuaVez
  <2>3. ~Marcou(i) /\ ~Mandou(i) /\ ~FimDeJogo
    BY <1>1 DEF Marcou, Mandou, FimDeJogo
  <2> QED
    BY <1>1, <2>1, <2>2, <2>3, Dois, MesmaFase DEF Partida, Esperando
<1>4. Processos'
  <2>1. conexao'[1] \in {"fechada", "rst"} => i # 1 /\ conexao[1] \in {"fechada", "rst"}
    BY Dois DEF Aceita, TypeOK
  <2>2. i = 1 \/ i = 2
    BY Dois
  <2> QED
    BY <1>1, <2>1, <2>2, Dois DEF Partida, Processos, AntesDoFork
<1> QED
  BY <1>2, <1>3, <1>4 DEF Partida

\* Messages to the client.
LEMMA PassoEnvia ==
  ASSUME TypeOK, AntesDoFork, Inteira, Partida, Inteira',
         NEW i \in Jogador, Pede(i) \/ Aguarda(i) \/ Veredito(i)
  PROVE  Partida'
<1> USE DEF jogo
<1>1. /\ UNCHANGED <<pai, velha, contador, msgPlayer, win, cano, conexao>>
      /\ pc'[Outro(i)] = pc[Outro(i)] /\ EmDia(i)
      /\ \/ pc[i] = "pede" /\ pc'[i] \in {"le", "fim"}
         \/ pc[i] = "aguarda" /\ pc'[i] \in {"escuta", "fim"}
         \/ pc[i] = "veredito" /\ pc'[i] = "fim"
  BY Dois DEF Pede, Aguarda, Veredito, Envia, TypeOK, Partida
<1>2. \/ pc[i] = "pede" /\ pc'[i] = "le"
      \/ pc[i] = "aguarda" /\ pc'[i] = "escuta"
      \/ pc[i] = "veredito" /\ pc'[i] = "fim"
  BY <1>1 DEF EmDia, Inteira
<1>3. \A j \in Jogador : EmDia(j)'
  <2>1. EmDia(Outro(i))'
    BY <1>1, Dois, EmDiaDepois DEF Partida
  <2>2. EmDia(i)'
    BY <1>1, <1>2 DEF EmDia
  <2> QED
    BY <2>1, <2>2, Dois
<1>4. Fase'
  <2>1. /\ SuaVez(i) => pc'[i] \in {"pede", "le"}
        /\ Marcou(i) => pc'[i] = "manda"
        /\ Mandou(i) => pc'[i] \in {"verifica", "aguarda", "escuta", "veredito", "fim"}
        /\ FimDeJogo => pc'[i] \in {"verifica", "veredito", "fim"}
    BY <1>2, Dois DEF SuaVez, Marcou, Mandou, FimDeJogo
  <2>2. SuaVez(Outro(i)) \/ Marcou(Outro(i)) \/ Mandou(Outro(i)) => pc'[i] \in Esperando
    BY <1>2, Dois DEF SuaVez, Marcou, Mandou, Espera, Esperando
  <2> QED
    BY <1>1, <2>1, <2>2, MesmaFase DEF Partida
<1>5. Processos'
  BY <1>1, <1>2, ProcessosDepois
<1> QED
  BY <1>3, <1>4, <1>5 DEF Partida

\* Child i tests the board after its own move.
LEMMA PassoVerifica ==
  ASSUME TypeOK, AntesDoFork, Inteira, Partida, NEW i \in Jogador, VerificaMinha(i)
  PROVE  Partida'
<1> USE DEF jogo
<1> DEFINE v == VereditoDe(velha[i])
<1>1. pc[i] = "verifica" /\ EmDia(i) /\ Cardinality(Cheias(velha[i])) = contador[i] + 1
  BY DEF VerificaMinha, Partida, EmDia
<1>2. /\ contador' = [contador EXCEPT ![i] = @ + 1]
      /\ win' = [win EXCEPT ![i] = v]
      /\ pc' = [pc EXCEPT ![i] = IF v = INDEFINIDO THEN "aguarda" ELSE "veredito"]
      /\ UNCHANGED <<pai, velha, msgPlayer, cano, conexao, conversa>>
  BY <1>1 DEF VerificaMinha, Verifica, VereditoDe
<1>3. VereditoDe(velha'[i]) = v
  BY <1>2
<1> HIDE DEF v
<1>4. /\ contador'[i] = contador[i] + 1 /\ win'[i] = v
      /\ v = INDEFINIDO => pc'[i] = "aguarda"
      /\ v # INDEFINIDO => pc'[i] = "veredito"
      /\ pc'[Outro(i)] = pc[Outro(i)] /\ contador'[Outro(i)] = contador[Outro(i)]
      /\ win'[Outro(i)] = win[Outro(i)]
  BY <1>2, Dois DEF TypeOK
<1>5. \A j \in Jogador : EmDia(j)'
  <2>1. EmDia(Outro(i))'
    BY <1>2, <1>4, Dois, EmDiaDepois DEF Partida
  <2>2. EmDia(i)'
    <3>1. Cardinality(Cheias(velha'[i])) = contador'[i]
      BY <1>1, <1>2, <1>4
    <3> QED
      BY <1>3, <1>4, <3>1 DEF EmDia
  <2> QED
    BY <2>1, <2>2, Dois
<1>6. Fase'
  <2>1. ~SuaVez(i) /\ ~Marcou(i)
    BY <1>1 DEF SuaVez, Marcou
  <2>2. pc'[i] \in {"verifica", "aguarda", "escuta", "veredito", "fim"}
    BY <1>4
  <2>3. SuaVez(Outro(i)) \/ Marcou(Outro(i)) \/ Mandou(Outro(i)) => pc'[i] \in Esperando
    <3>1. SuaVez(Outro(i)) \/ Marcou(Outro(i)) \/ Mandou(Outro(i)) => Espera(i)
      BY Dois DEF SuaVez, Marcou, Mandou
    <3> QED
      BY <1>4, <3>1 DEF Espera, Esperando, v
  <2>4. FimDeJogo => pc'[i] \in {"verifica", "veredito", "fim"}
    <3>1. FimDeJogo => velha[i] = velha[1] /\ AcabouParaOCodigo(velha[1])
      BY Dois DEF FimDeJogo
    <3> QED
      BY <1>4, <3>1 DEF AcabouParaOCodigo, v
  <2> QED
    BY <1>2, <1>4, <2>1, <2>2, <2>3, <2>4, MesmaFase DEF Partida
<1>7. Processos'
  <2>1. pc'[i] \notin {"nao", "pede", "le"}
    BY <1>4
  <2> QED
    BY <1>1, <1>2, <1>4, <2>1, Dois, ProcessosDepois
<1> QED
  BY <1>5, <1>6, <1>7 DEF Partida

\* Child i reads a move, its client's or its old buffer's, and marks it.
LEMMA PassoMarca ==
  ASSUME TypeOK, AntesDoFork, Inteira, Partida,
         NEW i \in Jogador, Le(i) \/ LeFim(i)
  PROVE  Partida' /\ (Jogo!Next \/ UNCHANGED <<Tabuleiro, Vez>>)
<1> USE DEF jogo
<1> DEFINE o == Outro(i)
<1>0. /\ o \in Jogador /\ o # i /\ Outro(o) = i /\ \A j \in Jogador : j = i \/ j = o
      /\ Sinal(i) \in {"X", "O"}
  BY Dois
<1>1. PICK m \in Casas :
        /\ Marca(i, m) /\ msgPlayer' = [msgPlayer EXCEPT ![i] = m]
        /\ pc[i] = "le" /\ UNCHANGED <<pai, contador, win, cano, conexao>>
  <2>1. CASE Le(i)
    BY <2>1 DEF Le
  <2>2. CASE LeFim(i)
    <3>1. msgPlayer[i] \in Casas
      BY <2>2, Dois DEF LeFim, Partida, Processos
    <3>2. msgPlayer' = [msgPlayer EXCEPT ![i] = msgPlayer[i]]
      BY <2>2 DEF LeFim, TypeOK
    <3> QED
      BY <2>2, <3>1, <3>2 DEF LeFim
  <2> QED
    BY <2>1, <2>2
<1>2. SuaVez(i) /\ EmDia(i) /\ EmDia(o)
  BY <1>0, <1>1, Momento DEF Partida
<1>3. /\ msgPlayer'[i] = m /\ msgPlayer'[o] = msgPlayer[o]
      /\ pc'[o] = pc[o] /\ velha'[o] = velha[o] /\ velha[i] = velha[o]
      /\ pc'[i] = IF velha[i][m] = VAZIA THEN "manda" ELSE "pede"
      /\ velha'[i] = IF velha[i][m] = VAZIA THEN [velha[i] EXCEPT ![m] = Sinal(i)] ELSE velha[i]
      /\ velha[i] \in Quadro
  BY <1>0, <1>1, <1>2, Dois DEF Marca, marca_velha, TypeOK, SuaVez, Quadro
<1> HIDE DEF o
<1>4. EmDia(o)'
  BY <1>0, <1>1, <1>2, <1>3, EmDiaDepois
<1>5. EmDia(i)'
  <2>1. CASE velha[i][m] = VAZIA
    <3>1. Cardinality(Cheias(velha'[i])) = Cardinality(Cheias(velha[i])) + 1
      BY <1>0, <1>3, <2>1, UmaMarca
    <3>2. Cardinality(Cheias(velha[i])) = contador[i] /\ win[i] = INDEFINIDO
      BY <1>1, <1>2 DEF EmDia
    <3> QED
      BY <1>1, <1>3, <2>1, <3>1, <3>2 DEF EmDia
  <2>2. CASE velha[i][m] # VAZIA
    BY <1>1, <1>2, <1>3, <2>2 DEF EmDia
  <2> QED
    BY <2>1, <2>2
<1>6. Espera(o)' /\ SemRecado'
  BY <1>0, <1>1, <1>2, <1>3 DEF SuaVez, Espera, SemRecado, o
<1>7. Fase'
  <2>1. CASE velha[i][m] = VAZIA
    <3>1. Marcou(i)'
      BY <1>0, <1>1, <1>2, <1>3, <1>6, <2>1 DEF Marcou, UmAMais, SuaVez, o
    <3> QED
      BY <1>0, <3>1 DEF Fase
  <2>2. CASE velha[i][m] # VAZIA
    <3>1. velha'[1] = velha'[2] /\ VezDe(velha'[i]) = Sinal(i)
      BY <1>0, <1>2, <1>3, <2>2, Dois DEF SuaVez
    <3>2. SuaVez(i)'
      BY <1>0, <1>3, <1>6, <2>2, <3>1 DEF SuaVez, o
    <3> QED
      BY <1>0, <3>2 DEF Fase
  <2> QED
    BY <2>1, <2>2
<1>8. Processos'
  BY <1>1, <1>3, ProcessosDepois DEF o
<1>9. Jogo!Next \/ UNCHANGED <<Tabuleiro, Vez>>
  <2>1. Tabuleiro = velha[i] /\ Vez = Sinal(i)
    <3>1. Uniao(velha[1], velha[2]) = velha[i] /\ VezDe(velha[i]) = Sinal(i)
      BY <1>2, <1>3, Dois, Juntos DEF SuaVez
    <3> QED
      BY <3>1 DEF Tabuleiro, Uniao, Vez
  <2>2. CASE velha[i][m] = VAZIA
    <3> DEFINE d == velha'[i]
    <3>1. d = [velha[i] EXCEPT ![m] = Sinal(i)] /\ velha'[o] = velha[i]
      BY <1>3, <2>2
    <3> HIDE DEF d
    <3>2. /\ Uniao(velha[i], d) = d /\ Uniao(d, velha[i]) = d
          /\ VezDe(d) # VezDe(velha[i]) /\ VezDe(d) \in {"X", "O"}
      BY <1>0, <1>3, <2>2, <3>1, UmTabuleiro, UmaMarca
    <3>3. Uniao(velha'[1], velha'[2]) = d
      <4>1. (i = 1 /\ o = 2) \/ (i = 2 /\ o = 1)
        BY Dois DEF o
      <4> QED
        BY <3>1, <3>2, <4>1 DEF d
    <3>4. Tabuleiro' = d /\ Vez' = VezDe(d)
      BY <3>3 DEF Tabuleiro, Uniao, Vez
    <3>5. VereditoDe(velha[i]) = INDEFINIDO
      BY <1>2, <1>3 DEF SuaVez, Espera, o
    <3> QED
      BY <1>0, <1>3, <2>1, <2>2, <3>1, <3>2, <3>4, <3>5, UmaJogada DEF Vez
  <2>3. CASE velha[i][m] # VAZIA
    <3>1. velha' = velha
      BY <1>0, <1>1, <2>3 DEF Marca, marca_velha, TypeOK
    <3> QED
      BY <3>1 DEF Tabuleiro, Vez
  <2> QED
    BY <2>2, <2>3
<1> QED
  BY <1>0, <1>4, <1>5, <1>7, <1>8, <1>9 DEF Partida

\* Child i puts its move in the pipe.
LEMMA PassoManda ==
  ASSUME TypeOK, AntesDoFork, Inteira, Partida, Inteira', NEW i \in Jogador, Manda(i)
  PROVE  Partida'
<1> USE DEF jogo
<1> DEFINE o == Outro(i)
<1>0. /\ o \in Jogador /\ o # i /\ Outro(o) = i /\ \A j \in Jogador : j = i \/ j = o
  BY Dois
<1>1. pc[i] = "manda" /\ Marcou(i) /\ EmDia(i) /\ EmDia(o)
  BY <1>0, Momento DEF Manda, Partida
<1>2. UNCHANGED <<pai, velha, contador, msgPlayer, win, conexao>>
  BY DEF Manda
<1>3. cano' = [cano EXCEPT ![i] = Append(@, msgPlayer[i])] /\ pc' = [pc EXCEPT ![i] = "verifica"]
  <2>1. win[i] = INDEFINIDO
    BY <1>1 DEF EmDia
  <2>2. pc' # [pc EXCEPT ![i] = "fim"]
    BY <1>2, <2>1 DEF Inteira, TypeOK
  <2> QED
    BY <2>2 DEF Manda
<1>4. /\ pc'[i] = "verifica" /\ pc'[o] = pc[o] /\ cano'[o] = <<>> /\ cano'[i] = <<msgPlayer[i]>>
      /\ msgPlayer[i] \in Casas
  <2>1. cano[i] = <<>> /\ cano[o] = <<>> /\ msgPlayer[i] \in Casas
    BY <1>0, <1>1 DEF Marcou, SemRecado
  <2>2. Append(<<>>, msgPlayer[i]) = <<msgPlayer[i]>>
    OBVIOUS
  <2> QED
    BY <1>0, <1>3, <2>1, <2>2 DEF TypeOK
<1> HIDE DEF o
<1>5. EmDia(o)' /\ EmDia(i)'
  <2>1. EmDia(o)'
    BY <1>0, <1>1, <1>2, <1>4, EmDiaDepois
  <2>2. EmDia(i)'
    BY <1>1, <1>2, <1>4 DEF EmDia
  <2> QED
    BY <2>1, <2>2
<1>6. Fase'
  <2>1. Espera(o)'
    BY <1>0, <1>1, <1>2, <1>4 DEF Marcou, Espera, o
  <2>2. UmAMais(i, msgPlayer[i])'
    BY <1>0, <1>1, <1>2 DEF Marcou, UmAMais
  <2>3. (\E m \in Casas : cano[i] = <<m>> /\ UmAMais(i, m))'
    BY <1>0, <1>1, <1>2, <1>4 DEF Marcou, UmAMais
  <2>4. Mandou(i)'
    BY <1>0, <1>4, <2>1, <2>3 DEF Mandou, o
  <2> QED
    BY <1>0, <2>4 DEF Fase
<1>7. Processos'
  BY <1>1, <1>2, <1>4, ProcessosDepois DEF o
<1> QED
  BY <1>0, <1>5, <1>6, <1>7 DEF Partida

\* Child i reads the other player's move, marks and tests it.
LEMMA PassoEscuta ==
  ASSUME TypeOK, AntesDoFork, Inteira, Partida, NEW i \in Jogador, Escuta(i)
  PROVE  Partida' /\ UNCHANGED <<Tabuleiro, Vez>>
<1> USE DEF jogo
<1> DEFINE o == Outro(i)
           v == VereditoDe(velha[o])
<1>0. /\ o \in Jogador /\ o # i /\ Outro(o) = i /\ \A j \in Jogador : j = i \/ j = o
      /\ Sinal(o) \in {"X", "O"}
  BY Dois
<1>1. pc[i] = "escuta" /\ cano[o] # <<>> /\ Mandou(o) /\ EmDia(i) /\ EmDia(o) /\ Espera(i)
  <2>1. Mandou(o)
    BY Momento DEF Escuta
  <2> QED
    BY <1>0, <2>1 DEF Escuta, Partida, Mandou
<1>2. PICK m \in Casas : cano[o] = <<m>> /\ UmAMais(o, m)
  BY <1>1 DEF Mandou
<1>3. /\ velha[i] \in Quadro /\ velha[i][m] = VAZIA /\ velha[o] = [velha[i] EXCEPT ![m] = Sinal(o)]
      /\ VezDe(velha[i]) = Sinal(o) /\ cano[i] = <<>>
  BY <1>0, <1>1, <1>2 DEF UmAMais, TypeOK, Quadro, Mandou
<1>4. /\ velha[o] \in Quadro
      /\ Cardinality(Cheias(velha[o])) = Cardinality(Cheias(velha[i])) + 1
      /\ VezDe(velha[o]) # Sinal(o) /\ VezDe(velha[o]) \in {"X", "O"}
  BY <1>0, <1>3, UmaMarca
<1>5. Cardinality(Cheias(velha[i])) = contador[i]
  BY <1>1 DEF EmDia
<1>6. /\ velha' = [velha EXCEPT ![i] = velha[o]]
      /\ msgPlayer' = [msgPlayer EXCEPT ![i] = m]
      /\ Verifica(i, velha[o], "pede")
      /\ cano' = [cano EXCEPT ![o] = <<>>]
      /\ UNCHANGED <<pai, conexao, conversa>>
  <2>1. Head(cano[o]) = m
    BY <1>2
  <2>2. marca_velha(velha[i], m, Sinal(o)) = velha[o]
    BY <1>3 DEF marca_velha
  <2>3. Anota(i, m)
    BY <2>1 DEF Escuta
  <2>4. /\ velha' = [velha EXCEPT ![i] = velha[o]]
        /\ msgPlayer' = [msgPlayer EXCEPT ![i] = m]
        /\ Verifica(i, velha[o], "pede")
    BY <2>2, <2>3 DEF Anota
  <2> QED
    BY <2>4 DEF Escuta
<1>7. /\ contador' = [contador EXCEPT ![i] = @ + 1]
      /\ win' = [win EXCEPT ![i] = v]
      /\ pc' = [pc EXCEPT ![i] = IF v = INDEFINIDO THEN "pede" ELSE "veredito"]
  BY <1>4, <1>5, <1>6 DEF Verifica, VereditoDe
<1>8. VereditoDe(velha'[i]) = v /\ VereditoDe(velha'[o]) = v
  BY <1>0, <1>6 DEF TypeOK
<1> HIDE DEF v
<1>9. /\ contador'[i] = contador[i] + 1 /\ win'[i] = v /\ velha'[i] = velha[o]
      /\ v = INDEFINIDO => pc'[i] = "pede"
      /\ v # INDEFINIDO => pc'[i] = "veredito"
      /\ msgPlayer'[i] = m /\ cano'[o] = <<>> /\ cano'[i] = <<>>
      /\ pc'[o] = pc[o] /\ contador'[o] = contador[o] /\ velha'[o] = velha[o]
      /\ win'[o] = win[o] /\ msgPlayer'[o] = msgPlayer[o]
  BY <1>0, <1>3, <1>6, <1>7 DEF TypeOK
<1> HIDE DEF o
<1>10. EmDia(o)' /\ EmDia(i)'
  <2>1. EmDia(o)'
    BY <1>0, <1>1, <1>9, EmDiaDepois
  <2>2. EmDia(i)'
    <3>1. Cardinality(Cheias(velha'[i])) = contador'[i]
      BY <1>4, <1>5, <1>9
    <3> QED
      BY <1>8, <1>9, <3>1 DEF EmDia
  <2> QED
    BY <2>1, <2>2
<1>11. velha'[1] = velha'[2] /\ SemRecado'
  BY <1>0, <1>9, Dois DEF SemRecado
<1>12. pc[o] \in {"verifica", "aguarda", "escuta", "veredito", "fim"}
  BY <1>1 DEF Mandou
<1>13. pc[o] # "verifica" => (v # INDEFINIDO <=> pc[o] \in {"veredito", "fim"})
  BY <1>1, <1>12 DEF EmDia, v
<1>14. Fase'
  <2>1. CASE v = INDEFINIDO
    <3>1. Espera(o)'
      BY <1>8, <1>9, <1>12, <1>13, <2>1 DEF Espera
    <3>2. VezDe(velha'[i]) = Sinal(i)
      BY <1>0, <1>4, <1>9, Dois
    <3>3. SuaVez(i)'
      BY <1>9, <1>11, <2>1, <3>1, <3>2 DEF SuaVez, o
    <3> QED
      BY <3>3 DEF Fase
  <2>2. CASE v # INDEFINIDO
    <3>1. pc'[i] = "veredito" /\ pc'[o] \in {"verifica", "veredito", "fim"}
      BY <1>9, <1>12, <1>13, <2>2
    <3>2. AcabouParaOCodigo(velha'[1])
      BY <1>0, <1>8, <2>2, Dois DEF AcabouParaOCodigo
    <3>3. FimDeJogo'
      BY <1>0, <1>11, <3>1, <3>2 DEF FimDeJogo, AcabouParaOCodigo
    <3> QED
      BY <3>3 DEF Fase
  <2> QED
    BY <2>1, <2>2
<1>15. Processos'
  <2>1. pc'[i] # "nao" /\ pc[i] \notin {"nao", "fim"}
    BY <1>1, <1>9
  <2> QED
    BY <1>6, <1>9, <2>1, ProcessosDepois DEF o
<1>16. UNCHANGED <<Tabuleiro, Vez>>
  <2>1. (i = 1 /\ o = 2) \/ (i = 2 /\ o = 1)
    BY Dois DEF o
  <2>2. Uniao(velha[1], velha[2]) = velha[o]
    BY <1>0, <1>3, <2>1, UmTabuleiro
  <2>3. Uniao(velha'[1], velha'[2]) = velha[o]
    BY <1>4, <1>9, <2>1, Juntos
  <2> QED
    BY <2>2, <2>3 DEF Tabuleiro, Uniao, Vez
<1> QED
  BY <1>0, <1>10, <1>14, <1>15, <1>16 DEF Partida

\* A read at the end of the file: then the other child died with no verdict.
LEMMA SemFim == ASSUME TypeOK, Inteira, Partida, NEW i \in Jogador, EscutaFim(i)
                PROVE  FALSE
<1> DEFINE o == Outro(i)
<1>0. /\ o \in Jogador /\ o # i /\ Outro(o) = i /\ \A j \in Jogador : j = i \/ j = o
  BY Dois
<1>1. pc[i] = "escuta" /\ cano[o] = <<>> /\ ~Vivo(o) /\ pai = "fim"
  BY DEF EscutaFim, HaPar
<1>2. pc[o] = "fim"
  <2>1. pc[1] # "nao" /\ pc[2] # "nao"
    BY <1>1 DEF Partida, Processos
  <2> QED
    BY <1>0, <1>1, <2>1, Dois DEF Vivo
<1>3. SuaVez(o) \/ Marcou(o) \/ Mandou(o) \/ Mandou(i)
  BY <1>1, Momento
<1>4. Mandou(o) \/ Mandou(i)
  BY <1>0, <1>2, <1>3 DEF SuaVez, Marcou
<1>5. ~Mandou(o)
  BY <1>1 DEF Mandou
<1>6. ~Mandou(i)
  BY <1>2 DEF Mandou, Espera
<1> QED
  BY <1>4, <1>5, <1>6

-----------------------------------------------------------------------------
(* The inductive invariant *)

\* While there is a game, it stays in its phases and plays by the rules.
LEMMA PassoPartida ==
  ASSUME TypeOK, AntesDoFork, Inteira, Partida, Inteira', [Next]_vars
  PROVE  Partida' /\ (Jogo!Next \/ UNCHANGED <<Tabuleiro, Vez>>)
<1> USE DEF jogo
<1>1. ASSUME UNCHANGED velha
      PROVE  UNCHANGED <<Tabuleiro, Vez>>
  BY <1>1 DEF Tabuleiro, Vez
<1>2. CASE \/ AceitaFalha \/ Waitpid \/ UNCHANGED vars
           \/ \E i \in Jogador : \/ FimDeConexao(i) \/ Abandona(i) \/ Reset(i)
                                 \/ \E c \in Casas : Responde(i, c)
  <2>1. Partida'
    BY <1>2, PassoQuieto
  <2>2. UNCHANGED velha
    BY <1>2 DEF AceitaFalha, Waitpid, vars, FimDeConexao, Abandona, Reset, Responde
  <2> QED
    BY <1>1, <2>1, <2>2
<1>3. ASSUME NEW i \in Jogador, Aceita(i)
      PROVE  Partida' /\ UNCHANGED <<Tabuleiro, Vez>>
  BY <1>1, <1>3, PassoAceita DEF Aceita
<1>4. ASSUME NEW i \in Jogador, Filho(i)
      PROVE  Partida' /\ (Jogo!Next \/ UNCHANGED <<Tabuleiro, Vez>>)
  <2>1. CASE Pede(i) \/ Aguarda(i) \/ Veredito(i)
    <3>1. Partida'
      BY <2>1, PassoEnvia
    <3> QED
      BY <1>1, <2>1, <3>1 DEF Pede, Aguarda, Veredito
  <2>2. CASE Le(i) \/ LeFim(i)
    BY <2>2, PassoMarca
  <2>3. CASE Manda(i)
    <3>1. Partida'
      BY <2>3, PassoManda
    <3> QED
      BY <1>1, <2>3, <3>1 DEF Manda
  <2>4. CASE VerificaMinha(i)
    <3>1. Partida'
      BY <2>4, PassoVerifica
    <3> QED
      BY <1>1, <2>4, <3>1 DEF VerificaMinha
  <2>5. CASE Escuta(i)
    BY <2>5, PassoEscuta
  <2>6. CASE EscutaFim(i)
    BY <2>6, SemFim
  <2> QED
    BY <1>4, <2>1, <2>2, <2>3, <2>4, <2>5, <2>6 DEF Filho
<1> QED
  BY <1>2, <1>3, <1>4 DEF Next

LEMMA PassoIInv == IInv /\ [Next]_vars => IInv'
<1> SUFFICES ASSUME IInv, [Next]_vars PROVE IInv'
  OBVIOUS
<1>1. TypeOK /\ AntesDoFork /\ (Inteira => Partida)
  BY DEF IInv
<1>2. TypeOK'
  BY <1>1, TipoPasso
<1>3. AntesDoFork' /\ (Inteira' => Inteira)
  BY <1>1, PassoAntes
<1>4. Inteira' => Partida'
  BY <1>1, <1>3, PassoPartida
<1> QED
  BY <1>2, <1>3, <1>4 DEF IInv

\* The inductive invariant: as long as no child has died without a verdict, the
\* game is in one of four phases, whichever client goes away and whatever the
\* users play (server.c:141-202).
THEOREM Indutivo == Spec => []IInv
<1>1. Init => IInv
  BY InitIInv
<1>2. IInv /\ [Next]_vars => IInv'
  BY PassoIInv
<1> QED
  BY <1>1, <1>2, PTL DEF Spec

\* Every variable has its type, in broken games too.
THEOREM TypeCorrect == Spec => []TypeOK
<1>1. IInv => TypeOK
  BY DEF IInv
<1> QED
  BY <1>1, Indutivo, PTL

LEMMA SoUm ==
  ASSUME Partida
  PROVE  \/ velha[1] = velha[2] /\ \A j \in Jogador : Pendente(j) = {}
         \/ \E i \in Jogador, m \in Casas : /\ Pendente(i) = {m} /\ Pendente(Outro(i)) = {}
                                           /\ UmAMais(i, m)
<1>1. ASSUME NEW j \in Jogador, pc[j] # "manda", cano[j] = <<>>
      PROVE  Pendente(j) = {}
  BY <1>1 DEF Pendente
<1>2. CASE FimDeJogo \/ \E i \in Jogador : SuaVez(i)
  BY <1>1, <1>2, Dois DEF FimDeJogo, SuaVez, SemRecado, Espera
<1>3. ASSUME NEW i \in Jogador, Marcou(i)
      PROVE  \E m \in Casas : /\ Pendente(i) = {m} /\ Pendente(Outro(i)) = {} /\ UmAMais(i, m)
  <2>1. Pendente(i) = {msgPlayer[i]}
    BY <1>3 DEF Marcou, Pendente
  <2>2. Pendente(Outro(i)) = {}
    BY <1>1, <1>3, Dois DEF Marcou, SemRecado, Espera
  <2> QED
    BY <1>3, <2>1, <2>2 DEF Marcou
<1>4. ASSUME NEW i \in Jogador, Mandou(i)
      PROVE  \E m \in Casas : /\ Pendente(i) = {m} /\ Pendente(Outro(i)) = {} /\ UmAMais(i, m)
  <2>1. PICK m \in Casas : cano[i] = <<m>> /\ UmAMais(i, m)
    BY <1>4 DEF Mandou
  <2>2. DOMAIN <<m>> = {1} /\ <<m>>[1] = m
    OBVIOUS
  <2>3. Pendente(i) = {m}
    BY <1>4, <2>1, <2>2 DEF Mandou, Pendente
  <2>4. Pendente(Outro(i)) = {}
    BY <1>1, <1>4, Dois DEF Mandou, Espera
  <2> QED
    BY <2>1, <2>3, <2>4
<1> QED
  BY <1>2, <1>3, <1>4 DEF Partida, Fase

\* The boards of the two processes differ by one move on its way at most, which
\* is marked at its sender and blank at its receiver (server.c:154-199).
THEOREM AcordoSempre == Spec => []Acordo
<1>1. IInv => Acordo
  <2> SUFFICES ASSUME IInv, Inteira
               PROVE  /\ Cardinality(Pendente(1)) + Cardinality(Pendente(2)) <= 1
                      /\ \A c \in Casas :
                           \/ velha[1][c] = velha[2][c]
                           \/ \E i \in Jogador : /\ c \in Pendente(i)
                                                 /\ velha[i][c] = Sinal(i)
                                                 /\ velha[Outro(i)][c] = VAZIA
    BY DEF Acordo
  <2>1. Partida /\ TypeOK
    BY DEF IInv
  <2>2. Cardinality({}) = 0 /\ \A m : Cardinality({m}) = 1
    BY FS_EmptySet, FS_Singleton
  <2>3. CASE velha[1] = velha[2] /\ \A j \in Jogador : Pendente(j) = {}
    BY <2>2, <2>3, Dois
  <2>4. ASSUME NEW i \in Jogador, NEW m \in Casas,
               Pendente(i) = {m}, Pendente(Outro(i)) = {}, UmAMais(i, m)
        PROVE  /\ Cardinality(Pendente(1)) + Cardinality(Pendente(2)) <= 1
               /\ \A c \in Casas :
                    \/ velha[1][c] = velha[2][c]
                    \/ \E k \in Jogador : /\ c \in Pendente(k)
                                          /\ velha[k][c] = Sinal(k)
                                          /\ velha[Outro(k)][c] = VAZIA
    <3>1. (i = 1 /\ Outro(i) = 2) \/ (i = 2 /\ Outro(i) = 1)
      BY Dois
    <3>2. Cardinality(Pendente(1)) + Cardinality(Pendente(2)) <= 1
      <4>1. Cardinality(Pendente(i)) = 1 /\ Cardinality(Pendente(Outro(i))) = 0
        BY <2>2, <2>4
      <4> QED
        BY <3>1, <4>1
    <3>3. /\ velha[Outro(i)][m] = VAZIA /\ velha[i][m] = Sinal(i)
          /\ \A c \in Casas : c # m => velha[i][c] = velha[Outro(i)][c]
      BY <2>1, <2>4, Dois DEF UmAMais, TypeOK
    <3> QED
      BY <2>4, <3>1, <3>2, <3>3
  <2> QED
    BY <2>1, <2>3, <2>4, SoUm
<1> QED
  BY <1>1, Indutivo, PTL

\* The two clients are told the same verdict; a winner has three in line, and a
\* draw comes only on a full board without a line (server.c:205-227).
THEOREM VereditoCertoSempre == Spec => []VereditoCerto
<1>1. IInv => VereditoCerto
  <2> SUFFICES ASSUME IInv, NEW i \in Jogador, Inteira, pc[i] = "veredito"
               PROVE  /\ win[Outro(i)] \in {win[i], INDEFINIDO}
                      /\ win[i] \in {"X", "O"} => TemLinha(velha[i], win[i])
                      /\ win[i] = EMPATE => /\ Cheias(velha[i]) = Casas
                                            /\ \A s \in {"X", "O"} : ~TemLinha(velha[i], s)
    BY DEF VereditoCerto
  <2>1. Partida /\ velha[i] \in Quadro /\ EmDia(i) /\ EmDia(Outro(i))
    BY Dois DEF IInv, TypeOK, Quadro, Partida
  <2>2. win[i] = VereditoDe(velha[i])
    BY <2>1 DEF EmDia
  <2>3. /\ win[i] \in {"X", "O"} => TemLinha(velha[i], win[i])
        /\ win[i] = EMPATE => /\ Cheias(velha[i]) = Casas
                              /\ \A s \in {"X", "O"} : ~TemLinha(velha[i], s)
    BY <2>1, <2>2, Sentenca
  <2>4. Mandou(i) \/ FimDeJogo
    BY <2>1, Momento
  <2>5. win[Outro(i)] \in {win[i], INDEFINIDO}
    <3>1. win[Outro(i)] \in {VereditoDe(velha[Outro(i)]), INDEFINIDO}
      BY <2>1, Zenon DEF EmDia
    <3>2. VereditoDe(velha[Outro(i)]) \in {VereditoDe(velha[i]), INDEFINIDO}
      BY <2>4, Dois DEF Mandou, Espera, FimDeJogo
    <3> QED
      BY <2>2, <3>1, <3>2
  <2> QED
    BY <2>3, <2>5
<1> QED
  BY <1>1, Indutivo, PTL

\* While the game is whole no counter passes nine, and a pipe holds one move at
\* most, so that a read of 200 bytes never takes two for one (server.c:165, 178).
THEOREM LimitesSempre == Spec => [](Inteira => Limites)
<1>1. IInv => (Inteira => Limites)
  <2> SUFFICES ASSUME IInv, Inteira, NEW i \in Jogador
               PROVE  contador[i] <= 9 /\ Len(cano[i]) <= 1
    BY DEF Limites
  <2>1. Partida /\ velha[i] \in Quadro /\ contador[i] \in Nat /\ EmDia(i)
    BY DEF IInv, TypeOK, Quadro, Partida
  <2>2. contador[i] <= 9
    <3>1. Cardinality(Cheias(velha[i])) \in {contador[i], contador[i] + 1}
      BY <2>1, Zenon DEF EmDia
    <3> QED
      BY <2>1, <3>1, Contagem
  <2>3. cano[i] = <<>> \/ \E m : cano[i] = <<m>>
    BY <2>1, Dois DEF Partida, Fase, FimDeJogo, SuaVez, Marcou, Mandou, SemRecado
  <2>4. Len(cano[i]) <= 1
    <3>1. CASE cano[i] = <<>>
      BY <3>1
    <3>2. CASE \E m : cano[i] = <<m>>
      <4>1. PICK m : cano[i] = <<m>>
        BY <3>2
      <4>2. Len(<<m>>) = 1
        OBVIOUS
      <4> QED
        BY <4>1, <4>2
    <3> QED
      BY <2>3, <3>1, <3>2
  <2> QED
    BY <2>2, <2>4
<1> QED
  BY <1>1, Indutivo, PTL

\* Two processes with a board each play one game of noughts and crosses: turns
\* alternate, a cell is marked once, and nobody plays after verifica_ganhador
\* has decided (server.c:141-202).
THEOREM UmJogoSempre == Spec => UmJogoSo
<1>1. Init => Jogo!Init
  <2> SUFFICES ASSUME Init PROVE Jogo!Init
    OBVIOUS
  <2>1. velha[1] = [c \in Casas |-> VAZIA] /\ velha[2] = velha[1]
    BY Dois DEF Init
  <2>2. Tabuleiro = [c \in Casas |-> VAZIA]
    BY <2>1 DEF Tabuleiro
  <2> DEFINE b == [c \in Casas |-> VAZIA]
  <2>3. VezDe(b) = "X"
    <3>1. b \in Quadro /\ \A c \in Casas : b[c] = VAZIA
      BY DEF Quadro
    <3> HIDE DEF b
    <3> QED
      BY <3>1, EmBranco
  <2> QED
    BY <2>2, <2>3 DEF Vez, Jogo!Init, Jogo!Casas, Jogo!VAZIA, Casas, VAZIA
<1>2. IInv /\ [Next]_vars => [Inteira' => Jogo!Next]_<<Tabuleiro, Vez>>
  <2> SUFFICES ASSUME IInv, [Next]_vars, Inteira'
               PROVE  Jogo!Next \/ UNCHANGED <<Tabuleiro, Vez>>
    OBVIOUS
  <2>1. TypeOK /\ AntesDoFork /\ (Inteira => Partida)
    BY DEF IInv
  <2>2. Inteira
    BY <2>1, PassoAntes
  <2> QED
    BY <2>1, <2>2, PassoPartida
<1> QED
  BY <1>1, <1>2, Indutivo, PTL DEF Spec, UmJogoSo
=============================================================================
