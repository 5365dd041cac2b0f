-------------------------- MODULE TransferenciaProofs --------------------------
(***************************************************************************)
(* Proofs about Transferencia for every set of processes, paths and files, *)
(* every size of memory, line, page, block and transfer, and any use of    *)
(* the console of MDJ: the types, how the memory of FM9 is shared, and     *)
(* what is read back of a file, when a request does not exceed a block.    *)
(***************************************************************************)
EXTENDS Transferencia, Lemas, SequenceTheorems

-----------------------------------------------------------------------------
(* The recursive functions: that they are defined, and of which type *)

(* What separar_en_lineas has done of a text: lines, and one not ended yet *)
Corte == [hechas : Seq(Seq(Bytes)), actual : Seq(Bytes)]

Cortar(r, c) ==
    IF c # FinDeLinea THEN [r EXCEPT !.actual = Append(@, c)]
    ELSE IF r.actual = <<>> THEN r
    ELSE [hechas |-> Append(r.hechas, r.actual), actual |-> <<>>]

Cortes(b) ==
    CHOOSE g : g = [k \in 0 .. Len(b) |->
                       IF k = 0 THEN [hechas |-> <<>>, actual |-> <<>>]
                       ELSE Cortar(g[k - 1], b[k])]

LEMMA CortarOK ==
    ASSUME NEW r \in Corte, NEW c \in Bytes
    PROVE  Cortar(r, c) \in Corte
<1>1. Append(r.actual, c) \in Seq(Bytes) /\ Append(r.hechas, r.actual) \in Seq(Seq(Bytes))
  BY DEF Corte
<1>2. /\ [r EXCEPT !.actual = Append(r.actual, c)] \in Corte
      /\ [hechas |-> Append(r.hechas, r.actual), actual |-> <<>>] \in Corte
  BY <1>1 DEF Corte
<1> QED
  BY <1>1, <1>2 DEF Cortar

(* The text is cut up to any of its bytes. *)
LEMMA CortesOK ==
    ASSUME NEW b \in Seq(Bytes)
    PROVE  /\ Cortes(b)[0] = [hechas |-> <<>>, actual |-> <<>>]
           /\ \A k \in 1 .. Len(b) : Cortes(b)[k] = Cortar(Cortes(b)[k - 1], b[k])
           /\ Cortes(b)[Len(b)] \in Corte
<1> DEFINE n == Len(b)
           a == [hechas |-> <<>>, actual |-> <<>>]
           F == [k \in 1 .. n |-> [r \in Corte |-> Cortar(r, b[k])]]
           g == Cortes(b)
<1>1. n \in Nat /\ a \in Corte /\ \A k \in 1 .. n : b[k] \in Bytes
  BY DEF Corte
<1>2. F \in [1 .. n -> [Corte -> Corte]]
  BY <1>1, CortarOK
<1>3. PICK f : Recursiva(f, n, Corte, a, F)
  <2>1. n \in Nat
    BY <1>1
  <2>2. a \in Corte
    BY <1>1
  <2> HIDE DEF n, a, F
  <2> QED  BY <1>2, <2>1, <2>2, RecursionHasta
<1>4. ASSUME NEW k \in 1 .. n
      PROVE  f[k] = Cortar(f[k - 1], b[k])
  <2>1. f[k] = F[k][f[k - 1]] /\ f[k - 1] \in Corte
    BY <1>1, <1>3 DEF Recursiva
  <2>3. \A r \in Corte : F[k][r] = Cortar(r, b[k])
    OBVIOUS
  <2> QED
    BY <2>1, <2>3
<1>5. f = [k \in 0 .. n |-> IF k = 0 THEN a ELSE Cortar(f[k - 1], b[k])]
  BY <1>1, <1>3, <1>4 DEF Recursiva
<1>6. g = [k \in 0 .. n |-> IF k = 0 THEN a ELSE Cortar(g[k - 1], b[k])]
  BY <1>5 DEF Cortes
<1> HIDE DEF g
<1>7. /\ g[0] = a /\ \A k \in 1 .. n : g[k] = Cortar(g[k - 1], b[k])
  BY <1>1, <1>6
<1> DEFINE M == {k \in 0 .. n : g[k] \in Corte}
<1>8. 0 \in M /\ \A k \in 0 .. n - 1 : k \in M => k + 1 \in M
  BY <1>1, <1>7, CortarOK
<1>9. 0 .. n \subseteq M
  <2> HIDE DEF M, n
  <2> QED  BY <1>1, <1>8, InduccionHasta
<1> QED
  BY <1>1, <1>7, <1>9 DEF g

(* separar_en_lineas gives lines. *)
LEMMA LineasOK ==
    ASSUME NEW b \in Seq(Bytes)
    PROVE  Lineas(b) \in Seq(Seq(Bytes))
<1>1. Lineas(b) = Cortar(Cortes(b)[Len(b)], FinDeLinea).hechas
  BY DEF Lineas, Cortes, Cortar
<1>2. Cortar(Cortes(b)[Len(b)], FinDeLinea) \in Corte
  BY CortesOK, CortarOK, SegmentacionAssumption
<1> QED
  BY <1>1, <1>2 DEF Corte

(* The offsets of a read, after one more block *)
Agregar(r, i, o, s) ==
    LET cuantos == IF i = (o + s) \div TamanioBloques /\ i # 0 THEN s - Len(r)
                   ELSE Menor(TamanioBloques - (o % TamanioBloques), s)
        pos == (Len(r) + o) % TamanioBloques
    IN  r \o [k \in 1 .. cuantos |-> i * TamanioBloques + pos + k - 1]

Tras(o, s) ==
    CHOOSE g : g = [i \in o \div TamanioBloques - 1 .. (o + s) \div TamanioBloques |->
                       IF i < o \div TamanioBloques THEN <<>>
                       ELSE Agregar(g[i - 1], i, o, s)]

LEMMA AgregarOK ==
    ASSUME NEW r \in Seq(Nat), NEW i \in Nat, NEW o \in Nat, NEW s \in Nat
    PROVE  Agregar(r, i, o, s) \in Seq(Nat)
<1> DEFINE cuantos == IF i = (o + s) \div TamanioBloques /\ i # 0 THEN s - Len(r)
                      ELSE Menor(TamanioBloques - (o % TamanioBloques), s)
           pos == (Len(r) + o) % TamanioBloques
           base == i * TamanioBloques
<1>0. TamanioBloques \in Nat \ {0} /\ Len(r) \in Nat
  BY TransferenciaAssumption
<1>1. o % TamanioBloques \in Nat /\ pos \in Nat
  BY <1>0, DivisionOK
<1>2. base \in Nat
  BY <1>0
<1>3. cuantos \in Int
  BY <1>0, <1>1 DEF Menor
<1>4. Agregar(r, i, o, s) = r \o [k \in 1 .. cuantos |-> base + pos + k - 1]
  BY DEF Agregar
<1> HIDE DEF cuantos, pos, base
<1>5. [k \in 1 .. cuantos |-> base + pos + k - 1] \in Seq(Nat)
  <2>1. CASE cuantos \in Nat
    <3>1. \A k \in 1 .. cuantos : base + pos + k - 1 \in Nat
      BY <1>1, <1>2, <2>1
    <3> QED
      BY <2>1, <3>1
  <2>2. CASE cuantos < 0
    <3>1. 1 .. cuantos = {}
      BY <1>3, <2>2
    <3> DEFINE q == [k \in 1 .. cuantos |-> base + pos + k - 1]
    <3>2. q = <<>>
      BY <3>1
    <3> HIDE DEF q
    <3>3. q \in Seq(Nat)
      BY <3>2
    <3> QED
      BY <3>3 DEF q
  <2> QED
    BY <1>3, <2>1, <2>2
<1> QED
  BY <1>4, <1>5

(* The loop of obtenerDatos, block after block *)
Primero(o) == o \div TamanioBloques

Ultimo(o, s) == (o + s) \div TamanioBloques

LEMMA TrasOK ==
    ASSUME NEW o \in Nat, NEW s \in Nat
    PROVE  /\ Primero(o) \in Nat /\ Ultimo(o, s) \in Nat /\ Primero(o) <= Ultimo(o, s)
           /\ Posiciones(o, s) = Tras(o, s)[Ultimo(o, s)]
           /\ Tras(o, s)[Primero(o) - 1] = <<>>
           /\ \A i \in Primero(o) .. Ultimo(o, s) :
                 Tras(o, s)[i] = Agregar(Tras(o, s)[i - 1], i, o, s)
<1> DEFINE ini == o \div TamanioBloques
           fin == (o + s) \div TamanioBloques
           n == fin - ini + 1
           F == [k \in 1 .. n |-> [r \in Seq(Nat) |-> Agregar(r, k + ini - 1, o, s)]]
           g == Tras(o, s)
           a == <<>>
<1>1. ini \in Nat /\ fin \in Nat /\ ini <= fin /\ n \in Nat \ {0}
  <2>1. TamanioBloques \in Nat \ {0} /\ o + s \in Nat /\ o <= o + s
    BY TransferenciaAssumption
  <2>2. ini \in Nat /\ fin \in Nat /\ ini <= fin
    BY <2>1, DivisionOK, DivisionMonotona
  <2> HIDE DEF ini, fin
  <2> QED
    BY <2>2
<1>2. Posiciones(o, s) = g[fin]
  BY DEF Posiciones, Tras, Agregar
<1>3. g = CHOOSE h : h = [i \in ini - 1 .. fin |-> IF i < ini THEN <<>>
                                                ELSE Agregar(h[i - 1], i, o, s)]
  BY DEF Tras
<1> HIDE DEF g, ini, fin
<1>4. F \in [1 .. n -> [Seq(Nat) -> Seq(Nat)]]
  <2>1. \A k \in 1 .. n : k + ini - 1 \in Nat
    BY <1>1
  <2> QED
    BY <2>1, AgregarOK
<1>5. PICK f : Recursiva(f, n, Seq(Nat), a, F)
  <2>1. n \in Nat
    BY <1>1
  <2>2. a \in Seq(Nat)
    OBVIOUS
  <2>3. F \in [1 .. n -> [Seq(Nat) -> Seq(Nat)]]
    BY <1>4
  <2> HIDE DEF n, F, a
  <2> QED  BY <2>1, <2>2, <2>3, RecursionHasta
<1>6. ASSUME NEW k \in 1 .. n
      PROVE  f[k] = Agregar(f[k - 1], k + ini - 1, o, s)
  <2>1. f[k] = F[k][f[k - 1]] /\ f[k - 1] \in Seq(Nat)
    <3>1. k - 1 \in 0 .. n
      BY <1>1
    <3> HIDE DEF n, F, a
    <3> QED
      BY <1>5, <3>1 DEF Recursiva
  <2>3. \A r \in Seq(Nat) : F[k][r] = Agregar(r, k + ini - 1, o, s)
    OBVIOUS
  <2> QED
    BY <2>1, <2>3
<1> DEFINE h == [i \in ini - 1 .. fin |-> f[i - ini + 1]]
<1>7. h = [i \in ini - 1 .. fin |-> IF i < ini THEN <<>> ELSE Agregar(h[i - 1], i, o, s)]
  <2> SUFFICES ASSUME NEW i \in ini - 1 .. fin
               PROVE  h[i] = IF i < ini THEN <<>> ELSE Agregar(h[i - 1], i, o, s)
    OBVIOUS
  <2>1. CASE i < ini
    BY <1>1, <1>5, <2>1 DEF Recursiva
  <2>2. CASE i >= ini
    <3>1. i - ini + 1 \in 1 .. n /\ i - 1 \in ini - 1 .. fin
      BY <1>1, <2>2
    <3>2. /\ f[i - ini + 1] = Agregar(f[i - ini], i, o, s)
          /\ h[i - 1] = f[i - ini] /\ h[i] = f[i - ini + 1]
      BY <1>1, <1>6, <3>1
    <3> QED
      BY <1>1, <2>2, <3>2
  <2> QED
    BY <1>1, <2>1, <2>2
<1>8. g = [i \in ini - 1 .. fin |-> IF i < ini THEN <<>> ELSE Agregar(g[i - 1], i, o, s)]
  BY <1>3, <1>7
<1>9. g[ini - 1] = <<>> /\ \A i \in ini .. fin : g[i] = Agregar(g[i - 1], i, o, s)
  BY <1>1, <1>8
<1>10. Primero(o) = ini /\ Ultimo(o, s) = fin /\ Tras(o, s) = g
  BY DEF g, ini, fin, Primero, Ultimo
<1> QED
  BY <1>1, <1>2, <1>9, <1>10

(* The offsets that obtenerDatos reads are natural numbers. *)
LEMMA PosicionesOK ==
    ASSUME NEW o \in Nat, NEW s \in Nat
    PROVE  Posiciones(o, s) \in Seq(Nat)
<1> DEFINE ini == Primero(o)
           fin == Ultimo(o, s)
           n == fin - ini + 1
           g == Tras(o, s)
           a == <<>>
<1>1. ini \in Nat /\ fin \in Nat /\ ini <= fin /\ n \in Nat \ {0}
  <2>1. ini \in Nat /\ fin \in Nat /\ ini <= fin
    BY TrasOK
  <2> HIDE DEF ini, fin
  <2> QED  BY <2>1
<1>2. Posiciones(o, s) = g[fin]
  BY TrasOK
<1>3. g[ini - 1] = <<>> /\ \A i \in ini .. fin : g[i] = Agregar(g[i - 1], i, o, s)
  BY TrasOK
<1> HIDE DEF g, ini, fin
<1> DEFINE M == {k \in 0 .. n : g[k + ini - 1] \in Seq(Nat)}
<1>4. 0 \in M
  <2>1. 0 + ini - 1 = ini - 1 /\ 0 \in 0 .. n
    BY <1>1
  <2>2. g[0 + ini - 1] \in Seq(Nat)
    <3>1. g[ini - 1] = a /\ a \in Seq(Nat)
      BY <1>3
    <3> QED
      BY <2>1, <3>1
  <2> QED
    BY <2>1, <2>2
<1>5. ASSUME NEW k \in 0 .. n - 1, k \in M
       PROVE  k + 1 \in M
  <2>1. /\ k + ini \in ini .. fin /\ k + ini \in Nat
        /\ (k + ini) - 1 = k + ini - 1 /\ k + 1 + ini - 1 = k + ini /\ k + 1 \in 0 .. n
    BY <1>1
  <2>2. g[k + ini] = Agregar(g[k + ini - 1], k + ini, o, s)
    BY <1>3, <2>1
  <2>3. g[k + ini] \in Seq(Nat)
    BY <1>5, <2>1, <2>2, AgregarOK
  <2> QED
    BY <2>1, <2>3
<1>6. 0 .. n \subseteq M
  <2>1. n \in Nat
    BY <1>1
  <2> HIDE DEF M, n
  <2> QED  BY <1>4, <1>5, <2>1, InduccionHasta
<1>7. n \in M /\ n + ini - 1 = fin
  <2>1. n \in 0 .. n /\ n + ini - 1 = fin
    BY <1>1
  <2> HIDE DEF M, n
  <2> QED
    BY <1>6, <2>1
<1> QED
  BY <1>2, <1>7

(* What MDJ answers to the DAM is a result. *)
LEMMA ObtenidosOK ==
    ASSUME archivos \in [Paths -> Seq(Bytes) \cup {NoExiste}],
           NEW p \in Paths, NEW o \in Nat, NEW s \in Int
    PROVE  Obtenidos(p, o, s) \subseteq Resultado
<1>1. Fallo \in Resultado
  BY DEF Fallo, Resultado
<1> DEFINE c == archivos[p]
           pos == Posiciones(o, s)
           leido == [k \in DOMAIN pos |-> IF pos[k] < Len(c) THEN c[pos[k] + 1] ELSE Basura]
           S == {k \in DOMAIN pos : pos[k] < Len(c)}
           ls == {leido, SubSeq(leido, 1, Cardinality(S))}
<1>2. CASE c = NoExiste \/ p \in Ilegibles \/ s <= 0
  BY <1>1, <1>2 DEF Obtenidos
<1>3. CASE ~ (c = NoExiste \/ p \in Ilegibles \/ s <= 0)
  <2>1. s \in Nat /\ c \in Seq(Bytes)
    BY <1>3
  <2>2. pos \in Seq(Nat)
    BY <2>1, PosicionesOK
  <2>3. leido \in Seq(Bytes) /\ Len(leido) = Len(pos)
    <3>1. DOMAIN pos = 1 .. Len(pos) /\ Len(pos) \in Nat
      BY <2>2
    <3>2. ASSUME NEW k \in 1 .. Len(pos)
          PROVE  (IF pos[k] < Len(c) THEN c[pos[k] + 1] ELSE Basura) \in Bytes
      <4>1. pos[k] \in Nat /\ Len(c) \in Nat /\ Basura \in Bytes
        BY <2>1, <2>2, SegmentacionPaginadaAssumption
      <4>2. CASE pos[k] < Len(c)
        <5>1. pos[k] + 1 \in 1 .. Len(c)
          BY <4>1, <4>2
        <5> HIDE DEF c, pos
        <5> QED
          BY <2>1, <4>2, <5>1
      <4> QED
        BY <4>1, <4>2
    <3> HIDE DEF pos, c
    <3> QED
      BY <3>1, <3>2
  <2>4. Cardinality(S) \in 0 .. Len(pos)
    <3>1. DOMAIN pos = 1 .. Len(pos) /\ Len(pos) \in Nat
      BY <2>2
    <3>2. IsFiniteSet(1 .. Len(pos)) /\ Cardinality(1 .. Len(pos)) = Len(pos)
      <4> DEFINE w == Len(pos)
      <4>1. 1 \in Int /\ w \in Int
        BY <3>1
      <4> HIDE DEF w
      <4>2. IsFiniteSet(1 .. w) /\ Cardinality(1 .. w) = IF 1 > w THEN 0 ELSE w - 1 + 1
        BY <4>1, FS_Interval
      <4> QED
        BY <3>1, <4>2 DEF w
    <3>3. S \in SUBSET (1 .. Len(pos))
      BY <3>1
    <3> HIDE DEF S, pos
    <3>4. IsFiniteSet(S) /\ Cardinality(S) <= Len(pos)
      BY <3>2, <3>3, FS_Subset
    <3>5. Cardinality(S) \in Nat
      BY <3>4, FS_CardinalityType
    <3> QED
      BY <3>1, <3>4, <3>5
  <2>5. ls \subseteq Seq(Bytes)
    <3> HIDE DEF leido, S, pos
    <3>1. SubSeq(leido, 1, Cardinality(S)) \in Seq(Bytes)
      BY <2>3, <2>4
    <3> QED
      BY <2>3, <3>1
  <2>6. Obtenidos(p, o, s) \subseteq {Fallo} \cup {[size |-> s, datos |-> l, total |-> 0] : l \in ls}
    BY <1>3 DEF Obtenidos
  <2>7. ASSUME NEW l \in Seq(Bytes)
        PROVE  [size |-> s, datos |-> l, total |-> 0] \in Resultado
    BY <2>1 DEF Resultado
  <2> HIDE DEF ls
  <2> QED
    BY <1>1, <2>5, <2>6, <2>7
<1> QED
  BY <1>2, <1>3

-----------------------------------------------------------------------------
(* FM9 under pure segmentation *)

(* The load of a file, when there is room for its lines *)
LEMMA CopiaOK ==
    ASSUME SegmentacionTypeOK, NEW ls \in Seq(Seq(Bytes))
    PROVE  [l \in DOMAIN memoria |->
               IF l - HuecoElegido.base \in 0 .. Len(ls) - 1
               THEN ls[l - HuecoElegido.base + 1] ELSE memoria[l]]
             \in [0 .. CantidadLineas - 1 -> Seq(Bytes) \cup {Vacio}]
<1> DEFINE n == Len(ls)
           base == HuecoElegido.base
<1>1. n \in Nat /\ memoria \in [0 .. CantidadLineas - 1 -> Seq(Bytes) \cup {Vacio}]
  BY DEF SegmentacionTypeOK
<1>2. ASSUME NEW l \in 0 .. CantidadLineas - 1, l - base \in 0 .. n - 1
      PROVE  ls[l - base + 1] \in Seq(Bytes)
  <2>1. l - base + 1 \in 1 .. n
    BY <1>1, <1>2
  <2> HIDE DEF base
  <2> QED
    BY <2>1
<1> HIDE DEF base, n
<1> QED
  BY <1>1, <1>2 DEF base, n

LEMMA HuecosOK ==
    ASSUME SegmentacionTypeOK, huecos # <<>>, NEW n \in Nat, n <= HuecoElegido.limite
    PROVE  /\ HuecoElegido \in Hueco
           /\ HuecosTras(n) \in Seq(Hueco)
           /\ NuevaBase(n) \in Int
<1>1. huecos \in Seq(Hueco) /\ HuecoElegido = huecos[1] /\ HuecoElegido \in Hueco
  BY DEF SegmentacionTypeOK, HuecoElegido
<1>2. HuecoElegido.base \in Int /\ HuecoElegido.limite \in Nat
  BY <1>1 DEF Hueco
<1> DEFINE h == [base |-> HuecoElegido.base + n, limite |-> HuecoElegido.limite - n]
<1>3. h \in Hueco
  BY <1>2 DEF Hueco
<1>4. HuecosTras(n) = IF n = HuecoElegido.limite THEN Tail(huecos)
                      ELSE [huecos EXCEPT ![1] = h]
  BY <1>1 DEF HuecosTras
<1>5. [huecos EXCEPT ![1] = h] \in Seq(Hueco)
  <2> HIDE DEF h
  <2> QED
    BY <1>1, <1>3
<1>6. Tail(huecos) \in Seq(Hueco)
  BY <1>1
<1>7. NuevaBase(n) \in Int
  BY <1>2 DEF NuevaBase
<1> QED
  BY <1>1, <1>4, <1>5, <1>6, <1>7

LEMMA CargarParteOK ==
    ASSUME FM9TypeOK, NEW d \in Pids, NEW p \in Paths, NEW datos \in Seq(Bytes),
           NEW total, NEW dir, CargarParte(d, p, datos, total, dir)
    PROVE  SegmentacionTypeOK'
<1> DEFINE b == cargandose[d] \o datos
           ls == Lineas(b)
           n == Len(ls)
<1>1. SegmentacionTypeOK
  BY DEF FM9TypeOK
<1>2. cargandose[d] \in Seq(Bytes) /\ b \in Seq(Bytes)
  BY <1>1 DEF SegmentacionTypeOK
<1>3. ls \in Seq(Seq(Bytes)) /\ n \in Nat
  <2>1. ls \in Seq(Seq(Bytes))
    <3> HIDE DEF b
    <3> QED  BY <1>2, LineasOK
  <2> HIDE DEF ls
  <2> QED
    BY <2>1
<1>4. [cargandose EXCEPT ![d] = b] \in [Pids -> Seq(Bytes)]
  <2> HIDE DEF b
  <2> QED
    BY <1>1, <1>2 DEF SegmentacionTypeOK
<1>5. CASE cargandose' = [cargandose EXCEPT ![d] = b] /\ UNCHANGED <<huecos, tablas, memoria>>
  <2> HIDE DEF b
  <2> QED
    BY <1>1, <1>4, <1>5 DEF SegmentacionTypeOK
<1>6. CASE /\ HayLugar(ls)
           /\ memoria' = [l \in DOMAIN memoria |->
                             IF l - HuecoElegido.base \in 0 .. n - 1
                             THEN ls[l - HuecoElegido.base + 1]
                             ELSE memoria[l]]
           /\ huecos' = HuecosTras(n)
           /\ tablas' = [tablas EXCEPT ![d] =
                            Append(@, [base |-> NuevaBase(n), limite |-> n, archivo |-> p])]
           /\ cargandose' = BufferTrasCargar(d, b)
  <2> HIDE DEF ls
  <2>1. memoria' \in [0 .. CantidadLineas - 1 -> Seq(Bytes) \cup {Vacio}]
    BY <1>1, <1>3, <1>6, CopiaOK
  <2> HIDE DEF n, b
  <2>2. huecos # <<>> /\ n <= HuecoElegido.limite
    BY <1>6 DEF HayLugar, n
  <2>3. huecos' \in Seq(Hueco) /\ NuevaBase(n) \in Int
    BY <1>1, <1>3, <1>6, <2>2, HuecosOK
  <2>4. [base |-> NuevaBase(n), limite |-> n, archivo |-> p] \in Segmento
    BY <1>3, <2>3 DEF Segmento
  <2>5. tablas' \in [Pids -> Seq(Segmento)]
    <3>1. tablas \in [Pids -> Seq(Segmento)]
      BY <1>1 DEF SegmentacionTypeOK
    <3>2. Append(tablas[d], [base |-> NuevaBase(n), limite |-> n, archivo |-> p])
            \in Seq(Segmento)
      BY <2>4, <3>1
    <3> QED
      BY <1>6, <3>1, <3>2
  <2>6. cargandose' \in [Pids -> Seq(Bytes)]
    BY <1>1, <1>6 DEF BufferTrasCargar, SegmentacionTypeOK
  <2> QED
    BY <2>1, <2>3, <2>5, <2>6 DEF SegmentacionTypeOK
<1> QED
  BY <1>5, <1>6 DEF CargarParte

-----------------------------------------------------------------------------
(* FM9 under paged segmentation *)

LEMMA PaginasOK ==
    ASSUME NEW n \in Nat \ {0}
    PROVE  Paginas(n) \in Nat
<1> DEFINE a == n + LineasPorPagina - 1
<1>1. LineasPorPagina \in Nat \ {0}
  BY SegmentacionPaginadaAssumption
<1>2. a \in Nat
  BY <1>1
<1>3. Paginas(n) = a \div LineasPorPagina
  BY DEF Paginas
<1> HIDE DEF a
<1> QED
  BY <1>1, <1>2, <1>3, DivisionOK

LEMMA MarcosFinitos ==
    /\ Marcos \subseteq Nat
    /\ \A S \in SUBSET Marcos : IsFiniteSet(S) /\ Cardinality(S) \in Nat
<1> DEFINE q == CantidadLineas \div LineasPorPagina
<1>1. q \in Nat
  BY DivisionOK, SegmentacionAssumption, SegmentacionPaginadaAssumption
<1>2. Marcos = 0 .. q - 1
  BY DEF Marcos
<1> HIDE DEF q
<1>3. IsFiniteSet(0 .. q - 1)
  <2> DEFINE w == q - 1
  <2>1. 0 \in Int /\ w \in Int
    BY <1>1
  <2> HIDE DEF w
  <2>2. IsFiniteSet(0 .. w)
    BY <2>1, FS_Interval
  <2> QED
    BY <2>2 DEF w
<1>4. 0 .. q - 1 \subseteq Nat
  BY <1>1
<1> QED
  BY <1>2, <1>3, <1>4, FS_Subset, FS_CardinalityType

(* The frames a file takes: free ones, different, and never the first. *)
LEMMA MarcosAUsarOK ==
    ASSUME marcosLibres \subseteq Marcos, NEW n \in Nat \ {0},
           Paginas(n) < Cardinality(marcosLibres)
    PROVE  /\ MarcosAUsar(n) \in Seq(Marcos) /\ Len(MarcosAUsar(n)) = Paginas(n)
           /\ ToSet(MarcosAUsar(n)) \subseteq marcosLibres \ {0}
           /\ IsInjective(MarcosAUsar(n))
<1> DEFINE Antes(m) == {x \in marcosLibres : x < m}
           marco(k) == CHOOSE m \in marcosLibres : Cardinality(Antes(m)) = k
           g == MarcosAUsar(n)
           w == Paginas(n)
<1>1. w \in Nat
  BY PaginasOK
<1>2. /\ IsFiniteSet(marcosLibres) /\ Cardinality(marcosLibres) \in Nat
      /\ marcosLibres \subseteq Nat
  BY MarcosFinitos
<1>3. g = [k \in 1 .. w |-> marco(k)]
  BY DEF MarcosAUsar
<1>4. ASSUME NEW k \in 1 .. w
      PROVE  marco(k) \in marcosLibres /\ Cardinality(Antes(marco(k))) = k
  <2>1. k \in Nat /\ k < Cardinality(marcosLibres)
    BY <1>1, <1>2
  <2>2. \E m \in marcosLibres : Cardinality(Antes(m)) = k
    BY <1>2, <2>1, Enesimo
  <2> HIDE DEF Antes
  <2> QED
    BY <2>2
<1>5. ASSUME NEW k \in 1 .. w
      PROVE  marco(k) # 0
  <2> SUFFICES ASSUME marco(k) = 0 PROVE FALSE
    OBVIOUS
  <2>1. Antes(0) = {}
    <3>1. \A x \in Nat : ~ (x < 0)
      OBVIOUS
    <3> QED
      BY <1>2, <3>1
  <2>2. Cardinality(Antes(0)) = 0
    BY <2>1, FS_EmptySet
  <2> HIDE DEF Antes, marco
  <2>3. Cardinality(Antes(0)) = k
    BY <1>4
  <2> QED
    BY <1>1, <2>2, <2>3
<1> HIDE DEF marco, Antes
<1>6. g \in Seq(Marcos) /\ Len(g) = w /\ DOMAIN g = 1 .. w
  <2>1. \A k \in 1 .. w : marco(k) \in Marcos
    BY <1>4
  <2> HIDE DEF w, g
  <2> QED
    BY <1>1, <1>3, <2>1
<1>7. ToSet(g) \subseteq marcosLibres \ {0}
  <2>1. \A k \in DOMAIN g : g[k] \in marcosLibres \ {0}
    BY <1>3, <1>4, <1>5, <1>6
  <2> HIDE DEF g
  <2> QED
    BY <1>6, <2>1 DEF ToSet
<1>8. IsInjective(g)
  <2>1. \A a, b \in 1 .. w : marco(a) = marco(b) => a = b
    BY <1>4
  <2> HIDE DEF g, w
  <2> QED
    BY <1>3, <1>6, <2>1 DEF IsInjective
<1> QED
  BY <1>6, <1>7, <1>8

LEMMA CopiarEnMarcosOK ==
    ASSUME SegmentacionTypeOK, marcosLibres \subseteq Marcos, NEW ls \in Seq(Seq(Bytes)),
           NEW n \in Nat \ {0}, n = Len(ls), Paginas(n) < Cardinality(marcosLibres)
    PROVE  CopiarEnMarcos(ls, n) \in [0 .. CantidadLineas - 1 -> Seq(Bytes) \cup {Vacio}]
<1> DEFINE g == MarcosAUsar(n)
           I(l) == {i \in 1 .. Len(g) : g[i] = l \div LineasPorPagina}
           K(l) == IF I(l) # {} THEN Min(I(l)) ELSE 0
           X(l) == (K(l) - 1) * LineasPorPagina + (l % LineasPorPagina) + 1
           V(l) == IF K(l) = 0 THEN memoria[l]
                   ELSE IF X(l) <= n THEN ls[X(l)] ELSE <<Basura>>
<1>1. memoria \in [0 .. CantidadLineas - 1 -> Seq(Bytes) \cup {Vacio}]
  BY DEF SegmentacionTypeOK
<1>2. CopiarEnMarcos(ls, n) = [l \in DOMAIN memoria |-> V(l)]
  BY DEF CopiarEnMarcos, SelectInSeq
<1>3. ASSUME NEW l \in 0 .. CantidadLineas - 1
      PROVE  V(l) \in Seq(Bytes) \cup {Vacio}
  <2>1. K(l) \in Nat
    <3>1. CASE I(l) = {}
      BY <3>1
    <3>2. CASE I(l) # {}
      <4>1. I(l) \in SUBSET Nat
        OBVIOUS
      <4>2. Min(I(l)) \in Nat
        <5> HIDE DEF I
        <5> QED  BY <3>2, <4>1, MinimoOK
      <4> HIDE DEF I
      <4> QED
        BY <3>2, <4>2
    <3> QED
      BY <3>1, <3>2
  <2>2. CASE K(l) = 0
    BY <1>1, <2>2
  <2>3. CASE K(l) # 0
    <3> DEFINE j == K(l) - 1
               r == l % LineasPorPagina
    <3>1. j \in Nat /\ LineasPorPagina \in Nat \ {0}
      BY <2>1, <2>3, SegmentacionPaginadaAssumption
    <3>2. r \in Nat
      BY <3>1, DivisionOK
    <3>3. j * LineasPorPagina \in Nat
      BY <3>1
    <3>4. X(l) = j * LineasPorPagina + r + 1
      OBVIOUS
    <3> HIDE DEF j, r, X
    <3>5. X(l) \in Nat \ {0}
      BY <3>2, <3>3, <3>4
    <3>6. V(l) = IF X(l) <= n THEN ls[X(l)] ELSE <<Basura>>
      BY <2>3
    <3> HIDE DEF K, V
    <3>7. Basura \in Bytes
      BY SegmentacionPaginadaAssumption
    <3>8. X(l) <= n => ls[X(l)] \in Seq(Bytes)
      BY <3>5
    <3>9. <<Basura>> \in Seq(Bytes)
      BY <3>7
    <3> QED
      BY <3>6, <3>8, <3>9
  <2> QED
    BY <2>2, <2>3
<1> HIDE DEF V
<1> QED
  BY <1>1, <1>2, <1>3

(* The segment table of a process, with the pages of one more file *)
LEMMA TablaTrasOK ==
    ASSUME PaginadaTypeOK, NEW d \in Pids, NEW p \in Paths,
           NEW n \in Nat \ {0}, Paginas(n) < Cardinality(marcosLibres)
    PROVE  TablaTras(d, p, n) \in Seq(SegmentoPaginado)
<1> DEFINE suyos == {k \in DOMAIN paginadas[d] : paginadas[d][k].archivo = p}
           g == MarcosAUsar(n)
           nuevo == [archivo |-> p, limite |-> Min({n, LineasPorPagina}), marcos |-> g]
<1>1. g \in Seq(Marcos)
  BY MarcosAUsarOK DEF PaginadaTypeOK
<1>2. paginadas[d] \in Seq(SegmentoPaginado)
  BY DEF PaginadaTypeOK
<1>3. Min({n, LineasPorPagina}) \in Nat
  <2>1. {n, LineasPorPagina} \in SUBSET Nat /\ {n, LineasPorPagina} # {}
    BY SegmentacionPaginadaAssumption
  <2> QED
    BY <2>1, MinimoOK
<1>4. nuevo \in SegmentoPaginado
  <2> HIDE DEF g
  <2> QED
    BY <1>1, <1>3 DEF SegmentoPaginado
<1>5. CASE suyos = {}
  <2>1. TablaTras(d, p, n) = <<nuevo>>
    BY <1>5 DEF TablaTras
  <2> HIDE DEF nuevo
  <2> QED
    BY <1>4, <2>1
<1>6. CASE suyos # {}
  <2> DEFINE k == Min(suyos)
  <2>1. suyos \in SUBSET Nat /\ suyos \subseteq DOMAIN paginadas[d]
    BY <1>2
  <2>2. k \in suyos
    <3> HIDE DEF suyos
    <3> QED
      BY <1>6, <2>1, MinimoOK
  <2>3. TablaTras(d, p, n) = [paginadas[d] EXCEPT ![k].marcos = @ \o g]
    BY <1>6 DEF TablaTras
  <2>4. k \in 1 .. Len(paginadas[d])
    BY <1>2, <2>1, <2>2
  <2> HIDE DEF k, g
  <2>5. paginadas[d][k] \in SegmentoPaginado
    BY <1>2, <2>4
  <2>6. [paginadas[d][k] EXCEPT !.marcos = @ \o g] \in SegmentoPaginado
    <3> DEFINE s == paginadas[d][k]
    <3>1. s \in [archivo : Paths, limite : Nat, marcos : Seq(Marcos)]
      BY <2>5 DEF SegmentoPaginado
    <3> HIDE DEF s
    <3>2. s.marcos \o g \in Seq(Marcos)
      BY <1>1, <3>1
    <3>3. [s EXCEPT !.marcos = @ \o g] \in [archivo : Paths, limite : Nat, marcos : Seq(Marcos)]
      BY <3>1, <3>2
    <3> QED
      BY <3>3 DEF s, SegmentoPaginado
  <2> QED
    BY <1>2, <2>3, <2>4, <2>6
<1> QED
  BY <1>5, <1>6

LEMMA BuffersOK ==
    ASSUME SegmentacionTypeOK, NEW d \in Pids, NEW datos \in Seq(Bytes)
    PROVE  Buffers(d, datos) \subseteq Seq(Bytes)
<1>1. cargandose[d] \in Seq(Bytes) /\ Basura \in Bytes
  BY SegmentacionPaginadaAssumption DEF SegmentacionTypeOK
<1> DEFINE otro == [k \in DOMAIN cargandose[d] |-> Basura]
<1>2. otro \in Seq(Bytes)
  BY <1>1
<1> HIDE DEF otro
<1>3. cargandose[d] \o datos \in Seq(Bytes) /\ otro \o datos \in Seq(Bytes)
  BY <1>1, <1>2
<1>4. Buffers(d, datos) \subseteq {cargandose[d] \o datos, otro \o datos}
  BY DEF Buffers, otro
<1> QED
  BY <1>3, <1>4

(* What a step of FM9 may do to the frames and the pages of its processes, *)
(* for the types and for how the frames are shared                         *)
Paginado(d, p, n) ==
    /\ n \in Nat \ {0} /\ Paginas(n) < Cardinality(marcosLibres)
    /\ \/ paginadas[d] = <<>>
       \/ \E k \in DOMAIN paginadas[d] : paginadas[d][k].archivo = p
    /\ marcosLibres' = marcosLibres \ ToSet(MarcosAUsar(n))
    /\ paginadas' = [paginadas EXCEPT ![d] = TablaTras(d, p, n)]

LEMMA CargarPartePaginadaOK ==
    ASSUME FM9TypeOK, NEW d \in Pids, NEW p \in Paths, NEW datos \in Seq(Bytes),
           NEW total, NEW dir, CargarPartePaginada(d, p, datos, total, dir)
    PROVE  /\ SegmentacionTypeOK' /\ PaginadaTypeOK'
           /\ UNCHANGED <<huecos, tablas>>
           /\ caidos \subseteq caidos'
           /\ \/ UNCHANGED <<marcosLibres, paginadas>>
              \/ \E n \in Nat \ {0} : Paginado(d, p, n)
<1>1. SegmentacionTypeOK /\ PaginadaTypeOK
  BY DEF FM9TypeOK
<1>2. CASE CaeFM9
  BY <1>1, <1>2 DEF CaeFM9, fm9, paginacion, SegmentacionTypeOK, PaginadaTypeOK
<1>3. CASE \E b \in Buffers(d, datos) :
              /\ cargandose' = [cargandose EXCEPT ![d] = b]
              /\ sueltos' \in {sueltos \ {d}, sueltos \cup {d}}
              /\ UNCHANGED <<huecos, tablas, caidos>>
              /\ \/ UNCHANGED <<memoria, marcosLibres, paginadas>>
                 \/ /\ HayMarcos(Lineas(b)) /\ ~ SigueUnNulo(d, p, Len(Lineas(b)))
                    /\ Len(Lineas(b)) # 0
                    /\ memoria' = CopiarEnMarcos(Lineas(b), Len(Lineas(b)))
                    /\ marcosLibres' = marcosLibres \ ToSet(MarcosAUsar(Len(Lineas(b))))
                    /\ paginadas' = [paginadas EXCEPT ![d] = TablaTras(d, p, Len(Lineas(b)))]
  <2>1. PICK b \in Buffers(d, datos) : <1>3!1!(b)
    BY <1>3
  <2> DEFINE ls == Lineas(b)
             n == Len(ls)
  <2>2. b \in Seq(Bytes)
    BY <1>1, BuffersOK
  <2>3. ls \in Seq(Seq(Bytes))
    BY <2>2, LineasOK
  <2> HIDE DEF ls
  <2>4. n \in Nat
    BY <2>3
  <2> HIDE DEF n
  <2>5. cargandose' \in [Pids -> Seq(Bytes)] /\ sueltos' \subseteq Pids
    BY <1>1, <2>1, <2>2 DEF SegmentacionTypeOK, PaginadaTypeOK
  <2>6. /\ UNCHANGED <<huecos, tablas, caidos>>
        /\ \/ UNCHANGED <<memoria, marcosLibres, paginadas>>
           \/ /\ HayMarcos(ls) /\ ~ SigueUnNulo(d, p, n) /\ n # 0
              /\ memoria' = CopiarEnMarcos(ls, n)
              /\ marcosLibres' = marcosLibres \ ToSet(MarcosAUsar(n))
              /\ paginadas' = [paginadas EXCEPT ![d] = TablaTras(d, p, n)]
    BY <2>1 DEF n, ls
  <2>7. CASE UNCHANGED <<memoria, marcosLibres, paginadas>>
    BY <1>1, <2>5, <2>6, <2>7 DEF SegmentacionTypeOK, PaginadaTypeOK
  <2>8. CASE ~ UNCHANGED <<memoria, marcosLibres, paginadas>>
    <3>1. /\ ~ SigueUnNulo(d, p, n) /\ n \in Nat \ {0}
          /\ memoria' = CopiarEnMarcos(ls, n)
          /\ marcosLibres' = marcosLibres \ ToSet(MarcosAUsar(n))
          /\ paginadas' = [paginadas EXCEPT ![d] = TablaTras(d, p, n)]
      BY <2>4, <2>6, <2>8
    <3>2. Paginas(n) \in Nat /\ Cardinality(marcosLibres) \in Nat
      BY <1>1, <3>1, PaginasOK, MarcosFinitos DEF PaginadaTypeOK
    <3>3. Paginas(n) < Cardinality(marcosLibres)
      BY <3>1, <3>2 DEF SigueUnNulo
    <3>4. Paginado(d, p, n)
      BY <3>1, <3>3 DEF Paginado, SigueUnNulo
    <3>5. TablaTras(d, p, n) \in Seq(SegmentoPaginado)
      BY <1>1, <3>1, <3>3, TablaTrasOK
    <3>6. memoria' \in [0 .. CantidadLineas - 1 -> Seq(Bytes) \cup {Vacio}]
      BY <1>1, <2>3, <3>1, <3>3, CopiarEnMarcosOK DEF n, PaginadaTypeOK
    <3>7. marcosLibres' \subseteq Marcos /\ paginadas' \in [Pids -> Seq(SegmentoPaginado)]
      BY <1>1, <3>1, <3>5 DEF PaginadaTypeOK
    <3> QED
      BY <1>1, <2>5, <2>6, <3>1, <3>4, <3>6, <3>7 DEF SegmentacionTypeOK, PaginadaTypeOK
  <2> QED
    BY <2>7, <2>8
<1>4. CaeFM9 \/ <1>3!1
  BY DEF CargarPartePaginada
<1> QED
  BY <1>2, <1>3, <1>4

(* Either of the two, as the DAM calls them *)
LEMMA CargarEnMemoriaOK ==
    ASSUME FM9TypeOK, NEW d \in Pids, NEW p \in Paths, NEW datos \in Seq(Bytes),
           NEW total, NEW dir, CargarParteEnMemoria(d, p, datos, total, dir)
    PROVE  FM9TypeOK'
<1>1. modo' \in Modos
  BY DEF CargarParteEnMemoria, FM9TypeOK
<1>2. CASE CargarParte(d, p, datos, total, dir) /\ UNCHANGED <<paginacion, caidos>>
  BY <1>1, <1>2, CargarParteOK DEF FM9TypeOK, PaginadaTypeOK, paginacion
<1>3. CASE CargarPartePaginada(d, p, datos, total, dir)
  BY <1>1, <1>3, CargarPartePaginadaOK DEF FM9TypeOK
<1> QED
  BY <1>2, <1>3 DEF CargarParteEnMemoria

-----------------------------------------------------------------------------
(* The types *)

(* What the DAM keeps of a transfer *)
Dam == [en : {"libre", "pide", "mide", "carga", "ultima", "informa", "falla"},
        pid : Pids, path : Paths, parte : Resultado,
        offset : Nat, total : Nat, bytes : Int, primera : BOOLEAN,
        direccion : Int, original : Seq(Bytes)]

LEMMA DamLibreOK == DamLibre \in Dam
<1>1. Fallo \in Resultado
  BY DEF Fallo, Resultado
<1>2. (CHOOSE d \in Pids : TRUE) \in Pids /\ (CHOOSE p \in Paths : TRUE) \in Paths
  BY TransferenciaAssumption
<1> QED
  BY <1>1, <1>2, TransferenciaAssumption DEF DamLibre, Dam, SinAsignar

(* What the DAM is doing, field by field *)
LEMMA DamOK ==
    ASSUME dam \in Dam
    PROVE  /\ dam.pid \in Pids /\ dam.path \in Paths /\ dam.parte \in Resultado
           /\ dam.parte.size \in Nat /\ dam.parte.datos \in Seq(Bytes)
           /\ dam.offset \in Nat /\ dam.total \in Nat /\ dam.bytes \in Int
           /\ dam.original \in Seq(Bytes) /\ dam.direccion \in Int
  BY DEF Dam, Resultado

LEMMA InicioTipos == Init => TypeOK
<1> SUFFICES ASSUME Init PROVE TypeOK
  OBVIOUS
<1>1. SegmentacionTypeOK
  <2>1. [base |-> 0, limite |-> CantidadLineas] \in Hueco
    BY SegmentacionAssumption DEF Hueco
  <2>2. huecos \in Seq(Hueco)
    BY <2>1 DEF Init, FM9Init, SegmentacionInit
  <2>3. /\ tablas \in [Pids -> Seq(Segmento)] /\ cargandose \in [Pids -> Seq(Bytes)]
        /\ memoria \in [0 .. CantidadLineas - 1 -> Seq(Bytes) \cup {Vacio}]
    BY DEF Init, FM9Init, SegmentacionInit
  <2> QED
    BY <2>2, <2>3 DEF SegmentacionTypeOK
<1>2. PaginadaTypeOK /\ modo \in Modos
  BY DEF Init, FM9Init, PaginadaInit, PaginadaTypeOK
<1>3. dam \in Dam
  BY DamLibreOK DEF Init
<1>4. /\ archivos \in [Paths -> Seq(Bytes) \cup {NoExiste}]
      /\ consola \in 0 .. MaxConsola
      /\ dtb \in [Pids -> {"listo", "bloqueado", "terminado"}]
      /\ abiertos = {} /\ manchados = {}
  BY TransferenciaAssumption DEF Init
<1> QED
  BY <1>1, <1>2, <1>3, <1>4 DEF TypeOK, FM9TypeOK, Dam

LEMMA ConsolaTipos ==
    ASSUME TypeOK, NEW p \in Paths, Consola(p)
    PROVE  TypeOK'
<1> USE DEF Consola
<1>1. consola' \in 0 .. MaxConsola
  BY TransferenciaAssumption DEF TypeOK
<1>2. archivos[p] \in Seq(Bytes) /\ Agregado \in Seq(Bytes)
  BY TransferenciaAssumption DEF TypeOK
<1>3. archivos[p] \o Agregado \in Seq(Bytes)
  BY <1>2
<1>4. archivos' \in [Paths -> Seq(Bytes) \cup {NoExiste}]
  BY <1>3 DEF TypeOK
<1>5. manchados' \subseteq Pids
  BY DEF TypeOK, Tocado
<1>6. FM9TypeOK'
  BY DEF TypeOK, FM9TypeOK, SegmentacionTypeOK, PaginadaTypeOK, memoriaFM9, fm9, paginacion
<1> QED
  BY <1>1, <1>4, <1>5, <1>6 DEF TypeOK

(* What a step of the DAM leaves alone, and the types that follow from it *)
LEMMA DelDAM ==
    ASSUME TypeOK, FM9TypeOK', dam' \in Dam, UNCHANGED <<archivos, consola, manchados>>,
           dtb' \in [Pids -> {"listo", "bloqueado", "terminado"}],
           abiertos' \subseteq [pid : Pids, path : Paths, direccion : Int,
                                lineas : Seq(Seq(Bytes)), entero : BOOLEAN]
    PROVE  TypeOK'
  BY DEF TypeOK, Dam

LEMMA NadaDeFM9 ==
    ASSUME FM9TypeOK, UNCHANGED memoriaFM9
    PROVE  FM9TypeOK'
  BY DEF FM9TypeOK, SegmentacionTypeOK, PaginadaTypeOK, memoriaFM9, fm9, paginacion

(* What FM9 may do of a fragment, or not do when it is down *)
LEMMA CargarOK ==
    ASSUME TypeOK, NEW dir, Cargar(dir)
    PROVE  FM9TypeOK'
<1>1. dam \in Dam /\ FM9TypeOK
  BY DEF TypeOK, Dam
<1>2. CASE CargarParteEnMemoria(dam.pid, dam.path, dam.parte.datos, dam.parte.total, dir)
  BY <1>1, <1>2, DamOK, CargarEnMemoriaOK
<1>3. CASE UNCHANGED memoriaFM9
  BY <1>1, <1>3, NadaDeFM9
<1> QED
  BY <1>2, <1>3 DEF Cargar

LEMMA PasoDAMTipos ==
    ASSUME TypeOK, PasoDAM
    PROVE  TypeOK'
<1>1. dam \in Dam /\ FM9TypeOK /\ dam.pid \in Pids
  BY DEF TypeOK, Dam
<1>2. /\ dtb \in [Pids -> {"listo", "bloqueado", "terminado"}]
      /\ abiertos \subseteq [pid : Pids, path : Paths, direccion : Int,
                             lineas : Seq(Seq(Bytes)), entero : BOOLEAN]
      /\ archivos \in [Paths -> Seq(Bytes) \cup {NoExiste}]
  BY DEF TypeOK
<1>3. CASE PedirDatos
  <2>1. PICK r \in Obtenidos(dam.path, dam.offset, dam.bytes) :
          dam' = [dam EXCEPT !.en = "mide", !.parte = r]
    BY <1>3 DEF PedirDatos
  <2>2. r \in Resultado
    BY <1>1, <1>2, DamOK, ObtenidosOK
  <2>3. dam' \in Dam
    BY <1>1, <2>1, <2>2 DEF Dam
  <2> QED
    BY <1>1, <1>2, <1>3, <2>3, NadaDeFM9, DelDAM DEF PedirDatos
<1>4. CASE Medir
  <2> DEFINE total == Longitud
             parte == [dam.parte EXCEPT !.total = total]
             offset == dam.offset + dam.parte.size
             en == IF offset < total THEN "carga" ELSE "ultima"
             todo1 == IF dam.primera THEN total ELSE dam.total
  <2>1. total \in Nat
    BY <1>1, <1>2, DamOK DEF Longitud
  <2> HIDE DEF total
  <2>2. parte \in Resultado
    BY <1>1, <2>1, DamOK DEF Resultado
  <2>3. offset \in Nat /\ todo1 \in Nat /\ en \in {"carga", "ultima"}
    BY <1>1, <2>1, DamOK
  <2>4. dam' = [dam EXCEPT !.parte = parte, !.offset = offset, !.total = todo1,
                           !.primera = FALSE, !.en = en]
    BY <1>1, <1>4 DEF Medir, Dam, total
  <2> HIDE DEF parte, offset, en, todo1
  <2>5. dam' \in Dam
    BY <1>1, <2>2, <2>3, <2>4 DEF Dam
  <2> QED
    BY <1>1, <1>2, <1>4, <2>5, NadaDeFM9, DelDAM DEF Medir
<1>5. CASE CargarFragmento
  <2>1. PICK dir \in Direcciones :
          /\ Cargar(dir)
          /\ dam' = IF dir = -1 THEN [dam EXCEPT !.en = "falla"]
                    ELSE [dam EXCEPT !.en = "pide", !.direccion = dir, !.bytes = BytesAPedir]
    BY <1>5 DEF CargarFragmento
  <2>2. dir \in Int
    <3>1. Len(tablas[dam.pid]) \in Nat
      BY <1>1 DEF FM9TypeOK, SegmentacionTypeOK
    <3> QED
      BY <3>1 DEF Direcciones, SinAsignar
  <2>3. BytesAPedir \in Int
    BY <1>1, DamOK, TransferenciaAssumption DEF BytesAPedir, Menor
  <2>4. dam' \in Dam
    BY <1>1, <2>1, <2>2, <2>3 DEF Dam
  <2> QED
    BY <1>2, <1>5, <2>1, <2>4, CargarOK, DelDAM DEF CargarFragmento
<1>6. CASE CargarUltimo
  <2>1. CASE dam' = [dam EXCEPT !.en = "informa"] /\ UNCHANGED memoriaFM9
    <3>1. dam' \in Dam
      BY <1>1, <2>1 DEF Dam
    <3> QED
      BY <1>1, <1>2, <1>6, <2>1, <3>1, NadaDeFM9, DelDAM DEF CargarUltimo
  <2>2. ASSUME NEW dir \in Direcciones, Cargar(dir),
               dam' = IF dir = -1 THEN [dam EXCEPT !.en = "falla"]
                      ELSE [dam EXCEPT !.en = "informa", !.direccion = dir]
        PROVE  TypeOK'
    <3>1. dir \in Int
      <4>1. Len(tablas[dam.pid]) \in Nat
        BY <1>1 DEF FM9TypeOK, SegmentacionTypeOK
      <4> QED
        BY <4>1 DEF Direcciones, SinAsignar
    <3>2. dam' \in Dam
      BY <1>1, <2>2, <3>1 DEF Dam
    <3> QED
      BY <1>2, <1>6, <2>2, <3>2, CargarOK, DelDAM DEF CargarUltimo
  <2> QED
    BY <1>6, <2>1, <2>2 DEF CargarUltimo
<1>7. CASE CargarSinFM9
  BY <1>1, <1>2, <1>7, DamLibreOK, NadaDeFM9, DelDAM DEF CargarSinFM9, CaeDAM
<1>8. ASSUME NEW ok \in BOOLEAN, Informar(ok)
      PROVE  dam' \in Dam /\ dtb' \in [Pids -> {"listo", "bloqueado", "terminado"}]
  BY <1>1, <1>2, <1>8, DamLibreOK DEF Informar, CaeDAM
<1>9. CASE InformarExito
  <2>1. Lineas(dam.original) \in Seq(Seq(Bytes))
    BY <1>1, DamOK, LineasOK
  <2>2. abiertos' \subseteq [pid : Pids, path : Paths, direccion : Int,
                             lineas : Seq(Seq(Bytes)), entero : BOOLEAN]
    <3> DEFINE a == [pid |-> dam.pid, path |-> dam.path, direccion |-> dam.direccion,
                     lineas |-> Lineas(dam.original),
                     entero |-> /\ dam.pid \notin manchados
                                /\ dam.path \notin Ilegibles
                                /\ Len(dam.original) >= TransferSize]
    <3>1. a \in [pid : Pids, path : Paths, direccion : Int,
                 lineas : Seq(Seq(Bytes)), entero : BOOLEAN]
      <4> DEFINE e == a.entero
      <4>1. e \in BOOLEAN
        BY Zenon
      <4> HIDE DEF e
      <4>2. a = [pid |-> dam.pid, path |-> dam.path, direccion |-> dam.direccion,
                 lineas |-> Lineas(dam.original), entero |-> e]
        BY DEF e
      <4> HIDE DEF a
      <4> QED
        BY <1>1, <2>1, <4>1, <4>2, DamOK
    <3>2. abiertos' = abiertos \cup {a : x \in {"SAFA"} \ caidos}
      BY <1>9 DEF InformarExito
    <3> HIDE DEF a
    <3> QED
      BY <1>2, <3>1, <3>2
  <2> QED
    BY <1>1, <1>8, <1>9, <2>2, NadaDeFM9, DelDAM DEF InformarExito
<1>10. CASE InformarFallo
  BY <1>1, <1>2, <1>8, <1>10, NadaDeFM9, DelDAM DEF InformarFallo
<1> QED
  BY <1>3, <1>4, <1>5, <1>6, <1>7, <1>9, <1>10 DEF PasoDAM

LEMMA AbrirPathTipos ==
    ASSUME TypeOK, NEW d \in Pids, NEW p \in Paths, AbrirPath(d, p)
    PROVE  TypeOK'
<1>1. /\ DamLibre \in Dam /\ FM9TypeOK
      /\ archivos[p] = NoExiste \/ archivos[p] \in Seq(Bytes)
  BY DamLibreOK DEF TypeOK
<1>2. dam' \in Dam
  BY <1>1 DEF AbrirPath, Dam
<1>3. /\ dtb' \in [Pids -> {"listo", "bloqueado", "terminado"}]
      /\ abiertos' \subseteq [pid : Pids, path : Paths, direccion : Int,
                             lineas : Seq(Seq(Bytes)), entero : BOOLEAN]
  BY DEF AbrirPath, TypeOK
<1> QED
  BY <1>1, <1>2, <1>3, NadaDeFM9, DelDAM DEF AbrirPath

LEMMA PasoTipos == TypeOK /\ [Next]_vars => TypeOK'
<1> SUFFICES ASSUME TypeOK, [Next]_vars PROVE TypeOK'
  OBVIOUS
<1>1. CASE UNCHANGED vars
  <2>1. FM9TypeOK'
    BY <1>1, NadaDeFM9 DEF TypeOK, vars
  <2> QED
    BY <1>1, <2>1 DEF TypeOK, vars
<1> QED
  BY <1>1, ConsolaTipos, PasoDAMTipos, AbrirPathTipos DEF Next

(* Every variable of a transfer, and of the memory of FM9, keeps its type.  *)
THEOREM TiposDeTransferencia == Spec => []TypeOK
<1> QED
  BY InicioTipos, PasoTipos, PTL DEF Spec

-----------------------------------------------------------------------------
(* How the lines of the memory are shared *)

LEMMA LugaresOK ==
    ASSUME NEW t
    PROVE  \A x : x \in Lugares(t) <=> \E d \in Pids : \E k \in DOMAIN t[d] : x = <<d, k>>
  BY DEF Lugares

(* The tables u have what the tables t have, and s at one more place. *)
UnLugarMas(t, u, x, s) ==
    /\ Lugares(u) = Lugares(t) \cup {x} /\ x \notin Lugares(t)
    /\ u[x[1]][x[2]] = s
    /\ \A y \in Lugares(t) : u[y[1]][y[2]] = t[y[1]][y[2]]

LEMMA LugaresTras ==
    ASSUME NEW S, NEW t \in [Pids -> Seq(S)], NEW d \in Pids, NEW s \in S,
           NEW u, u = [t EXCEPT ![d] = Append(t[d], s)]
    PROVE  UnLugarMas(t, u, <<d, Len(t[d]) + 1>>, s)
<1> DEFINE x == <<d, Len(t[d]) + 1>>
<1>1. /\ t[d] \in Seq(S) /\ Len(t[d]) \in Nat /\ DOMAIN t[d] = 1 .. Len(t[d])
      /\ Append(t[d], s) \in Seq(S) /\ Len(Append(t[d], s)) = Len(t[d]) + 1
      /\ \A k \in 1 .. Len(t[d]) : Append(t[d], s)[k] = t[d][k]
      /\ Append(t[d], s)[Len(t[d]) + 1] = s
      /\ DOMAIN Append(t[d], s) = 1 .. Len(t[d]) + 1
  OBVIOUS
<1>2. u[d] = Append(t[d], s) /\ \A e \in Pids : e # d => u[e] = t[e]
  OBVIOUS
<1>3. DOMAIN u[d] = DOMAIN t[d] \cup {Len(t[d]) + 1} /\ Len(t[d]) + 1 \notin DOMAIN t[d]
  BY <1>1, <1>2
<1>4. Lugares(u) = Lugares(t) \cup {x}
  <2>1. ASSUME NEW y \in Lugares(u) PROVE y \in Lugares(t) \cup {x}
    <3>1. PICK e \in Pids : \E k \in DOMAIN u[e] : y = <<e, k>>
      BY LugaresOK
    <3>10. PICK k \in DOMAIN u[e] : y = <<e, k>>
      BY <3>1
    <3>2. CASE e = d
      BY <1>3, <3>10, <3>2, LugaresOK
    <3>3. CASE e # d
      BY <1>2, <3>10, <3>3, LugaresOK
    <3> QED
      BY <3>2, <3>3
  <2>2. ASSUME NEW y \in Lugares(t) PROVE y \in Lugares(u)
    <3>1. PICK e \in Pids : \E k \in DOMAIN t[e] : y = <<e, k>>
      BY LugaresOK
    <3>10. PICK k \in DOMAIN t[e] : y = <<e, k>>
      BY <3>1
    <3>2. k \in DOMAIN u[e]
      BY <1>2, <1>3
    <3> QED
      BY <3>10, <3>2, LugaresOK
  <2>3. x \in Lugares(u)
    BY <1>3, LugaresOK
  <2> QED
    BY <2>1, <2>2, <2>3
<1>5. x \notin Lugares(t)
  <2> SUFFICES ASSUME x \in Lugares(t) PROVE FALSE
    OBVIOUS
  <2>1. PICK e \in Pids : \E k \in DOMAIN t[e] : x = <<e, k>>
    BY LugaresOK
  <2>10. PICK k \in DOMAIN t[e] : x = <<e, k>>
    BY <2>1
  <2> QED
    BY <1>3, <2>10
<1>6. u[x[1]][x[2]] = s
  BY <1>1, <1>2
<1>7. ASSUME NEW y \in Lugares(t) PROVE u[y[1]][y[2]] = t[y[1]][y[2]]
  <2>1. PICK e \in Pids : \E k \in DOMAIN t[e] : y = <<e, k>>
    BY LugaresOK
  <2>10. PICK k \in DOMAIN t[e] : y = <<e, k>>
    BY <2>1
  <2> QED
    BY <1>1, <1>2, <2>10
<1> QED
  BY <1>4, <1>5, <1>6, <1>7 DEF UnLugarMas

LEMMA UnoSolo ==
    ASSUME NEW S, NEW q \in Seq(S), Len(q) = 1, NEW h \in S
    PROVE  LET r == [q EXCEPT ![1] = h]
           IN  r \in Seq(S) /\ Len(r) = 1 /\ r[1] = h /\ r # <<>>
<1> DEFINE r == [q EXCEPT ![1] = h]
<1>1. r \in Seq(S) /\ Len(r) = 1 /\ r[1] = h
  OBVIOUS
<1> HIDE DEF r
<1>2. r # <<>>
  BY <1>1
<1> QED
  BY <1>1, <1>2 DEF r

(* FM9 keeps to its hole when it loads a file. *)
LEMMA CargarParteMemoria ==
    ASSUME FM9TypeOK, NEW d \in Pids, NEW p \in Paths, NEW datos \in Seq(Bytes),
           NEW total, NEW dir, CargarParte(d, p, datos, total, dir),
           UnHueco, MemoriaRepartida
    PROVE  UnHueco' /\ MemoriaRepartida'
<1> DEFINE n == Len(Lineas(cargandose[d] \o datos))
           s == [base |-> NuevaBase(n), limite |-> n, archivo |-> p]
<1>1. /\ tablas \in [Pids -> Seq(Segmento)] /\ huecos \in Seq(Hueco)
      /\ cargandose[d] \in Seq(Bytes)
  BY DEF FM9TypeOK, SegmentacionTypeOK
<1>2. n \in Nat
  <2>1. cargandose[d] \o datos \in Seq(Bytes)
    BY <1>1
  <2>2. Lineas(cargandose[d] \o datos) \in Seq(Seq(Bytes))
    BY <2>1, LineasOK
  <2> QED
    BY <2>2
<1>3. CASE UNCHANGED <<huecos, tablas>>
  BY <1>3 DEF UnHueco, MemoriaRepartida, Segmentos, Tabla, HuecoElegido
<1>4. CASE ~ UNCHANGED <<huecos, tablas>>
  <2>1. /\ huecos # <<>> /\ n <= HuecoElegido.limite
        /\ huecos' = HuecosTras(n)
        /\ tablas' = [tablas EXCEPT ![d] = Append(tablas[d], s)]
    BY <1>4 DEF CargarParte, HayLugar
  <2> DEFINE b == HuecoElegido.base
             l == HuecoElegido.limite
  <2>2. /\ Len(huecos) = 1 /\ huecos[1] = HuecoElegido /\ b \in Nat /\ l \in Nat \ {0}
        /\ b + l = CantidadLineas
    BY <1>1, <2>1 DEF UnHueco, HuecoElegido
  <2>3. CASE n = l
    <3>1. huecos' = <<>>
      BY <1>1, <2>1, <2>2, <2>3 DEF HuecosTras
    <3> QED
      BY <3>1 DEF UnHueco, MemoriaRepartida
  <2>4. CASE n # l
    <3> DEFINE h == [base |-> b + n, limite |-> l - n]
    <3>1. huecos' = [huecos EXCEPT ![1] = h]
      BY <2>1, <2>2, <2>4 DEF HuecosTras
    <3>2. Len(huecos') = 1 /\ huecos'[1] = h /\ huecos' # <<>>
      <4>1. h \in Hueco
        BY <1>2, <2>1, <2>2 DEF Hueco
      <4> HIDE DEF h, b, l
      <4>2. huecos \in Seq(Hueco) /\ Len(huecos) = 1
        BY <1>1, <2>2
      <4> QED
        BY <3>1, <4>1, <4>2, UnoSolo
    <3>3. HuecoElegido' = h
      BY <3>2 DEF HuecoElegido
    <3>4. HuecoElegido'.base = b + n /\ HuecoElegido'.limite = l - n
      BY <3>3
    <3>5. s.base = b /\ s.limite = n /\ s \in Segmento
      BY <1>2, <2>2, <2>4 DEF NuevaBase, Segmento
    <3> DEFINE x0 == <<d, Len(tablas[d]) + 1>>
    <3> HIDE DEF n, s, h, b, l
    <3>6. PICK x : /\ Segmentos' = Segmentos \cup {x} /\ x \notin Segmentos
                   /\ Tabla(x)' = s
                   /\ \A y \in Segmentos : Tabla(y)' = Tabla(y)
      <4>1. UnLugarMas(tablas, tablas', x0, s)
        <5>1. tablas \in [Pids -> Seq(Segmento)] /\ s \in Segmento
          BY <1>1, <3>5
        <5>2. tablas' = [tablas EXCEPT ![d] = Append(tablas[d], s)]
          BY <2>1
        <5> QED
          BY <5>1, <5>2, LugaresTras
      <4> HIDE DEF x0
      <4> QED
        BY <4>1 DEF UnLugarMas, Segmentos, Tabla
    <3>7. Ocupa(s) = b .. b + n - 1
      BY <3>5 DEF Ocupa
    <3>8. /\ b \in Nat /\ l \in Nat /\ n \in Nat /\ b + l = CantidadLineas /\ n < l
      BY <1>2, <2>1, <2>2, <2>4 DEF l
    <3>9. /\ \A y, z \in Segmentos :
                y # z => Ocupa(Tabla(y)) \cap Ocupa(Tabla(z)) = {}
          /\ UNION {Ocupa(Tabla(y)) : y \in Segmentos} = 0 .. b - 1
      <4>1. Ocupa(HuecoElegido) = b .. b + l - 1
        BY DEF Ocupa, b, l
      <4>2. (0 .. CantidadLineas - 1) \ (b .. b + l - 1) = 0 .. b - 1
        BY <3>8
      <4> QED
        BY <2>1, <4>1, <4>2 DEF MemoriaRepartida
    <3>10. UnHueco'
      <4>1. /\ b + n \in Nat /\ l - n \in Nat \ {0}
            /\ b + n + (l - n) = CantidadLineas
        BY <3>8
      <4>2. /\ Len(huecos') = 1
            /\ HuecoElegido'.base \in Nat /\ HuecoElegido'.limite \in Nat \ {0}
            /\ HuecoElegido'.base + HuecoElegido'.limite = CantidadLineas
        BY <3>2, <3>4, <4>1
      <4> QED
        BY <4>2 DEF UnHueco
    <3>11. ASSUME NEW y \in Segmentos
           PROVE  Ocupa(Tabla(y)) \cap Ocupa(s) = {}
      <4>1. Ocupa(Tabla(y)) \subseteq 0 .. b - 1
        BY <3>9
      <4>2. (0 .. b - 1) \cap (b .. b + n - 1) = {}
        BY <3>8
      <4> QED
        BY <3>7, <4>1, <4>2
    <3>12. ASSUME NEW y \in Segmentos', NEW z \in Segmentos', y # z
           PROVE  Ocupa(Tabla(y)') \cap Ocupa(Tabla(z)') = {}
      BY <3>6, <3>9, <3>11, <3>12
    <3>13. UNION {Ocupa(Tabla(y)') : y \in Segmentos'} = 0 .. b + n - 1
      <4>1. UNION {Ocupa(Tabla(y)') : y \in Segmentos'}
              = (UNION {Ocupa(Tabla(y)) : y \in Segmentos}) \cup Ocupa(s)
        <5>1. ASSUME NEW y \in Segmentos' PROVE Ocupa(Tabla(y)')
                \subseteq (UNION {Ocupa(Tabla(z)) : z \in Segmentos}) \cup Ocupa(s)
          BY <3>6
        <5>2. ASSUME NEW y \in Segmentos PROVE Ocupa(Tabla(y))
                \subseteq UNION {Ocupa(Tabla(z)') : z \in Segmentos'}
          BY <3>6
        <5>3. Ocupa(s) \subseteq UNION {Ocupa(Tabla(z)') : z \in Segmentos'}
          BY <3>6
        <5> QED
          BY <5>1, <5>2, <5>3
      <4>2. (0 .. b - 1) \cup (b .. b + n - 1) = 0 .. b + n - 1
        BY <3>8
      <4>3. UNION {Ocupa(Tabla(y)) : y \in Segmentos} = 0 .. b - 1
        BY <3>9
      <4> HIDE DEF Segmentos, Ocupa
      <4> QED
        BY <3>7, <4>1, <4>2, <4>3, Zenon
    <3>14. (0 .. CantidadLineas - 1) \ Ocupa(HuecoElegido') = 0 .. b + n - 1
      <4>1. Ocupa(HuecoElegido') = b + n .. b + n + (l - n) - 1
        BY <3>4 DEF Ocupa
      <4> QED
        BY <3>8, <4>1
    <3> QED
      BY <3>10, <3>12, <3>13, <3>14 DEF MemoriaRepartida, Ocupa
  <2> QED
    BY <2>3, <2>4
<1> QED
  BY <1>3, <1>4

-----------------------------------------------------------------------------
(* How the frames are shared *)

(* Two sequences without repetitions and with nothing in common make one *)
(* without repetitions.                                                  *)
LEMMA Concatenadas ==
    ASSUME NEW S, NEW s \in Seq(S), NEW g \in Seq(S)
    PROVE  /\ ToSet(s \o g) = ToSet(s) \cup ToSet(g)
           /\ (/\ IsInjective(s) /\ IsInjective(g)
               /\ ToSet(s) \cap ToSet(g) = {}) => IsInjective(s \o g)
<1> DEFINE a == Len(s)
           b == Len(g)
           r == s \o g
<1>1. /\ a \in Nat /\ b \in Nat /\ DOMAIN s = 1 .. a /\ DOMAIN g = 1 .. b
      /\ DOMAIN r = 1 .. a + b
      /\ \A i \in 1 .. a : r[i] = s[i]
      /\ \A i \in a + 1 .. a + b : r[i] = g[i - a]
  OBVIOUS
<1> HIDE DEF a, b, r
<1>2. \A i \in 1 .. b : i + a \in a + 1 .. a + b /\ (i + a) - a = i
  BY <1>1
<1>3. \A i \in a + 1 .. a + b : i - a \in 1 .. b
  BY <1>1
<1>4. \A i \in 1 .. a + b : i \in 1 .. a \/ i \in a + 1 .. a + b
  BY <1>1
<1>5. 1 .. a \subseteq 1 .. a + b /\ a + 1 .. a + b \subseteq 1 .. a + b
  BY <1>1
<1>6. ToSet(r) = ToSet(s) \cup ToSet(g)
  <2>1. ASSUME NEW x \in ToSet(r) PROVE x \in ToSet(s) \cup ToSet(g)
    BY <1>1, <1>3, <1>4 DEF ToSet
  <2>2. ASSUME NEW x \in ToSet(s) PROVE x \in ToSet(r)
    BY <1>1, <1>5 DEF ToSet
  <2>3. ASSUME NEW x \in ToSet(g) PROVE x \in ToSet(r)
    <3>1. PICK i \in 1 .. b : x = g[i]
      BY <1>1 DEF ToSet
    <3>2. r[i + a] = x /\ i + a \in DOMAIN r
      BY <1>1, <1>2, <1>5, <3>1
    <3> QED
      BY <3>2 DEF ToSet
  <2> QED
    BY <2>1, <2>2, <2>3
<1>7. ASSUME IsInjective(s), IsInjective(g), ToSet(s) \cap ToSet(g) = {}
      PROVE  IsInjective(r)
  <2> SUFFICES ASSUME NEW i \in 1 .. a + b, NEW j \in 1 .. a + b, r[i] = r[j]
               PROVE  i = j
    BY <1>1 DEF IsInjective
  <2>1. CASE i \in 1 .. a /\ j \in 1 .. a
    BY <1>1, <1>7, <2>1 DEF IsInjective
  <2>2. CASE i \in a + 1 .. a + b /\ j \in a + 1 .. a + b
    <3>1. g[i - a] = g[j - a] /\ i - a \in 1 .. b /\ j - a \in 1 .. b
      BY <1>1, <1>3, <2>2
    <3>2. i - a = j - a
      BY <1>1, <1>7, <3>1 DEF IsInjective
    <3> QED
      BY <1>1, <3>2
  <2>3. ASSUME NEW u \in 1 .. a, NEW v \in a + 1 .. a + b, r[u] = r[v]
        PROVE  FALSE
    <3>1. r[u] = s[u] /\ r[v] = g[v - a] /\ v - a \in 1 .. b
      BY <1>1, <1>3
    <3>2. s[u] \in ToSet(s) /\ g[v - a] \in ToSet(g)
      BY <1>1, <3>1 DEF ToSet
    <3> QED
      BY <1>7, <2>3, <3>1, <3>2
  <2> QED
    BY <1>4, <2>1, <2>2, <2>3
<1> QED
  BY <1>6, <1>7 DEF r

(* The file of a process takes frames: one segment of it has them after     *)
(* those it had, if it had any, and the other segments keep theirs.         *)
LEMMA PaginadoTabla ==
    ASSUME PaginadaTypeOK, NEW d \in Pids, NEW p \in Paths, NEW n \in Nat \ {0},
           Paginado(d, p, n),
           \A x \in Paginados : /\ IsInjective(paginadas[x[1]][x[2]].marcos)
                                /\ SusMarcos(x) \cap marcosLibres = {}
    PROVE  \E x, ant :
              /\ Paginados' = Paginados \cup {x}
              /\ IF x \in Paginados THEN ant = SusMarcos(x) ELSE ant = {}
              /\ ToSet(paginadas'[x[1]][x[2]].marcos) = ant \cup ToSet(MarcosAUsar(n))
              /\ IsInjective(paginadas'[x[1]][x[2]].marcos)
              /\ \A y \in Paginados :
                    y # x => paginadas'[y[1]][y[2]] = paginadas[y[1]][y[2]]
<1> DEFINE suyos == {k \in DOMAIN paginadas[d] : paginadas[d][k].archivo = p}
           g == MarcosAUsar(n)
           nuevo == [archivo |-> p, limite |-> Min({n, LineasPorPagina}), marcos |-> g]
<1>1. /\ g \in Seq(Marcos) /\ IsInjective(g)
      /\ ToSet(g) \subseteq marcosLibres \ {0}
  BY MarcosAUsarOK DEF PaginadaTypeOK, Paginado
<1>2. paginadas \in [Pids -> Seq(SegmentoPaginado)] /\ paginadas[d] \in Seq(SegmentoPaginado)
  BY DEF PaginadaTypeOK
<1>3. /\ paginadas' = [paginadas EXCEPT ![d] = TablaTras(d, p, n)]
      /\ TablaTras(d, p, n) \in Seq(SegmentoPaginado)
  BY TablaTrasOK DEF Paginado
<1>4. CASE suyos = {}
  <2>1. paginadas[d] = <<>>
    BY <1>4 DEF Paginado
  <2>2. TablaTras(d, p, n) = <<nuevo>>
    BY <1>4 DEF TablaTras
  <2>3. nuevo.marcos = g
    OBVIOUS
  <2> DEFINE x0 == <<d, Len(paginadas[d]) + 1>>
  <2> HIDE DEF nuevo, g
  <2>4. nuevo \in SegmentoPaginado
    BY <1>3, <2>2
  <2>5. <<nuevo>> = Append(paginadas[d], nuevo)
    BY <2>1
  <2>6. paginadas' = [paginadas EXCEPT ![d] = Append(paginadas[d], nuevo)]
    BY <1>3, <2>2, <2>5
  <2>7. UnLugarMas(paginadas, paginadas', x0, nuevo)
    BY <1>2, <2>4, <2>6, LugaresTras
  <2> HIDE DEF x0
  <2>8. /\ Paginados' = Paginados \cup {x0} /\ x0 \notin Paginados
        /\ paginadas'[x0[1]][x0[2]].marcos = g
        /\ \A y \in Paginados : y # x0 => paginadas'[y[1]][y[2]] = paginadas[y[1]][y[2]]
    BY <2>3, <2>7 DEF UnLugarMas, Paginados
  <2>9. ToSet(g) = {} \cup ToSet(g)
    OBVIOUS
  <2> QED
    BY <1>1, <2>8, <2>9 DEF g
<1>5. CASE suyos # {}
  <2> DEFINE k == Min(suyos)
             s == paginadas[d][k]
             x0 == <<d, k>>
  <2>1. suyos \in SUBSET Nat /\ suyos \subseteq DOMAIN paginadas[d]
    BY <1>2
  <2>2. k \in suyos
    <3> HIDE DEF suyos
    <3> QED
      BY <1>5, <2>1, MinimoOK
  <2>3. k \in DOMAIN paginadas[d]
    BY <2>1, <2>2
  <2>4. TablaTras(d, p, n) = [paginadas[d] EXCEPT ![k] = [s EXCEPT !.marcos = s.marcos \o g]]
    BY <1>2, <1>5, <2>3 DEF TablaTras
  <2> HIDE DEF k, g
  <2>5. s \in [archivo : Paths, limite : Nat, marcos : Seq(Marcos)]
    <3>1. s \in SegmentoPaginado
      BY <1>2, <2>3
    <3> QED
      BY <3>1 DEF SegmentoPaginado
  <2>6. /\ DOMAIN TablaTras(d, p, n) = DOMAIN paginadas[d]
        /\ TablaTras(d, p, n)[k].marcos = s.marcos \o g
        /\ \A j \in DOMAIN paginadas[d] :
              j # k => TablaTras(d, p, n)[j] = paginadas[d][j]
    <3> HIDE DEF s
    <3>1. [s EXCEPT !.marcos = s.marcos \o g].marcos = s.marcos \o g
      BY <2>5
    <3> QED
      BY <1>2, <2>3, <2>4, <3>1
  <2>7. /\ paginadas'[d] = TablaTras(d, p, n)
        /\ \A e \in Pids : e # d => paginadas'[e] = paginadas[e]
    BY <1>2, <1>3
  <2>8. Lugares(paginadas') = Lugares(paginadas) /\ x0 \in Lugares(paginadas)
    <3>1. \A e \in Pids : DOMAIN paginadas'[e] = DOMAIN paginadas[e]
      BY <2>6, <2>7
    <3>2. x0 \in Lugares(paginadas)
      BY <2>3, LugaresOK
    <3>3. \A x : x \in Lugares(paginadas') <=> x \in Lugares(paginadas)
      BY <3>1, LugaresOK
    <3> QED
      BY <3>2, <3>3
  <2>9. \A y \in Paginados : y # x0 => paginadas'[y[1]][y[2]] = paginadas[y[1]][y[2]]
    <3> SUFFICES ASSUME NEW y \in Lugares(paginadas), y # x0
                 PROVE  paginadas'[y[1]][y[2]] = paginadas[y[1]][y[2]]
      BY DEF Paginados
    <3>1. PICK e \in Pids : \E j \in DOMAIN paginadas[e] : y = <<e, j>>
      BY LugaresOK
    <3>2. PICK j \in DOMAIN paginadas[e] : y = <<e, j>>
      BY <3>1
    <3> QED
      BY <2>6, <2>7, <3>2
  <2>10. SusMarcos(x0) = ToSet(s.marcos) /\ x0 \in Paginados /\ Paginados' = Paginados
    BY <2>8 DEF SusMarcos, Paginados
  <2>11. paginadas'[x0[1]][x0[2]].marcos = s.marcos \o g
    BY <2>6, <2>7
  <2>12. IsInjective(s.marcos) /\ SusMarcos(x0) \cap marcosLibres = {}
    BY <2>10
  <2>13. s.marcos \in Seq(Marcos)
    BY <2>5
  <2> HIDE DEF s, x0
  <2>14. /\ ToSet(s.marcos \o g) = ToSet(s.marcos) \cup ToSet(g)
         /\ IsInjective(s.marcos \o g)
    <3>1. ToSet(s.marcos) \cap ToSet(g) = {}
      BY <1>1, <2>10, <2>12 DEF g
    <3> QED
      BY <1>1, <2>12, <2>13, <3>1, Concatenadas DEF g
  <2>15. /\ ToSet(paginadas'[x0[1]][x0[2]].marcos) = SusMarcos(x0) \cup ToSet(g)
         /\ IsInjective(paginadas'[x0[1]][x0[2]].marcos)
    BY <2>10, <2>11, <2>14
  <2>16. Paginados' = Paginados \cup {x0}
    BY <2>10
  <2> QED
    BY <2>9, <2>10, <2>15, <2>16 DEF g
<1> QED
  BY <1>4, <1>5

LEMMA PaginadoRepartido ==
    ASSUME PaginadaTypeOK, NEW d \in Pids, NEW p \in Paths, NEW n \in Nat \ {0},
           Paginado(d, p, n), MarcosRepartidos, "FM9" \notin caidos
    PROVE  MarcosRepartidos'
<1> DEFINE T == ToSet(MarcosAUsar(n))
<1>1. T \subseteq marcosLibres \ {0} /\ marcosLibres \subseteq Marcos
  BY MarcosAUsarOK DEF PaginadaTypeOK, Paginado
<1>2. /\ marcosLibres = Marcos \ UNION {SusMarcos(x) : x \in Paginados}
      /\ \A x, y \in Paginados : x # y => SusMarcos(x) \cap SusMarcos(y) = {}
      /\ \A x \in Paginados : IsInjective(paginadas[x[1]][x[2]].marcos)
      /\ Marcos # {} => 0 \in marcosLibres
  BY DEF MarcosRepartidos
<1>3. \A x \in Paginados : SusMarcos(x) \cap marcosLibres = {}
  BY <1>2
<1>4. PICK x, ant :
        /\ Paginados' = Paginados \cup {x}
        /\ IF x \in Paginados THEN ant = SusMarcos(x) ELSE ant = {}
        /\ ToSet(paginadas'[x[1]][x[2]].marcos) = ant \cup T
        /\ IsInjective(paginadas'[x[1]][x[2]].marcos)
        /\ \A y \in Paginados :
              y # x => paginadas'[y[1]][y[2]] = paginadas[y[1]][y[2]]
  BY <1>2, <1>3, PaginadoTabla
<1> HIDE DEF T
<1>5. /\ SusMarcos(x)' = ant \cup T
      /\ \A y \in Paginados : y # x => SusMarcos(y)' = SusMarcos(y)
  BY <1>4 DEF SusMarcos
<1>6. marcosLibres' = marcosLibres \ T
  BY DEF Paginado, T
<1>7. UNION {SusMarcos(y)' : y \in Paginados'}
        = (UNION {SusMarcos(y) : y \in Paginados}) \cup T
  <2>1. ASSUME NEW y \in Paginados' PROVE SusMarcos(y)'
          \subseteq (UNION {SusMarcos(z) : z \in Paginados}) \cup T
    BY <1>4, <1>5
  <2>2. ASSUME NEW y \in Paginados PROVE SusMarcos(y)
          \subseteq UNION {SusMarcos(z)' : z \in Paginados'}
    BY <1>4, <1>5
  <2>3. T \subseteq UNION {SusMarcos(z)' : z \in Paginados'}
    BY <1>4, <1>5
  <2> QED
    BY <2>1, <2>2, <2>3
<1>8. marcosLibres' = Marcos \ UNION {SusMarcos(y)' : y \in Paginados'}
  BY <1>2, <1>6, <1>7
<1>9. ASSUME NEW y \in Paginados, y # x
      PROVE  SusMarcos(y)' \cap SusMarcos(x)' = {}
  BY <1>1, <1>2, <1>3, <1>4, <1>5, <1>9
<1>10. ASSUME NEW y \in Paginados', NEW z \in Paginados', y # z
       PROVE  SusMarcos(y)' \cap SusMarcos(z)' = {}
  BY <1>2, <1>4, <1>5, <1>9, <1>10
<1>11. \A y \in Paginados' : IsInjective(paginadas'[y[1]][y[2]].marcos)
  BY <1>2, <1>4
<1>12. Marcos # {} => 0 \in marcosLibres'
  BY <1>1, <1>2, <1>6
<1> QED
  BY <1>8, <1>10, <1>11, <1>12 DEF MarcosRepartidos, Marcos, SusMarcos

-----------------------------------------------------------------------------
(* The steps of the system, and the theorems *)

InvMemoria == TypeOK /\ UnHueco /\ MemoriaRepartida /\ MarcosRepartidos

LEMMA NadaDeLosHuecos ==
    ASSUME UnHueco, MemoriaRepartida, UNCHANGED <<huecos, tablas>>
    PROVE  UnHueco' /\ MemoriaRepartida'
<1>1. huecos' = huecos /\ HuecoElegido' = HuecoElegido
  BY DEF HuecoElegido
<1>2. Segmentos' = Segmentos /\ \A x : Tabla(x)' = Tabla(x)
  BY DEF Segmentos, Lugares, Tabla
<1>3. UnHueco'
  BY <1>1 DEF UnHueco
<1>4. MemoriaRepartida'
  <2> SUFFICES ASSUME huecos # <<>>
               PROVE  /\ \A x, y \in Segmentos :
                            x # y => Ocupa(Tabla(x)') \cap Ocupa(Tabla(y)') = {}
                      /\ UNION {Ocupa(Tabla(x)') : x \in Segmentos}
                           = (0 .. CantidadLineas - 1) \ Ocupa(HuecoElegido)
    BY <1>1, <1>2 DEF MemoriaRepartida, Ocupa
  <2> QED
    BY <1>2 DEF MemoriaRepartida
<1> QED
  BY <1>3, <1>4

LEMMA NadaDeLosMarcos ==
    ASSUME MarcosRepartidos, UNCHANGED <<marcosLibres, paginadas>>, caidos \subseteq caidos'
    PROVE  MarcosRepartidos'
<1>1. Paginados' = Paginados /\ \A x : SusMarcos(x)' = SusMarcos(x)
  BY DEF Paginados, Lugares, SusMarcos
<1>2. "FM9" \notin caidos' => "FM9" \notin caidos
  OBVIOUS
<1> QED
  BY <1>1, <1>2 DEF MarcosRepartidos, Marcos

(* Nothing of FM9 changes but, perhaps, that it is down. *)
LEMMA NadaDeLaMemoria ==
    ASSUME UnHueco, MemoriaRepartida, MarcosRepartidos,
           UNCHANGED <<huecos, tablas, marcosLibres, paginadas>>, caidos \subseteq caidos'
    PROVE  UnHueco' /\ MemoriaRepartida' /\ MarcosRepartidos'
  BY NadaDeLosHuecos, NadaDeLosMarcos

LEMMA CargarMemoria ==
    ASSUME InvMemoria, NEW dir, Cargar(dir)
    PROVE  UnHueco' /\ MemoriaRepartida' /\ MarcosRepartidos'
<1>1. dam \in Dam /\ FM9TypeOK /\ PaginadaTypeOK
  BY DEF InvMemoria, TypeOK, Dam, FM9TypeOK
<1> USE DEF InvMemoria
<1>2. dam.pid \in Pids /\ dam.path \in Paths /\ dam.parte.datos \in Seq(Bytes)
  BY <1>1, DamOK
<1>3. CASE UNCHANGED <<memoriaFM9, caidos>>
  BY <1>3, NadaDeLaMemoria DEF memoriaFM9, fm9, paginacion
<1>4. CASE /\ CargarParte(dam.pid, dam.path, dam.parte.datos, dam.parte.total, dir)
           /\ UNCHANGED <<paginacion, caidos>>
  <2>1. UnHueco' /\ MemoriaRepartida'
    BY <1>1, <1>2, <1>4, CargarParteMemoria
  <2>2. MarcosRepartidos'
    BY <1>4, NadaDeLosMarcos DEF paginacion
  <2> QED
    BY <2>1, <2>2
<1>5. CASE /\ CargarPartePaginada(dam.pid, dam.path, dam.parte.datos, dam.parte.total, dir)
           /\ "FM9" \notin caidos
  <2>1. /\ UNCHANGED <<huecos, tablas>> /\ caidos \subseteq caidos'
        /\ \/ UNCHANGED <<marcosLibres, paginadas>>
           \/ \E n \in Nat \ {0} : Paginado(dam.pid, dam.path, n)
    BY <1>1, <1>2, <1>5, CargarPartePaginadaOK
  <2>2. CASE UNCHANGED <<marcosLibres, paginadas>>
    BY <2>1, <2>2, NadaDeLaMemoria
  <2>3. ASSUME NEW n \in Nat \ {0}, Paginado(dam.pid, dam.path, n)
        PROVE  UnHueco' /\ MemoriaRepartida' /\ MarcosRepartidos'
    <3>1. MarcosRepartidos'
      BY <1>1, <1>2, <1>5, <2>3, PaginadoRepartido
    <3>2. UnHueco' /\ MemoriaRepartida'
      BY <2>1, NadaDeLosHuecos
    <3> QED
      BY <3>1, <3>2
  <2> QED
    BY <2>1, <2>2, <2>3
<1> QED
  BY <1>3, <1>4, <1>5 DEF Cargar, CargarParteEnMemoria

LEMMA InicioMemoria == Init => InvMemoria
<1> SUFFICES ASSUME Init PROVE InvMemoria
  OBVIOUS
<1>1. UnHueco
  <2>1. huecos = <<[base |-> 0, limite |-> CantidadLineas]>>
    BY DEF Init, FM9Init, SegmentacionInit
  <2>2. HuecoElegido = [base |-> 0, limite |-> CantidadLineas]
    BY <2>1 DEF HuecoElegido
  <2>3. Len(huecos) = 1
    BY <2>1
  <2> QED
    BY <2>2, <2>3, SegmentacionAssumption DEF UnHueco
<1>2. tablas = [d \in Pids |-> <<>>] /\ paginadas = [d \in Pids |-> <<>>]
  BY DEF Init, FM9Init, SegmentacionInit, PaginadaInit
<1>3. Segmentos = {} /\ Paginados = {}
  BY <1>2 DEF Segmentos, Paginados, Lugares
<1>4. MemoriaRepartida
  <2>1. HuecoElegido = [base |-> 0, limite |-> CantidadLineas]
    BY DEF Init, FM9Init, SegmentacionInit, HuecoElegido
  <2>2. Ocupa(HuecoElegido) = 0 .. CantidadLineas - 1
    BY <2>1, SegmentacionAssumption DEF Ocupa
  <2> QED
    BY <1>3, <2>2 DEF MemoriaRepartida
<1>5. MarcosRepartidos
  <2>1. marcosLibres = Marcos
    BY DEF Init, FM9Init, PaginadaInit
  <2>2. Marcos # {} => 0 \in Marcos
    <3> DEFINE q == CantidadLineas \div LineasPorPagina - 1
    <3>1. q \in Int
      BY DivisionOK, SegmentacionAssumption, SegmentacionPaginadaAssumption
    <3>2. Marcos = 0 .. q
      BY DEF Marcos
    <3> HIDE DEF q
    <3> QED
      BY <3>1, <3>2
  <2> QED
    BY <1>3, <2>1, <2>2 DEF MarcosRepartidos
<1> QED
  BY <1>1, <1>4, <1>5, InicioTipos DEF InvMemoria

(* Whoever does not load leaves FM9 as it was, or ends it. *)
LEMMA PasoMemoria == InvMemoria /\ [Next]_vars => InvMemoria'
<1> SUFFICES ASSUME InvMemoria, [Next]_vars PROVE InvMemoria'
  OBVIOUS
<1>1. TypeOK'
  BY PasoTipos DEF InvMemoria
<1>2. CASE \E dir \in Direcciones : Cargar(dir)
  BY <1>1, <1>2, CargarMemoria DEF InvMemoria
<1>3. CASE UNCHANGED memoriaFM9 /\ caidos \subseteq caidos'
  BY <1>1, <1>3, NadaDeLaMemoria DEF InvMemoria, memoriaFM9, fm9, paginacion
<1>4. ASSUME PasoDAM
      PROVE  (\E dir \in Direcciones : Cargar(dir)) \/ (UNCHANGED memoriaFM9 /\ caidos \subseteq caidos')
  BY <1>4 DEF PasoDAM, PedirDatos, Medir, CargarFragmento, CargarUltimo, CargarSinFM9,
              InformarExito, InformarFallo, Informar, CaeDAM
<1>5. ASSUME NEW p \in Paths, Consola(p)
      PROVE  UNCHANGED memoriaFM9 /\ caidos \subseteq caidos'
  BY <1>5 DEF Consola
<1>6. ASSUME NEW d \in Pids, NEW p \in Paths, AbrirPath(d, p)
      PROVE  UNCHANGED memoriaFM9 /\ caidos \subseteq caidos'
  BY <1>6 DEF AbrirPath
<1>7. CASE UNCHANGED vars
  BY <1>3, <1>7 DEF vars
<1> QED
  BY <1>2, <1>3, <1>4, <1>5, <1>6, <1>7 DEF Next

(* The invariant of the memory of FM9, which the theorems about the system  *)
(* need too: its lines and its frames are shared out, in whatever order     *)
(* fragments, failures and processes come.                                  *)
THEOREM InvarianteDeMemoria == Spec => []InvMemoria
<1> QED
  BY InicioMemoria, PasoMemoria, PTL DEF Spec

-----------------------------------------------------------------------------
(* What MDJ gives of a file, when a request does not exceed a block *)

(* A number has one quotient and one rest. *)
LEMMA DivisionUnica ==
    ASSUME NEW a \in Nat, NEW b \in Nat \ {0}, NEW q \in Nat, NEW r \in 0 .. b - 1,
           a = b * q + r
    PROVE  a \div b = q /\ a % b = r
<1> DEFINE p == a \div b
           m == a % b
<1>1. p \in Nat /\ m \in 0 .. b - 1 /\ a = b * p + m
  BY DivisionOK
<1> HIDE DEF p, m
<1>2. ASSUME q < p  PROVE FALSE
  <2>1. PICK k \in Nat : p = q + 1 + k
    <3>1. p - (q + 1) \in Nat
      BY <1>1, <1>2
    <3> QED  BY <1>1, <3>1
  <2>2. b * p = b * q + b + b * k
    BY <1>1, <2>1
  <2>3. b * k >= 0 /\ b * q \in Nat
    BY <2>1
  <2> QED  BY <1>1, <2>2, <2>3
<1>3. ASSUME p < q  PROVE FALSE
  <2>1. PICK k \in Nat : q = p + 1 + k
    <3>1. q - (p + 1) \in Nat
      BY <1>1, <1>3
    <3> QED  BY <1>1, <3>1
  <2>2. b * q = b * p + b + b * k
    BY <1>1, <2>1
  <2>3. b * k >= 0 /\ b * p \in Nat
    BY <1>1, <2>1
  <2> QED  BY <1>1, <2>2, <2>3
<1>4. p = q
  BY <1>1, <1>2, <1>3
<1> QED  BY <1>1, <1>4 DEF p, m

(* A read of a block at most goes through one block, or through the end of   *)
(* one and the start of the next: its offsets follow each other.             *)
LEMMA PosicionesSeguidas ==
    ASSUME NEW o \in Nat, NEW s \in 1 .. TamanioBloques
    PROVE  Posiciones(o, s) = [k \in 1 .. s |-> o + k - 1]
<1> DEFINE b == TamanioBloques
           q == Primero(o)
           r == o % TamanioBloques
           g == Tras(o, s)
<1>1. b \in Nat \ {0} /\ q \in Nat /\ r \in 0 .. b - 1 /\ o = b * q + r
  BY DivisionOK, TransferenciaAssumption DEF Primero
<1>0. s \in Nat
  BY TransferenciaAssumption
<1>2. /\ Posiciones(o, s) = g[Ultimo(o, s)]
      /\ g[q - 1] = <<>>
      /\ \A i \in q .. Ultimo(o, s) : g[i] = Agregar(g[i - 1], i, o, s)
      /\ Ultimo(o, s) \in Nat
  BY <1>0, TrasOK
<1> HIDE DEF b, q, r, g
<1>3. s \in Nat \ {0} /\ s <= b /\ b * q \in Nat
  BY <1>1 DEF b
<1>4. CASE r + s < b
  <2>1. Ultimo(o, s) = q
    <3>1. o + s = b * q + (r + s) /\ r + s \in 0 .. b - 1 /\ o + s \in Nat
      BY <1>1, <1>3, <1>4
    <3>2. (o + s) \div b = q
      BY <1>1, <3>1, DivisionUnica
    <3> QED  BY <3>2 DEF Ultimo, b
  <2>2. g[q] = Agregar(<<>>, q, o, s)
    BY <1>1, <1>2, <2>1
  <2>3. Agregar(<<>>, q, o, s) = <<>> \o [k \in 1 .. s |-> q * b + r + k - 1]
    <3>1. Len(<<>>) = 0 /\ s - 0 = s /\ 0 + o = o
      BY <1>1, <1>3
    <3>2. Menor(b - r, s) = s
      BY <1>1, <1>3, <1>4 DEF Menor
    <3> QED  BY <1>1, <1>3, <2>1, <3>1, <3>2 DEF Agregar, Ultimo, b, r
  <2> DEFINE f == [k \in 1 .. s |-> q * b + r + k - 1]
  <2>4. f = [k \in 1 .. s |-> o + k - 1]
    BY <1>1, <1>3
  <2>5. f \in Seq(Nat)
    <3>1. \A k \in 1 .. s : o + k - 1 \in Nat
      BY <1>1
    <3> QED  BY <1>3, <2>4, <3>1
  <2> HIDE DEF f
  <2>6. <<>> \o f = f
    BY <2>5
  <2> QED  BY <1>2, <2>1, <2>2, <2>3, <2>4, <2>6 DEF f
<1>5. CASE r + s >= b
  <2>1. Ultimo(o, s) = q + 1
    <3>1. /\ o + s = b * (q + 1) + (r + s - b) /\ r + s - b \in 0 .. b - 1
          /\ o + s \in Nat /\ q + 1 \in Nat
      BY <1>1, <1>3, <1>5
    <3>2. (o + s) \div b = q + 1
      BY <1>1, <3>1, DivisionUnica
    <3> QED  BY <3>2 DEF Ultimo, b
  <2> DEFINE c == b - r
             f == [k \in 1 .. c |-> q * b + r + k - 1]
             h == [k \in 1 .. s - c |-> (q + 1) * b + 0 + k - 1]
  <2>2. c \in Nat \ {0} /\ c <= s
    BY <1>1, <1>3, <1>5
  <2>3. g[q] = Agregar(<<>>, q, o, s) /\ g[q + 1] = Agregar(g[q], q + 1, o, s)
    <3>1. q \in q .. q + 1 /\ q + 1 \in q .. q + 1 /\ (q + 1) - 1 = q
      BY <1>1
    <3> QED  BY <1>2, <2>1, <3>1
  <2>4. Agregar(<<>>, q, o, s) = <<>> \o f
    <3>1. Len(<<>>) = 0 /\ 0 + o = o /\ q # q + 1
      BY <1>1
    <3>2. Menor(b - r, s) = c
      BY <1>1, <1>3, <2>2 DEF Menor
    <3>3. q # (o + s) \div TamanioBloques
      BY <2>1, <3>1 DEF Ultimo
    <3> QED  BY <1>1, <1>3, <3>1, <3>2, <3>3 DEF Agregar, b, r
  <2>5. f \in Seq(Nat) /\ Len(f) = c
    <3>1. \A k \in 1 .. c : q * b + r + k - 1 \in Nat
      BY <1>1, <1>3
    <3> HIDE DEF c
    <3> QED  BY <2>2, <3>1
  <2>6. g[q] = f
    <3> HIDE DEF f
    <3> QED  BY <2>3, <2>4, <2>5
  <2>7. Agregar(f, q + 1, o, s) = f \o h
    <3>1. (c + o) % b = 0
      <4>1. c + o = b * (q + 1) + 0 /\ 0 \in 0 .. b - 1 /\ c + o \in Nat /\ q + 1 \in Nat
        BY <1>1, <2>2
      <4> QED  BY <1>1, <4>1, DivisionUnica
    <3>2. q + 1 = (o + s) \div TamanioBloques /\ q + 1 # 0
      BY <1>1, <2>1 DEF Ultimo
    <3> HIDE DEF f, c
    <3> QED  BY <2>5, <3>1, <3>2 DEF Agregar, b
  <2>8. h \in Seq(Nat) /\ Len(h) = s - c
    <3>1. \A k \in 1 .. s - c : (q + 1) * b + 0 + k - 1 \in Nat
      BY <1>1, <1>3
    <3>2. s - c \in Nat
      BY <1>3, <2>2
    <3> HIDE DEF c
    <3> QED  BY <3>1, <3>2
  <2>9. f \o h = [k \in 1 .. s |-> o + k - 1]
    <3>1. /\ \A k \in 1 .. c : f[k] = o + k - 1
          /\ \A k \in 1 .. s - c : h[k] = o + (k + c) - 1
      <4>1. q * b + r = o /\ (q + 1) * b + 0 = o + c
        BY <1>1
      <4> HIDE DEF c
      <4>2. ASSUME NEW k \in 1 .. c  PROVE f[k] = o + k - 1
        BY <4>1
      <4>3. ASSUME NEW k \in 1 .. s - c  PROVE h[k] = o + (k + c) - 1
        <5>1. h[k] = o + c + k - 1
          BY <4>1
        <5> QED  BY <5>1, <2>2, <1>1
      <4> QED  BY <4>2, <4>3
    <3> HIDE DEF c, f, h
    <3>2. f \o h \in Seq(Nat) /\ Len(f \o h) = s
      BY <1>3, <2>2, <2>5, <2>8
    <3>3. ASSUME NEW k \in 1 .. s  PROVE (f \o h)[k] = o + k - 1
      <4>1. CASE k <= c
        BY <1>3, <2>2, <2>5, <2>8, <3>1, <4>1
      <4>2. CASE k > c
        <5>1. k - c \in 1 .. s - c /\ (k - c) + c = k
          BY <1>3, <2>2, <4>2
        <5>2. (f \o h)[k] = h[k - c]
          BY <1>3, <2>2, <2>5, <2>8, <4>2, <5>1
        <5> QED  BY <3>1, <5>1, <5>2
      <4>3. k <= c \/ k > c
        BY <1>3, <2>2
      <4> QED  BY <4>1, <4>2, <4>3
    <3> DEFINE w == f \o h
    <3>4. w \in Seq(Nat) /\ Len(w) = s /\ s \in Nat
      BY <1>3, <3>2
    <3>5. \A k \in 1 .. s : w[k] = o + k - 1
      BY <3>3
    <3> HIDE DEF w
    <3>6. DOMAIN w = 1 .. s /\ w = [k \in DOMAIN w |-> w[k]]
      BY <3>4
    <3>7. w = [k \in 1 .. s |-> o + k - 1]
      BY <3>5, <3>6
    <3> QED  BY <3>7 DEF w
  <2> QED  BY <1>2, <2>1, <2>3, <2>6, <2>7, <2>9
<1> QED  BY <1>1, <1>3, <1>4, <1>5

(* The answer of a file of contents c to a read: nothing, when there are no  *)
(* such blocks; or s bytes, or those of them that are of the file.           *)
Leido(c, o, s, r) ==
    \/ r = Fallo /\ Ultimo(o, s) > Len(c) \div TamanioBloques
    \/ /\ r.size = s
       /\ r.datos \in Seq(Bytes)
       /\ Len(r.datos) \in {s, Cardinality({k \in 1 .. s : o + k - 1 < Len(c)})}
       /\ \A k \in 1 .. s : k <= Len(r.datos) /\ o + k <= Len(c) => r.datos[k] = c[o + k]

(* So is it for a read of at most one block. *)
LEMMA LecturaDeUnBloque ==
    ASSUME archivos \in [Paths -> Seq(Bytes) \cup {NoExiste}],
           NEW p \in Paths, p \notin Ilegibles, archivos[p] # NoExiste,
           NEW o \in Nat, NEW s \in 1 .. TamanioBloques, NEW r \in Obtenidos(p, o, s)
    PROVE  Leido(archivos[p], o, s, r)
<1> DEFINE c == archivos[p]
           pos == Posiciones(o, s)
           leido == [k \in DOMAIN pos |-> IF pos[k] < Len(c) THEN c[pos[k] + 1] ELSE Basura]
           S == {k \in DOMAIN pos : pos[k] < Len(c)}
           T == {k \in 1 .. s : o + k - 1 < Len(c)}
           m == Cardinality(T)
<1>1. c \in Seq(Bytes) /\ Len(c) \in Nat /\ s \in Nat \ {0} /\ Basura \in Bytes
  BY TransferenciaAssumption, SegmentacionPaginadaAssumption
<1>2. pos = [k \in 1 .. s |-> o + k - 1]
  BY PosicionesSeguidas
<1>3. DOMAIN pos = 1 .. s /\ \A k \in 1 .. s : pos[k] = o + k - 1
  BY <1>2
<1>4. S = T
  <2> HIDE DEF pos, c
  <2> QED  BY <1>3
<1>5. m \in 0 .. s
  <2>1. IsFiniteSet(1 .. s) /\ Cardinality(1 .. s) = s
    <3>1. 1 \in Int /\ s \in Int
      BY <1>1
    <3>2. IsFiniteSet(1 .. s) /\ Cardinality(1 .. s) = IF 1 > s THEN 0 ELSE s - 1 + 1
      BY <3>1, FS_Interval
    <3> QED  BY <1>1, <3>2
  <2> DEFINE I == 1 .. s
  <2>2. T \in SUBSET I
    OBVIOUS
  <2> HIDE DEF T, I
  <2>5. IsFiniteSet(I) /\ Cardinality(I) = s
    BY <2>1 DEF I
  <2>6. IsFiniteSet(T) /\ Cardinality(T) <= Cardinality(I)
    BY <2>2, <2>5, FS_Subset
  <2>3. IsFiniteSet(T) /\ Cardinality(T) <= s
    BY <2>5, <2>6
  <2>4. Cardinality(T) \in Nat
    BY <2>3, FS_CardinalityType
  <2> QED  BY <1>1, <2>3, <2>4
<1>6. /\ leido \in Seq(Bytes) /\ Len(leido) = s
      /\ \A k \in 1 .. s : o + k <= Len(c) => leido[k] = c[o + k]
  <2> HIDE DEF pos, c
  <2>1. leido = [k \in 1 .. s |-> IF o + k - 1 < Len(c) THEN c[o + k] ELSE Basura]
    <3>1. \A k \in 1 .. s : pos[k] + 1 = o + k
      BY <1>3
    <3> QED  BY <1>3, <3>1
  <2>2. \A k \in 1 .. s : o + k - 1 < Len(c) => o + k \in 1 .. Len(c)
    BY <1>1
  <2>3. \A k \in 1 .. s : (IF o + k - 1 < Len(c) THEN c[o + k] ELSE Basura) \in Bytes
    BY <1>1, <2>2
  <2>4. \A k \in 1 .. s : o + k <= Len(c) => o + k - 1 < Len(c)
    BY <1>1
  <2> HIDE DEF leido
  <2> QED  BY <1>1, <2>1, <2>3, <2>4
<1>7. CASE (o + s) \div TamanioBloques > Len(c) \div TamanioBloques
  <2>1. r = Fallo
    BY <1>1, <1>7 DEF Obtenidos
  <2> QED  BY <1>7, <2>1 DEF Ultimo, Leido
<1>8. CASE ~ ((o + s) \div TamanioBloques > Len(c) \div TamanioBloques)
  <2>1. r \in {[size |-> s, datos |-> l, total |-> 0] :
                 l \in {leido, SubSeq(leido, 1, Cardinality(S))}}
    <3>1. ~ (c = NoExiste \/ p \in Ilegibles \/ s <= 0)
      BY <1>1
    <3> QED  BY <1>8, <3>1 DEF Obtenidos
  <2> HIDE DEF leido, S, T, c
  <2>2. PICK l \in {leido, SubSeq(leido, 1, m)} : r = [size |-> s, datos |-> l, total |-> 0]
    BY <1>4, <2>1
  <2>3. r.size = s /\ r.datos = l
    BY <2>2
  <2> HIDE DEF m
  <2>4. CASE l = leido
    BY <1>6, <2>3, <2>4 DEF T, m, c, Leido
  <2>5. CASE l = SubSeq(leido, 1, m)
    <3>1. l \in Seq(Bytes) /\ Len(l) = m /\ \A k \in 1 .. m : l[k] = leido[k]
      BY <1>1, <1>5, <1>6, <2>5
    <3>2. Len(r.datos) = Cardinality({k \in 1 .. s : o + k - 1 < Len(archivos[p])})
      BY <2>3, <3>1 DEF m, T, c
    <3>3. ASSUME NEW k \in 1 .. s, k <= Len(l), o + k <= Len(c)
          PROVE  l[k] = c[o + k]
      <4>1. k \in 1 .. m
        BY <1>5, <3>1, <3>3
      <4> QED  BY <1>6, <3>1, <3>3, <4>1
    <3> QED  BY <2>3, <3>1, <3>2, <3>3 DEF c, Leido
  <2> QED  BY <2>2, <2>4, <2>5
<1> QED  BY <1>7, <1>8

(* What the file has in the blocks that are read is given whole. *)
LEMMA ObtenidosEnteros ==
    ASSUME archivos \in [Paths -> Seq(Bytes) \cup {NoExiste}],
           NEW p \in Paths, p \notin Ilegibles, archivos[p] # NoExiste,
           NEW o \in Nat, NEW s \in 1 .. TamanioBloques,
           o + s <= Len(archivos[p]), NEW r \in Obtenidos(p, o, s)
    PROVE  r.size = s /\ r.datos = SubSeq(archivos[p], o + 1, o + s)
<1> DEFINE c == archivos[p]
           T == {k \in 1 .. s : o + k - 1 < Len(c)}
<1>1. /\ c \in Seq(Bytes) /\ Len(c) \in Nat /\ s \in Nat \ {0}
      /\ TamanioBloques \in Nat \ {0}
  BY TransferenciaAssumption
<1>2. ~ (Ultimo(o, s) > Len(c) \div TamanioBloques)
  <2>1. o + s \in Nat /\ o + s <= Len(c)
    BY <1>1
  <2>2. (o + s) \div TamanioBloques <= Len(c) \div TamanioBloques
    BY <1>1, <2>1, DivisionMonotona
  <2>3. (o + s) \div TamanioBloques \in Nat /\ Len(c) \div TamanioBloques \in Nat
    BY <1>1, <2>1, DivisionOK
  <2> QED  BY <2>2, <2>3 DEF Ultimo
<1>3. Cardinality(T) = s
  <2>1. T = 1 .. s
    <3>1. \A k \in 1 .. s : o + k - 1 < Len(c)
      <4> HIDE DEF c
      <4>1. o + s <= Len(c)
        BY DEF c
      <4> QED  BY <1>1, <4>1
    <3> HIDE DEF c
    <3> QED  BY <3>1
  <2>2. 1 \in Int /\ s \in Int
    BY <1>1
  <2>3. Cardinality(1 .. s) = IF 1 > s THEN 0 ELSE s - 1 + 1
    BY <2>2, FS_Interval
  <2> HIDE DEF T
  <2>4. Cardinality(T) = IF 1 > s THEN 0 ELSE s - 1 + 1
    BY <2>1, <2>3
  <2> QED  BY <1>1, <2>4
<1>4. /\ r.size = s
      /\ r.datos \in Seq(Bytes)
      /\ Len(r.datos) \in {s, Cardinality(T)}
      /\ \A k \in 1 .. s : k <= Len(r.datos) /\ o + k <= Len(c) => r.datos[k] = c[o + k]
  <2>1. Leido(archivos[p], o, s, r)
    BY LecturaDeUnBloque
  <2> QED  BY <1>2, <2>1, Zenon DEF Leido
<1> HIDE DEF T, c
<1>5. Len(r.datos) = s /\ \A k \in 1 .. s : r.datos[k] = c[o + k]
  BY <1>1, <1>3, <1>4 DEF c
<1> DEFINE w == SubSeq(c, o + 1, o + s)
<1>6. w \in Seq(Bytes) /\ Len(w) = s /\ \A k \in 1 .. s : w[k] = c[o + k]
  <2>1. \A k \in 1 .. s : o + 1 + k - 1 = o + k
    BY <1>1
  <2>2. o + s <= Len(c)
    BY DEF c
  <2> QED  BY <1>1, <2>1, <2>2
<1> HIDE DEF w
<1> DEFINE v == r.datos
<1>7. v \in Seq(Bytes) /\ Len(v) = s /\ \A k \in 1 .. s : v[k] = w[k]
  BY <1>4, <1>5, <1>6
<1> HIDE DEF v
<1>8. v = w
  BY <1>1, <1>6, <1>7
<1> QED  BY <1>4, <1>8 DEF v, w, c

(* Of a file that is shorter than the read, the answer is a failure, or     *)
(* takes as much as the file.                                               *)
LEMMA ObtenidosCortos ==
    ASSUME archivos \in [Paths -> Seq(Bytes) \cup {NoExiste}],
           NEW p \in Paths, p \notin Ilegibles, archivos[p] # NoExiste,
           NEW s \in 1 .. TamanioBloques, Len(archivos[p]) < s,
           NEW r \in Obtenidos(p, 0, s)
    PROVE  \/ r = Fallo
           \/ r.size = s /\ r.datos \in Seq(Bytes) /\ Len(r.datos) >= Len(archivos[p])
<1> DEFINE c == archivos[p]
           n == Len(c)
           T == {k \in 1 .. s : 0 + k - 1 < Len(archivos[p])}
<1>1. n \in Nat /\ s \in Nat \ {0} /\ n < s
  BY TransferenciaAssumption
<1>2. Cardinality(T) = n
  <2>1. T = {k \in 1 .. s : 0 + k - 1 < n}
    OBVIOUS
  <2> HIDE DEF T, n
  <2>2. T = 1 .. n
    BY <1>1, <2>1
  <2>3. 1 \in Int /\ n \in Int
    BY <1>1
  <2>4. Cardinality(1 .. n) = IF 1 > n THEN 0 ELSE n - 1 + 1
    BY <2>3, FS_Interval
  <2> QED  BY <1>1, <2>2, <2>4
<1>3. 0 \in Nat
  OBVIOUS
<1>4. \/ r = Fallo
      \/ r.size = s /\ r.datos \in Seq(Bytes) /\ Len(r.datos) \in {s, Cardinality(T)}
  <2>1. Leido(archivos[p], 0, s, r)
    BY <1>3, LecturaDeUnBloque
  <2> QED  BY <2>1, Zenon DEF Leido
<1> HIDE DEF T
<1>5. n = Len(archivos[p])
  OBVIOUS
<1> HIDE DEF n
<1> QED  BY <1>1, <1>2, <1>4, <1>5

-----------------------------------------------------------------------------
(* What a transfer that nobody disturbs has done so far *)

(* FM9 has nothing of process "d" but the file that is being loaded. *)
Exacto(d) == modo = "SEG" \/ paginadas[d] = <<>>

Limpio(d) == Exacto(d) => cargandose[d] = <<>> /\ d \notin sueltos

EntradaBien(d, p, dir) ==
    IF modo = "SEG"
    THEN dir + 1 \in DOMAIN tablas[d] /\ tablas[d][dir + 1].archivo = p
    ELSE dir + 1 \in DOMAIN paginadas[d] /\ paginadas[d][dir + 1].archivo = p

UnSegmento == \A d \in Pids : Len(paginadas[d]) <= 1

(* What a load for process "d" leaves to the others, and of the segments    *)
Ajenos(d) ==
    /\ modo' = modo /\ UnSegmento'
    /\ \A e \in Pids \ {d} :
          /\ cargandose'[e] = cargandose[e] /\ paginadas'[e] = paginadas[e]
          /\ e \in sueltos' => e \in sueltos
    /\ \A e \in Pids, p \in Paths, k \in Int :
          EntradaBien(e, p, k) => EntradaBien(e, p, k)'

(* The fragment goes after what was in the buffer. *)
Guardado(d, trozo) ==
    /\ paginadas'[d] = paginadas[d]
    /\ Len(cargandose'[d]) = Len(cargandose[d]) + Len(trozo)
    /\ d \notin sueltos =>
          d \notin sueltos' /\ cargandose'[d] = cargandose[d] \o trozo

(* The file has become a segment. *)
Cargado(d, p, trozo, dir) ==
    /\ EntradaBien(d, p, dir)'
    /\ IF modo = "SEG"
       THEN cargandose'[d] = <<>> /\ (d \in sueltos' => d \in sueltos)
       ELSE /\ paginadas'[d] # <<>>
            /\ Len(cargandose'[d]) = Len(cargandose[d]) + Len(trozo)

Efecto(d, p, trozo, todos, dir) ==
    /\ Ajenos(d)
    /\ \/ dir = -1
       \/ Len(cargandose[d]) + Len(trozo) < todos /\ Guardado(d, trozo)
       \/ Len(cargandose[d]) + Len(trozo) >= todos /\ Cargado(d, p, trozo, dir)

LEMMA EfectoEnMemoria ==
    ASSUME FM9TypeOK, UnSegmento, modo = "SEG", modo' = modo, UNCHANGED paginacion,
           NEW d \in Pids, NEW p \in Paths, NEW trozo \in Seq(Bytes), NEW todos, NEW dir,
           CargarParte(d, p, trozo, todos, dir)
    PROVE  Efecto(d, p, trozo, todos, dir)
<1> DEFINE b == cargandose[d] \o trozo
           ls == Lineas(b)
           n == Len(ls)
           s == [base |-> NuevaBase(n), limite |-> n, archivo |-> p]
<1>1. /\ cargandose \in [Pids -> Seq(Bytes)] /\ tablas \in [Pids -> Seq(Segmento)]
      /\ cargandose[d] \in Seq(Bytes) /\ tablas[d] \in Seq(Segmento)
  BY DEF FM9TypeOK, SegmentacionTypeOK
<1>2. Len(b) = Len(cargandose[d]) + Len(trozo)
  BY <1>1
<1>3. UnSegmento' /\ paginadas' = paginadas /\ sueltos' = sueltos
  BY DEF UnSegmento, paginacion
<1>4. CASE /\ cargandose' = [cargandose EXCEPT ![d] = b] /\ UNCHANGED tablas
           /\ dir = -1 \/ Len(b) < todos
  <2>1. Ajenos(d)
    BY <1>1, <1>3, <1>4 DEF Ajenos, EntradaBien
  <2>2. cargandose'[d] = cargandose[d] \o trozo
    BY <1>1, <1>4
  <2>3. Guardado(d, trozo)
    BY <1>2, <1>3, <2>2 DEF Guardado
  <2> QED  BY <1>2, <1>4, <2>1, <2>3 DEF Efecto
<1>5. CASE /\ Len(b) >= todos /\ dir = Len(tablas[d])
           /\ tablas' = [tablas EXCEPT ![d] = Append(@, s)]
           /\ cargandose' = BufferTrasCargar(d, b)
  <2> HIDE DEF b, n
  <2>1. tablas' = [tablas EXCEPT ![d] = Append(tablas[d], s)]
    BY <1>5
  <2>2. cargandose' = [cargandose EXCEPT ![d] = <<>>]
    BY <1>5 DEF BufferTrasCargar
  <2>3. s.archivo = p
    OBVIOUS
  <2> HIDE DEF s
  <2>4. /\ DOMAIN tablas[d] = 1 .. Len(tablas[d]) /\ Len(tablas[d]) \in Nat
        /\ DOMAIN tablas'[d] = 1 .. Len(tablas[d]) + 1
        /\ tablas'[d][Len(tablas[d]) + 1] = s
        /\ \A k \in DOMAIN tablas[d] : tablas'[d][k] = tablas[d][k]
    <3> DEFINE u == tablas[d]
    <3>1. u \in Seq(Segmento) /\ tablas'[d] = Append(u, s)
      BY <1>1, <2>1
    <3> HIDE DEF u
    <3> QED  BY <3>1 DEF u
  <2>5. \A e \in Pids \ {d} : tablas'[e] = tablas[e] /\ cargandose'[e] = cargandose[e]
    BY <1>1, <2>1, <2>2
  <2>6. ASSUME NEW e \in Pids, NEW q \in Paths, NEW k \in Int, EntradaBien(e, q, k)
        PROVE  EntradaBien(e, q, k)'
    <3>1. k + 1 \in DOMAIN tablas[e] /\ tablas[e][k + 1].archivo = q
      BY <2>6 DEF EntradaBien
    <3>2. k + 1 \in DOMAIN tablas'[e] /\ tablas'[e][k + 1].archivo = q
      <4>1. CASE e = d
        BY <2>4, <3>1, <4>1
      <4>2. CASE e # d
        BY <2>5, <3>1, <4>2
      <4> QED  BY <4>1, <4>2
    <3> QED  BY <3>2 DEF EntradaBien
  <2>7. Ajenos(d)
    BY <1>3, <2>5, <2>6 DEF Ajenos
  <2>8. EntradaBien(d, p, dir)'
    <3>1. dir + 1 \in DOMAIN tablas'[d] /\ tablas'[d][dir + 1].archivo = p
      BY <1>5, <2>3, <2>4
    <3> QED  BY <3>1 DEF EntradaBien
  <2>9. cargandose'[d] = <<>>
    BY <1>1, <2>2
  <2>10. Cargado(d, p, trozo, dir)
    BY <1>3, <2>8, <2>9 DEF Cargado
  <2> QED  BY <1>2, <1>5, <2>7, <2>10 DEF Efecto
<1> HIDE DEF b, n, s
<1>6. <1>4!1 \/ <1>5!1
  BY DEF CargarParte, b, n, ls, s
<1> QED  BY <1>4, <1>5, <1>6

LEMMA ALoSumoUno ==
    ASSUME NEW S, NEW v \in Seq(S), Len(v) <= 1, NEW k \in DOMAIN v
    PROVE  k = 1 /\ Len(v) = 1 /\ DOMAIN v = {1} /\ v # <<>> /\ v[1] \in S
<1> DEFINE l == Len(v)
<1>1. l \in Nat /\ l <= 1 /\ DOMAIN v = 1 .. l
  OBVIOUS
<1>2. k \in 1 .. l
  BY <1>1
<1> HIDE DEF l
<1>3. k = 1 /\ l = 1
  BY <1>1, <1>2
<1>4. DOMAIN v = {1}
  BY <1>1, <1>3
<1>5. v # <<>>
  BY <1>4
<1> QED  BY <1>3, <1>4, <1>5 DEF l

LEMMA EfectoEnPaginas ==
    ASSUME FM9TypeOK, UnSegmento, modo = "SPA", modo' = modo, "FM9" \notin caidos',
           NEW d \in Pids, NEW p \in Paths, NEW trozo \in Seq(Bytes), NEW todos, NEW dir,
           CargarPartePaginada(d, p, trozo, todos, dir)
    PROVE  Efecto(d, p, trozo, todos, dir)
<1>1. /\ cargandose \in [Pids -> Seq(Bytes)] /\ cargandose[d] \in Seq(Bytes)
      /\ paginadas \in [Pids -> Seq(SegmentoPaginado)]
      /\ paginadas[d] \in Seq(SegmentoPaginado) /\ PaginadaTypeOK
  BY DEF FM9TypeOK, SegmentacionTypeOK, PaginadaTypeOK
<1>2. ~ CaeFM9
  BY DEF CaeFM9
<1> DEFINE Paso(b, n) ==
             /\ cargandose' = [cargandose EXCEPT ![d] = b]
             /\ \/ /\ Len(b) < todos /\ sueltos' = sueltos \ {d}
                   /\ UNCHANGED paginadas
                \/ /\ dir = -1 /\ sueltos' \in {sueltos \ {d}, sueltos \cup {d}}
                   /\ UNCHANGED paginadas
                \/ /\ Len(b) >= todos /\ n # 0 /\ dir = 0 /\ ~ SigueUnNulo(d, p, n)
                   /\ sueltos' = sueltos \cup {d}
                   /\ paginadas' = [paginadas EXCEPT ![d] = TablaTras(d, p, n)]
<1>3. PICK b \in Buffers(d, trozo) : Paso(b, Len(Lineas(b)))
  <2>1. \E b \in Buffers(d, trozo) : Paso(b, Len(Lineas(b)))
    BY <1>2 DEF CargarPartePaginada
  <2> HIDE DEF Paso
  <2> QED  BY <2>1
<1> DEFINE n == Len(Lineas(b))
<1>4. b \in Seq(Bytes) /\ n \in Nat
  <2>1. b \in Seq(Bytes)
    BY BuffersOK DEF FM9TypeOK
  <2>2. Lineas(b) \in Seq(Seq(Bytes))
    BY <2>1, LineasOK
  <2> QED  BY <2>1, <2>2
<1> HIDE DEF n
<1>5. /\ Len(b) = Len(cargandose[d]) + Len(trozo)
      /\ d \notin sueltos => b = cargandose[d] \o trozo
  <2> DEFINE otro == [k \in DOMAIN cargandose[d] |-> Basura]
  <2>1. Basura \in Bytes
    BY SegmentacionPaginadaAssumption
  <2>2. otro \in Seq(Bytes) /\ Len(otro) = Len(cargandose[d])
    <3> DEFINE l == Len(cargandose[d])
    <3>1. DOMAIN cargandose[d] = 1 .. l /\ l \in Nat
      BY <1>1
    <3>2. otro = [k \in 1 .. l |-> Basura]
      BY <3>1
    <3> HIDE DEF l, otro
    <3>3. otro \in Seq(Bytes) /\ Len(otro) = l
      BY <2>1, <3>1, <3>2
    <3> QED  BY <3>3 DEF l
  <2> HIDE DEF otro
  <2>3. b = cargandose[d] \o trozo \/ (d \in sueltos /\ b = otro \o trozo)
    BY DEF Buffers, otro
  <2> QED  BY <1>1, <2>2, <2>3
<1>6. Paso(b, n)
  BY <1>3 DEF n
<1>7. /\ \A e \in Pids \ {d} : cargandose'[e] = cargandose[e] /\ (e \in sueltos' => e \in sueltos)
      /\ cargandose'[d] = b
  BY <1>1, <1>6
<1>8. CASE UNCHANGED paginadas /\ (dir = -1 \/ (Len(b) < todos /\ sueltos' = sueltos \ {d}))
  <2>1. Ajenos(d)
    <3>1. /\ \A e \in Pids \ {d} :
                /\ cargandose'[e] = cargandose[e] /\ paginadas'[e] = paginadas[e]
                /\ e \in sueltos' => e \in sueltos
          /\ UnSegmento' /\ tablas' = tablas
      BY <1>7, <1>8, CargarPartePaginadaOK DEF UnSegmento
    <3>2. \A e \in Pids, q \in Paths, k \in Int : EntradaBien(e, q, k) => EntradaBien(e, q, k)'
      BY <1>8, <3>1 DEF EntradaBien
    <3> QED  BY <3>1, <3>2 DEF Ajenos
  <2>2. CASE dir = -1
    BY <2>1, <2>2 DEF Efecto
  <2>3. CASE Len(b) < todos /\ sueltos' = sueltos \ {d}
    <3>1. Guardado(d, trozo)
      BY <1>5, <1>7, <1>8, <2>3 DEF Guardado
    <3> QED  BY <1>5, <2>1, <2>3, <3>1 DEF Efecto
  <2> QED  BY <1>8, <2>2, <2>3
<1>9. CASE /\ Len(b) >= todos /\ n # 0 /\ dir = 0 /\ ~ SigueUnNulo(d, p, n)
           /\ sueltos' = sueltos \cup {d}
           /\ paginadas' = [paginadas EXCEPT ![d] = TablaTras(d, p, n)]
  <2> DEFINE suyos == {k \in DOMAIN paginadas[d] : paginadas[d][k].archivo = p}
             u == TablaTras(d, p, n)
  <2>1. paginadas'[d] = u /\ \A e \in Pids \ {d} : paginadas'[e] = paginadas[e]
    BY <1>1, <1>9
  <2>2. DOMAIN u = {1} /\ Len(u) = 1 /\ u[1].archivo = p
    <3>1. CASE suyos = {}
      <4> DEFINE nuevo == [archivo |-> p, limite |-> Min({n, LineasPorPagina}),
                           marcos |-> MarcosAUsar(n)]
      <4>1. u = <<nuevo>> /\ nuevo.archivo = p
        BY <3>1 DEF TablaTras
      <4> HIDE DEF u, nuevo
      <4> QED  BY <4>1
    <3>2. CASE suyos # {}
      <4>1. paginadas[d] # <<>> /\ Len(paginadas[d]) = 1 /\ DOMAIN paginadas[d] = {1}
        <5>1. Len(paginadas[d]) <= 1
          BY DEF UnSegmento
        <5>2. PICK j : j \in DOMAIN paginadas[d]
          BY <3>2
        <5> QED  BY <1>1, <5>1, <5>2, ALoSumoUno
      <4>2. suyos = {1} /\ paginadas[d][1].archivo = p
        BY <3>2, <4>1
      <4>3. Min(suyos) = 1
        <5>1. suyos \in SUBSET Nat /\ suyos # {}
          BY <4>2
        <5> HIDE DEF suyos
        <5>2. Min(suyos) \in suyos
          BY <5>1, MinimoOK
        <5> QED  BY <4>2, <5>2
      <4>4. u = [paginadas[d] EXCEPT ![Min(suyos)].marcos = @ \o MarcosAUsar(n)]
        BY <3>2 DEF TablaTras
      <4> DEFINE v == paginadas[d]
                 w == v[1].marcos \o MarcosAUsar(n)
      <4>5. u = [v EXCEPT ![1] = [v[1] EXCEPT !.marcos = w]]
        BY <4>1, <4>3, <4>4
      <4>6. v \in Seq(SegmentoPaginado) /\ Len(v) = 1 /\ v[1].archivo = p
        BY <1>1, <4>1, <4>2
      <4>7. v[1] \in SegmentoPaginado
        BY <1>1, <4>1
      <4> HIDE DEF u, v, w
      <4>8. [v[1] EXCEPT !.marcos = w].archivo = p
        BY <4>6, <4>7 DEF SegmentoPaginado
      <4> QED  BY <4>5, <4>6, <4>8
    <3> QED  BY <3>1, <3>2
  <2> HIDE DEF u
  <2>3. UnSegmento'
    <3>1. ASSUME NEW e \in Pids PROVE Len(paginadas'[e]) <= 1
      <4>1. CASE e = d
        <5>1. Len(paginadas'[e]) = 1
          BY <2>1, <2>2, <4>1
        <5> QED  BY <5>1
      <4>2. CASE e # d
        BY <2>1, <4>2 DEF UnSegmento
      <4> QED  BY <4>1, <4>2
    <3> QED  BY <3>1 DEF UnSegmento
  <2>4. ASSUME NEW e \in Pids, NEW q \in Paths, NEW k \in Int, EntradaBien(e, q, k)
        PROVE  EntradaBien(e, q, k)'
    <3>1. k + 1 \in DOMAIN paginadas[e] /\ paginadas[e][k + 1].archivo = q
      BY <2>4 DEF EntradaBien
    <3>2. k + 1 \in DOMAIN paginadas'[e] /\ paginadas'[e][k + 1].archivo = q
      <4>1. CASE e = d
        <5>1. Len(paginadas[d]) <= 1 /\ k + 1 \in DOMAIN paginadas[d]
          BY <3>1, <4>1 DEF UnSegmento
        <5>3. k + 1 = 1 /\ DOMAIN paginadas[d] = {1} /\ paginadas[d] # <<>>
          BY <1>1, <5>1, ALoSumoUno
        <5>4. \E j \in DOMAIN paginadas[d] : paginadas[d][j].archivo = p
          BY <1>4, <1>9, <5>3 DEF SigueUnNulo
        <5>5. paginadas[d][1].archivo = p
          BY <5>3, <5>4
        <5> QED  BY <2>1, <2>2, <3>1, <4>1, <5>3, <5>5
      <4>2. CASE e # d
        BY <2>1, <3>1, <4>2
      <4> QED  BY <4>1, <4>2
    <3> QED  BY <3>2 DEF EntradaBien
  <2>5. Ajenos(d)
    BY <1>7, <2>1, <2>3, <2>4 DEF Ajenos
  <2>6. EntradaBien(d, p, dir)'
    <3>1. dir + 1 = 1
      BY <1>9
    <3> QED  BY <2>1, <2>2, <3>1 DEF EntradaBien
  <2>7. paginadas'[d] # <<>> /\ Len(cargandose'[d]) = Len(cargandose[d]) + Len(trozo)
    BY <1>5, <1>7, <2>1, <2>2
  <2>8. Cargado(d, p, trozo, dir)
    BY <2>6, <2>7 DEF Cargado
  <2> QED  BY <1>5, <1>9, <2>5, <2>8 DEF Efecto
<1>10. <1>8!1 \/ <1>9!1
  BY <1>6
<1> QED  BY <1>8, <1>9, <1>10

(* What a load does, while FM9 runs after it *)
LEMMA EfectoDeCargar ==
    ASSUME TypeOK, UnSegmento, "FM9" \notin caidos', NEW dir, Cargar(dir)
    PROVE  /\ Efecto(dam.pid, dam.path, dam.parte.datos, dam.parte.total, dir)
           /\ modo \in {"SEG", "SPA"}
<1>1. FM9TypeOK /\ dam.pid \in Pids /\ dam.path \in Paths /\ dam.parte.datos \in Seq(Bytes)
  BY DamOK DEF TypeOK, Dam
<1>2. "FM9" \notin caidos
  BY DEF Cargar, CargarParteEnMemoria
<1>3. /\ modo' = modo
      /\ \/ /\ modo = "SEG"
            /\ CargarParte(dam.pid, dam.path, dam.parte.datos, dam.parte.total, dir)
            /\ UNCHANGED <<paginacion, caidos>>
         \/ /\ modo = "SPA"
            /\ CargarPartePaginada(dam.pid, dam.path, dam.parte.datos, dam.parte.total, dir)
  BY <1>2 DEF Cargar, CargarParteEnMemoria
<1>4. CASE modo = "SEG"
  BY <1>1, <1>3, <1>4, EfectoEnMemoria
<1>5. CASE modo = "SPA"
  BY <1>1, <1>3, <1>5, EfectoEnPaginas
<1> QED  BY <1>3, <1>4, <1>5

(* FM9 holds the first "k" bytes of the file in transfer. *)
Acumula(k) ==
    /\ k <= Len(cargandose[dam.pid])
    /\ Exacto(dam.pid) => /\ cargandose[dam.pid] = SubSeq(dam.original, 1, k)
                          /\ dam.pid \notin sueltos

(* a file that can be read and takes the whole of the first request *)
Integro == dam.path \notin Ilegibles /\ Len(dam.original) >= TransferSize

Tamanio == Len(dam.original)

(* before a request *)
PideBien ==
    /\ Acumula(dam.offset)
    /\ \/ dam.primera /\ dam.offset = 0 /\ dam.bytes = TransferSize
       \/ /\ ~ dam.primera /\ Integro
          /\ dam.total = Tamanio /\ dam.offset < Tamanio
          /\ dam.bytes = Menor(Tamanio - dam.offset, TransferSize)

(* what MDJ gave: a fragment, nothing, or more than a short file *)
ParteBien(desde) ==
    \/ /\ Integro /\ dam.parte.size > 0 /\ desde + dam.parte.size <= Tamanio
       /\ dam.parte.datos = SubSeq(dam.original, desde + 1, desde + dam.parte.size)
    \/ ~ Integro /\ desde = 0 /\ dam.parte.size = 0
    \/ /\ ~ Integro /\ desde = 0
       /\ dam.parte.size >= Tamanio /\ Len(dam.parte.datos) >= Tamanio

(* after a request, and before the length is known *)
MideBien == PideBien /\ ParteBien(dam.offset)

(* before a load: the fragment starts where what is loaded ends *)
Desde == dam.offset - dam.parte.size

CargaBien ==
    /\ Integro /\ ~ dam.primera
    /\ dam.total = Tamanio /\ dam.parte.total = Tamanio /\ dam.offset < Tamanio
    /\ Desde \in Nat /\ ParteBien(Desde) /\ Acumula(Desde)

UltimaBien ==
    /\ Desde \in Nat /\ ParteBien(Desde) /\ Acumula(Desde)
    /\ Integro => dam.offset = Tamanio
    /\ dam.parte.size > 0 => dam.parte.total = Tamanio

(* before the answer to SAFA *)
InformaBien ==
    /\ Limpio(dam.pid)
    /\ Integro => EntradaBien(dam.pid, dam.path, dam.direccion)

EnCurso ==
    /\ dam.en \in {"pide", "mide", "carga", "ultima"} =>
          archivos[dam.path] = dam.original /\ dam.original # NoExiste
    /\ dam.en = "pide" => PideBien
    /\ dam.en = "mide" => MideBien
    /\ dam.en = "carga" => CargaBien
    /\ dam.en = "ultima" => UltimaBien
    /\ dam.en = "informa" => InformaBien

Bloqueado == dam.en # "libre" => dtb[dam.pid] = "bloqueado"

Limpios == \A d \in Pids \ manchados : dtb[d] = "listo" => Limpio(d)

Entradas == \A a \in abiertos : a.entero => EntradaBien(a.pid, a.path, a.direccion)

Fragmentos ==
    /\ UnSegmento /\ Bloqueado /\ Limpios /\ Entradas
    /\ dam.pid \notin manchados => EnCurso

InvFragmentos == TypeOK /\ ("FM9" \notin caidos => Fragmentos)

(* The steps that do not load *)
LEMMA SinCargar ==
    ASSUME UNCHANGED memoriaFM9
    PROVE  /\ UnSegmento => UnSegmento'
           /\ \A d : Limpio(d)' <=> Limpio(d)
           /\ \A d, p, k : EntradaBien(d, p, k)' <=> EntradaBien(d, p, k)
<1>1. UNCHANGED <<modo, tablas, cargandose, paginadas, sueltos>>
  BY DEF memoriaFM9, fm9, paginacion
<1>2. UnSegmento => UnSegmento'
  BY <1>1 DEF UnSegmento
<1>3. \A d : Limpio(d)' <=> Limpio(d)
  BY <1>1 DEF Limpio, Exacto
<1>4. \A d, p, k : EntradaBien(d, p, k)' <=> EntradaBien(d, p, k)
  BY <1>1 DEF EntradaBien
<1> QED  BY <1>2, <1>3, <1>4

LEMMA SiguenEnCurso ==
    ASSUME TypeOK, Fragmentos, dam.en # "libre", dam'.pid = dam.pid,
           UNCHANGED <<dtb, abiertos, manchados>>,
           dam.pid \notin manchados => EnCurso',
           \/ UNCHANGED memoriaFM9
           \/ Ajenos(dam.pid)
    PROVE  Fragmentos'
<1>1. dtb[dam.pid] = "bloqueado" /\ dam.pid \in Pids
  BY DEF Fragmentos, Bloqueado, TypeOK
<1>2. UnSegmento'
  BY SinCargar DEF Fragmentos, Ajenos
<1>3. Bloqueado'
  BY <1>1 DEF Bloqueado
<1>4. Limpios'
  <2> SUFFICES ASSUME NEW d \in Pids \ manchados, dtb[d] = "listo"
               PROVE  Limpio(d)'
    BY DEF Limpios
  <2>1. d # dam.pid /\ Limpio(d)
    BY <1>1 DEF Fragmentos, Limpios
  <2>2. CASE UNCHANGED memoriaFM9
    BY <2>1, <2>2, SinCargar
  <2>3. CASE Ajenos(dam.pid)
    BY <2>1, <2>3 DEF Ajenos, Limpio, Exacto
  <2> QED  BY <2>2, <2>3
<1>5. Entradas'
  <2> SUFFICES ASSUME NEW a \in abiertos, a.entero
               PROVE  EntradaBien(a.pid, a.path, a.direccion)'
    BY DEF Entradas
  <2>1. /\ EntradaBien(a.pid, a.path, a.direccion)
        /\ a.pid \in Pids /\ a.path \in Paths /\ a.direccion \in Int
    BY DEF Fragmentos, Entradas, TypeOK
  <2>2. CASE UNCHANGED memoriaFM9
    BY <2>1, <2>2, SinCargar
  <2>3. CASE Ajenos(dam.pid)
    BY <2>1, <2>3 DEF Ajenos
  <2> QED  BY <2>2, <2>3
<1> QED  BY <1>2, <1>3, <1>4, <1>5 DEF Fragmentos

LEMMA PedirDatosFragmentos ==
    ASSUME TypeOK, Fragmentos, PedirDatos, TransferSize <= TamanioBloques
    PROVE  Fragmentos'
<1>1. PICK r \in Obtenidos(dam.path, dam.offset, dam.bytes) :
         dam' = [dam EXCEPT !.en = "mide", !.parte = r]
  BY DEF PedirDatos
<1>2. /\ dam \in Dam /\ archivos \in [Paths -> Seq(Bytes) \cup {NoExiste}]
      /\ dam.en = "pide" /\ archivos' = archivos
      /\ UNCHANGED <<memoriaFM9, dtb, abiertos, manchados>>
  BY DEF TypeOK, Dam, PedirDatos
<1>3. /\ dam'.en = "mide" /\ dam'.parte = r /\ dam'.pid = dam.pid /\ dam'.path = dam.path
      /\ dam'.offset = dam.offset /\ dam'.total = dam.total /\ dam'.bytes = dam.bytes
      /\ dam'.primera = dam.primera /\ dam'.original = dam.original
  BY <1>1, <1>2 DEF Dam
<1>4. ASSUME dam.pid \notin manchados
      PROVE  EnCurso'
  <2> DEFINE c == dam.original
             n == Len(c)
             o == dam.offset
             s == dam.bytes
             x == dam.path
  <2>1. /\ PideBien /\ archivos[x] = c /\ c # NoExiste
    BY <1>2, <1>4 DEF Fragmentos, EnCurso
  <2>2. /\ c \in Seq(Bytes) /\ n \in Nat /\ o \in Nat /\ x \in Paths
        /\ TransferSize \in 1 .. TamanioBloques
    <3>1. c \in Seq(Bytes) /\ o \in Nat /\ x \in Paths
      BY <1>2, DamOK
    <3> HIDE DEF c
    <3> QED  BY <3>1, TransferenciaAssumption
  <2>3. CASE Integro
    <3>1. s \in 1 .. TamanioBloques /\ o + s <= n
      <4> HIDE DEF c, n, o, s, x
      <4>1. n >= TransferSize
        BY <2>3 DEF Integro, n, c
      <4>2. CASE dam.primera /\ o = 0 /\ s = TransferSize
        BY <2>2, <4>1, <4>2
      <4>3. CASE o < n /\ s = Menor(n - o, TransferSize)
        BY <2>2, <4>3, TransferenciaAssumption DEF Menor
      <4> QED  BY <2>1, <4>2, <4>3 DEF PideBien, Tamanio, n, c, o, s
    <3>2. x \notin Ilegibles /\ archivos[x] # NoExiste /\ o + s <= Len(archivos[x])
      BY <2>1, <2>3, <3>1 DEF Integro
    <3> HIDE DEF x, o, s
    <3>3. r \in Obtenidos(x, o, s)
      BY DEF x, o, s
    <3>4. r.size = s /\ r.datos = SubSeq(archivos[x], o + 1, o + s)
      BY <1>2, <2>2, <3>1, <3>2, <3>3, ObtenidosEnteros
    <3>5. r.size > 0 /\ o + r.size <= n /\ r.datos = SubSeq(c, o + 1, o + r.size)
      BY <2>1, <3>1, <3>4
    <3>6. ParteBien(dam.offset)'
      BY <1>3, <2>3, <3>5 DEF ParteBien, Integro, Tamanio, o
    <3> QED
      BY <1>2, <1>3, <2>1, <3>6 DEF EnCurso, MideBien, PideBien, Acumula, Exacto, Integro,
          Tamanio, memoriaFM9, fm9, paginacion, x
  <2>4. CASE ~ Integro
    <3>1. o = 0 /\ s = TransferSize
      BY <2>1, <2>4 DEF PideBien
    <3>2. CASE x \in Ilegibles
      <4>1. r = Fallo
        BY <3>2 DEF Obtenidos
      <4> QED
        BY <1>2, <1>3, <2>1, <2>4, <3>1, <4>1 DEF Fallo, ParteBien, EnCurso, MideBien,
            PideBien, Acumula, Exacto, Integro, Tamanio, memoriaFM9, fm9, paginacion
    <3>3. CASE x \notin Ilegibles
      <4>1. n < TransferSize
        BY <2>2, <2>4, <3>3, TransferenciaAssumption DEF Integro
      <4> HIDE DEF x, c, n, o, s
      <4>2. r \in Obtenidos(x, 0, TransferSize)
        BY <3>1 DEF x, o, s
      <4>3. archivos[x] # NoExiste /\ Len(archivos[x]) < TransferSize
        BY <2>1, <4>1 DEF n
      <4>4. \/ r = Fallo
            \/ /\ r.size = TransferSize /\ r.datos \in Seq(Bytes)
               /\ Len(r.datos) >= Len(archivos[x])
        BY <1>2, <2>2, <3>3, <4>2, <4>3, ObtenidosCortos
      <4>5. \/ r.size = 0
            \/ r.size >= n /\ Len(r.datos) >= n
        BY <2>1, <2>2, <4>1, <4>4 DEF Fallo, n
      <4>6. ParteBien(dam.offset)'
        BY <1>3, <2>4, <3>1, <4>5 DEF ParteBien, Integro, Tamanio, o, n, c
      <4> QED
        BY <1>2, <1>3, <2>1, <4>6 DEF EnCurso, MideBien, PideBien, Acumula, Exacto, Integro,
            Tamanio, memoriaFM9, fm9, paginacion, x, c
    <3> QED  BY <3>2, <3>3
  <2> QED  BY <2>3, <2>4
<1> QED  BY <1>2, <1>3, <1>4, SiguenEnCurso

LEMMA DesdeDonde ==
    ASSUME NEW k, Desde' = k, ParteBien(k)', Acumula(k)'
    PROVE  ParteBien(Desde)' /\ Acumula(Desde)'
<1>1. ParteBien(Desde)'
  BY DEF ParteBien
<1>2. Acumula(Desde)'
  BY DEF Acumula
<1> QED  BY <1>1, <1>2

LEMMA MedirFragmentos ==
    ASSUME TypeOK, Fragmentos, Medir
    PROVE  Fragmentos'
<1> DEFINE n == Tamanio
           o == dam.offset
           m == dam.parte.size
           total == Longitud
           parte == [dam.parte EXCEPT !.total = total]
           en == IF o + m < total THEN "carga" ELSE "ultima"
           todo1 == IF dam.primera THEN total ELSE dam.total
<1>1. /\ dam \in Dam /\ dam.en = "mide" /\ archivos' = archivos
      /\ UNCHANGED <<memoriaFM9, dtb, abiertos, manchados>>
  BY DEF TypeOK, Dam, Medir
<1>2. o \in Nat /\ m \in Nat /\ n \in Nat /\ dam.original \in Seq(Bytes)
  BY <1>1, DamOK DEF Tamanio
<1> HIDE DEF total
<1>3. dam' = [dam EXCEPT !.parte = parte, !.offset = o + m, !.total = todo1,
                         !.primera = FALSE, !.en = en]
  BY <1>1 DEF Medir, Dam, total
<1> HIDE DEF todo1, en
<1>4. /\ dam'.en = en /\ dam'.parte = parte /\ dam'.pid = dam.pid /\ dam'.path = dam.path
      /\ dam'.offset = o + m /\ dam'.total = todo1 /\ dam'.bytes = dam.bytes
      /\ ~ dam'.primera /\ dam'.original = dam.original
  <2> HIDE DEF parte, o, m
  <2> QED  BY <1>1, <1>3 DEF Dam
<1>5. parte.size = m /\ parte.datos = dam.parte.datos /\ parte.total = total
  BY <1>1 DEF Dam, Resultado
<1> HIDE DEF parte
<1>6. ASSUME dam.pid \notin manchados
      PROVE  EnCurso'
  <2>1. PideBien /\ ParteBien(o) /\ archivos[dam.path] = dam.original /\ dam.original # NoExiste
    BY <1>1, <1>6 DEF Fragmentos, EnCurso, MideBien
  <2>2. Acumula(o)
    BY <2>1 DEF PideBien
  <2>3. total = IF m = 0 THEN 0 ELSE n
    BY <2>1 DEF total, Longitud, Tamanio
  <2>4. Desde' = o /\ Desde' \in Nat
    BY <1>2, <1>4, <1>5 DEF Desde
  <2>5. /\ Integro' = Integro /\ Tamanio' = n
        /\ ParteBien(Desde)' /\ Acumula(Desde)'
    <3>1. Integro' = Integro /\ Tamanio' = n
      BY <1>4 DEF Integro, Tamanio
    <3>2. ASSUME NEW k, k = o
          PROVE  ParteBien(k)' /\ Acumula(k)'
      <4>1. Acumula(k)'
        BY <1>1, <1>4, <2>2, <3>2 DEF Acumula, Exacto, memoriaFM9, fm9, paginacion
      <4>2. ParteBien(k)'
        BY <1>4, <1>5, <2>1, <3>1, <3>2 DEF ParteBien, Tamanio
      <4> QED  BY <4>1, <4>2
    <3>3. PICK k : k = o
      OBVIOUS
    <3>4. Desde' = k /\ ParteBien(k)' /\ Acumula(k)'
      BY <2>4, <3>2, <3>3
    <3> QED  BY <3>1, <3>4, DesdeDonde
  <2>6. CASE Integro
    <3>1. m > 0 /\ o + m <= n /\ total = n
      BY <1>2, <2>1, <2>3, <2>6 DEF ParteBien
    <3>2. todo1 = n
      BY <2>1, <2>6, <3>1 DEF PideBien, todo1
    <3> HIDE DEF o, m, n
    <3>3. CASE o + m < n
      <4>1. en = "carga"
        BY <3>1, <3>3 DEF en
      <4>2. CargaBien'
        BY <1>4, <1>5, <2>4, <2>5, <2>6, <3>1, <3>2, <3>3, <4>1 DEF CargaBien
      <4> QED  BY <1>1, <1>4, <2>1, <4>1, <4>2 DEF EnCurso
    <3>4. CASE ~ (o + m < n)
      <4>1. en = "ultima" /\ o + m = n
        BY <1>2, <3>1, <3>4 DEF en
      <4>2. UltimaBien'
        BY <1>4, <1>5, <2>4, <2>5, <2>6, <3>1, <4>1 DEF UltimaBien
      <4> QED  BY <1>1, <1>4, <2>1, <4>1, <4>2 DEF EnCurso
    <3> QED  BY <3>3, <3>4
  <2>7. CASE ~ Integro
    <3>1. o = 0 /\ (m = 0 \/ m >= n)
      BY <2>1, <2>7 DEF ParteBien
    <3> HIDE DEF o, m, n
    <3>2. ~ (o + m < total)
      BY <1>2, <2>3, <3>1
    <3>3. en = "ultima" /\ (m > 0 => total = n)
      BY <1>2, <2>3, <3>2 DEF en
    <3>4. UltimaBien'
      BY <1>4, <1>5, <2>4, <2>5, <2>7, <3>3 DEF UltimaBien
    <3> QED  BY <1>1, <1>4, <2>1, <3>3, <3>4 DEF EnCurso
  <2> QED  BY <2>6, <2>7
<1> QED  BY <1>1, <1>4, <1>6, SiguenEnCurso

(* The file so far, and the fragment that follows *)
LEMMA Siguiente ==
    ASSUME NEW c \in Seq(Bytes), NEW i \in Nat, NEW j \in Nat, i <= j, j <= Len(c)
    PROVE  /\ SubSeq(c, 1, i) \o SubSeq(c, i + 1, j) = SubSeq(c, 1, j)
           /\ Len(SubSeq(c, i + 1, j)) = j - i
           /\ Len(SubSeq(c, 1, i)) = i
<1>1. Len(c) \in Nat
  OBVIOUS
<1>2. 1 \in 1 .. Len(c) + 1 /\ i \in 1 - 1 .. Len(c) /\ j \in i .. Len(c)
  BY <1>1
<1>3. SubSeq(c, 1, i) \o SubSeq(c, i + 1, j) = SubSeq(c, 1, j)
  BY <1>2, ConcatAdjacentSubSeq
<1>4. Len(SubSeq(c, i + 1, j)) = j - i
  OBVIOUS
<1>5. Len(SubSeq(c, 1, i)) = i
  OBVIOUS
<1> QED  BY <1>3, <1>4, <1>5

LEMMA CargarFragmentoFragmentos ==
    ASSUME TypeOK, Fragmentos, CargarFragmento, "FM9" \notin caidos'
    PROVE  Fragmentos'
<1> DEFINE n == Tamanio
           o == dam.offset
           m == dam.parte.size
           pid == dam.pid
           c == dam.original
           trozo == dam.parte.datos
<1>1. /\ dam \in Dam /\ dam.en = "carga" /\ archivos' = archivos
      /\ UNCHANGED <<dtb, abiertos, manchados>> /\ UnSegmento
  BY DEF TypeOK, Dam, CargarFragmento, Fragmentos
<1>2. PICK dir \in Direcciones :
         /\ Cargar(dir)
         /\ dam' = IF dir = -1 THEN [dam EXCEPT !.en = "falla"]
                   ELSE [dam EXCEPT !.en = "pide", !.direccion = dir, !.bytes = BytesAPedir]
  BY DEF CargarFragmento
<1>3. Efecto(pid, dam.path, trozo, dam.parte.total, dir) /\ modo \in {"SEG", "SPA"}
  BY <1>1, <1>2, EfectoDeCargar
<1>4. /\ o \in Nat /\ m \in Nat /\ n \in Nat /\ c \in Seq(Bytes) /\ pid \in Pids
      /\ trozo \in Seq(Bytes) /\ cargandose[pid] \in Seq(Bytes)
  BY <1>1, DamOK DEF Tamanio, TypeOK, FM9TypeOK, SegmentacionTypeOK
<1>5. CASE dir = -1
  <2>1. dam'.en = "falla" /\ dam'.pid = dam.pid
    BY <1>1, <1>2, <1>5 DEF Dam
  <2>2. EnCurso'
    BY <2>1 DEF EnCurso
  <2> QED  BY <1>1, <1>3, <2>1, <2>2, SiguenEnCurso DEF Efecto
<1>6. CASE dir # -1
  <2>1. /\ dam'.en = "pide" /\ dam'.pid = pid /\ dam'.path = dam.path
        /\ dam'.offset = o /\ dam'.total = dam.total /\ dam'.bytes = BytesAPedir
        /\ dam'.primera = dam.primera /\ dam'.original = c
    BY <1>1, <1>2, <1>6 DEF Dam
  <2>2. ASSUME pid \notin manchados
        PROVE  EnCurso'
    <3>1. CargaBien /\ archivos[dam.path] = c /\ c # NoExiste
      BY <1>1, <2>2 DEF Fragmentos, EnCurso
    <3>2. /\ Integro /\ ~ dam.primera /\ dam.total = n /\ dam.parte.total = n /\ o < n
          /\ o - m \in Nat
      BY <3>1 DEF CargaBien, Desde
    <3> DEFINE k == o - m
    <3>3. ParteBien(k) /\ Acumula(k)
      BY <3>1 DEF CargaBien, Desde
    <3>4. trozo = SubSeq(c, k + 1, o) /\ k <= o
      <4>1. k + m = o
        BY <1>4
      <4> HIDE DEF k
      <4>2. trozo = SubSeq(c, k + 1, k + m)
        BY <3>2, <3>3 DEF ParteBien
      <4>3. k \in Nat
        BY <3>2 DEF k
      <4> HIDE DEF trozo, m, o
      <4>4. k <= o
        BY <1>4, <4>1, <4>3
      <4>5. trozo = SubSeq(c, k + 1, o)
        BY <4>1, <4>2
      <4> QED  BY <4>4, <4>5
    <3> HIDE DEF k, trozo, m
    <3>5. /\ SubSeq(c, 1, k) \o trozo = SubSeq(c, 1, o)
          /\ Len(trozo) = o - k /\ k \in Nat
      <4>1. k \in Nat
        BY <3>2 DEF k, m
      <4>2. o <= n /\ n = Len(c)
        <5>1. n = Len(c)
          BY DEF Tamanio
        <5> HIDE DEF n, o
        <5> QED  BY <1>4, <3>2, <5>1
      <4> HIDE DEF c, o, n
      <4> QED  BY <1>4, <3>4, <4>1, <4>2, Siguiente
    <3>6. /\ k <= Len(cargandose[pid])
          /\ Exacto(pid) => cargandose[pid] = SubSeq(c, 1, k) /\ pid \notin sueltos
      BY <3>3 DEF Acumula
    <3>7. Len(cargandose[pid]) + Len(trozo) >= o
      <4> DEFINE l == Len(cargandose[pid])
      <4>1. l \in Nat /\ k <= l
        BY <1>4, <3>6
      <4> HIDE DEF l, o
      <4>2. l + (o - k) >= o
        BY <1>4, <3>5, <4>1
      <4> QED  BY <3>5, <4>2 DEF l
    <3>8. ASSUME Exacto(pid)
          PROVE  /\ Len(cargandose[pid]) + Len(trozo) < dam.parte.total
                 /\ cargandose[pid] \o trozo = SubSeq(c, 1, o) /\ pid \notin sueltos
      <4>1. cargandose[pid] = SubSeq(c, 1, k) /\ pid \notin sueltos
        BY <3>6, <3>8
      <4>2. Len(SubSeq(c, 1, k)) = k
        <5>1. o <= Len(c)
          <6>1. n = Len(c)
            BY DEF Tamanio
          <6> HIDE DEF n, o
          <6> QED  BY <1>4, <3>2, <6>1
        <5> HIDE DEF c, o
        <5> QED  BY <1>4, <3>4, <3>5, <5>1, Siguiente
      <4> HIDE DEF c, o, n, pid
      <4>3. Len(cargandose[pid]) + Len(trozo) = o
        BY <1>4, <3>5, <4>1, <4>2
      <4> QED  BY <3>2, <3>5, <4>1, <4>3
    <3>9. /\ o <= Len(cargandose'[pid])
          /\ Exacto(pid)' => cargandose'[pid] = SubSeq(c, 1, o) /\ pid \notin sueltos'
      <4>1. modo' = modo
        BY <1>3 DEF Efecto, Ajenos
      <4>2. CASE Guardado(pid, trozo)
        <5>1. /\ paginadas'[pid] = paginadas[pid]
              /\ Len(cargandose'[pid]) = Len(cargandose[pid]) + Len(trozo)
              /\ pid \notin sueltos =>
                    pid \notin sueltos' /\ cargandose'[pid] = cargandose[pid] \o trozo
          BY <4>2 DEF Guardado
        <5>2. ASSUME Exacto(pid)' PROVE Exacto(pid)
          BY <2>1, <4>1, <5>1, <5>2 DEF Exacto
        <5>3. o <= Len(cargandose'[pid])
          BY <3>7, <5>1
        <5> QED  BY <3>8, <5>1, <5>2, <5>3
      <4>3. CASE /\ Len(cargandose[pid]) + Len(trozo) >= dam.parte.total
                 /\ Cargado(pid, dam.path, trozo, dir)
        <5>1. ~ Exacto(pid)
          <6> SUFFICES ASSUME Exacto(pid) PROVE FALSE
            OBVIOUS
          <6>1. Len(cargandose[pid]) + Len(trozo) < n
            BY <3>2, <3>8
          <6>2. Len(cargandose[pid]) + Len(trozo) \in Nat
            BY <1>4, <3>5
          <6> HIDE DEF n
          <6> QED  BY <1>4, <3>2, <4>3, <6>1, <6>2
        <5>2. modo # "SEG"
          BY <5>1 DEF Exacto
        <5>3. /\ paginadas'[pid] # <<>>
              /\ Len(cargandose'[pid]) = Len(cargandose[pid]) + Len(trozo)
          BY <4>3, <5>2 DEF Cargado
        <5>4. ~ Exacto(pid)'
          BY <2>1, <4>1, <5>2, <5>3 DEF Exacto
        <5> QED  BY <3>7, <5>3, <5>4
      <4> QED  BY <1>3, <1>6, <4>2, <4>3 DEF Efecto
    <3>10. Acumula(dam.offset)'
      <4>1. Exacto(dam.pid)' <=> Exacto(pid)'
        OBVIOUS
      <4> QED  BY <2>1, <3>9 DEF Acumula, Exacto
    <3>11. BytesAPedir = Menor(n - o, TransferSize)
      BY <3>2 DEF BytesAPedir
    <3>12. PideBien'
      BY <2>1, <3>2, <3>10, <3>11 DEF PideBien, Integro, Tamanio
    <3> QED  BY <1>1, <2>1, <3>1, <3>12 DEF EnCurso
  <2> QED  BY <1>1, <1>3, <2>1, <2>2, SiguenEnCurso DEF Efecto
<1> QED  BY <1>5, <1>6

LEMMA CargarUltimoFragmentos ==
    ASSUME TypeOK, Fragmentos, CargarUltimo, "FM9" \notin caidos'
    PROVE  Fragmentos'
<1> DEFINE n == Tamanio
           o == dam.offset
           m == dam.parte.size
           pid == dam.pid
           c == dam.original
           trozo == dam.parte.datos
           k == o - m
<1>1. /\ dam \in Dam /\ dam.en = "ultima" /\ archivos' = archivos
      /\ UNCHANGED <<dtb, abiertos, manchados>> /\ UnSegmento
  BY DEF TypeOK, Dam, CargarUltimo, Fragmentos
<1>2. /\ o \in Nat /\ m \in Nat /\ n \in Nat /\ c \in Seq(Bytes) /\ pid \in Pids
      /\ trozo \in Seq(Bytes) /\ cargandose[pid] \in Seq(Bytes)
  BY <1>1, DamOK DEF Tamanio, TypeOK, FM9TypeOK, SegmentacionTypeOK
<1>3. ASSUME pid \notin manchados
      PROVE  /\ k \in Nat /\ ParteBien(k) /\ Acumula(k)
             /\ Integro => o = n
             /\ m > 0 => dam.parte.total = n
  BY <1>1, <1>3 DEF Fragmentos, EnCurso, UltimaBien, Desde
<1>4. CASE m = 0 /\ dam' = [dam EXCEPT !.en = "informa"] /\ UNCHANGED memoriaFM9
  <2>1. /\ dam'.en = "informa" /\ dam'.pid = pid /\ dam'.path = dam.path
        /\ dam'.original = c
    BY <1>1, <1>4 DEF Dam
  <2>2. ASSUME pid \notin manchados
        PROVE  EnCurso'
    <3>1. ~ Integro /\ k = 0 /\ Acumula(k)
      BY <1>2, <1>3, <1>4, <2>2 DEF ParteBien
    <3>2. Exacto(pid) => cargandose[pid] = SubSeq(c, 1, 0) /\ pid \notin sueltos
      BY <3>1 DEF Acumula
    <3>3. SubSeq(c, 1, 0) = <<>>
      BY <1>2
    <3>4. Limpio(pid)
      BY <3>2, <3>3 DEF Limpio
    <3>5. Limpio(dam.pid)'
      BY <1>4, <2>1, <3>4 DEF Limpio, Exacto, memoriaFM9, fm9, paginacion
    <3>6. InformaBien'
      BY <2>1, <3>1, <3>5 DEF InformaBien, Integro
    <3> QED  BY <2>1, <3>6 DEF EnCurso
  <2> QED  BY <1>1, <1>4, <2>1, <2>2, SiguenEnCurso
<1>5. ASSUME m > 0, NEW dir \in Direcciones, Cargar(dir),
             dam' = IF dir = -1 THEN [dam EXCEPT !.en = "falla"]
                    ELSE [dam EXCEPT !.en = "informa", !.direccion = dir]
      PROVE  Fragmentos'
  <2>1. Efecto(pid, dam.path, trozo, dam.parte.total, dir) /\ modo \in {"SEG", "SPA"}
    BY <1>1, <1>5, EfectoDeCargar
  <2>2. CASE dir = -1
    <3>1. dam'.en = "falla" /\ dam'.pid = dam.pid
      BY <1>1, <1>5, <2>2 DEF Dam
    <3>2. EnCurso'
      BY <3>1 DEF EnCurso
    <3> QED  BY <1>1, <2>1, <3>1, <3>2, SiguenEnCurso DEF Efecto
  <2>3. CASE dir # -1
    <3>1. /\ dam'.en = "informa" /\ dam'.pid = pid /\ dam'.path = dam.path
          /\ dam'.original = c /\ dam'.direccion = dir
      BY <1>1, <1>5, <2>3 DEF Dam
    <3>2. ASSUME pid \notin manchados
          PROVE  EnCurso'
      <4>1. /\ k \in Nat /\ k <= Len(cargandose[pid])
            /\ Exacto(pid) => pid \notin sueltos
            /\ dam.parte.total = n
        BY <1>3, <1>5, <3>2 DEF Acumula
      <4>2. k + Len(trozo) >= n
        <5>1. CASE Integro
          <6>1. o = n /\ trozo = SubSeq(c, k + 1, k + m)
            BY <1>3, <3>2, <5>1 DEF ParteBien
          <6>2. k + m = o /\ k <= o /\ n = Len(c)
            BY <1>2, <4>1 DEF Tamanio
          <6> HIDE DEF k, o, m, n, trozo
          <6>3. trozo = SubSeq(c, k + 1, o)
            BY <6>1, <6>2
          <6>4. o <= Len(c)
            BY <1>2, <6>1, <6>2
          <6> HIDE DEF c
          <6>5. Len(trozo) = o - k
            BY <1>2, <4>1, <6>2, <6>3, <6>4, Siguiente
          <6> QED  BY <1>2, <4>1, <6>1, <6>2, <6>5
        <5>2. CASE ~ Integro
          <6>1. k = 0 /\ Len(trozo) >= n
            BY <1>3, <1>5, <3>2, <5>2 DEF ParteBien
          <6> HIDE DEF k, n, trozo
          <6>2. Len(trozo) \in Nat
            BY <1>2
          <6> QED  BY <1>2, <6>1, <6>2
        <5> QED  BY <5>1, <5>2
      <4>3. ~ (Len(cargandose[pid]) + Len(trozo) < n)
        <5> DEFINE l == Len(cargandose[pid])
                   t == Len(trozo)
        <5>1. l \in Nat /\ t \in Nat /\ k <= l /\ k + t >= n
          BY <1>2, <4>1, <4>2
        <5> HIDE DEF l, t, k, n
        <5>2. ~ (l + t < n)
          BY <1>2, <4>1, <5>1
        <5> QED  BY <5>2 DEF l, t
      <4>4. Cargado(pid, dam.path, trozo, dir)
        BY <2>1, <2>3, <4>1, <4>3 DEF Efecto
      <4>5. modo' = modo
        BY <2>1 DEF Efecto, Ajenos
      <4>6. EntradaBien(dam.pid, dam.path, dam.direccion)'
        BY <3>1, <4>4 DEF Cargado, EntradaBien
      <4>7. Limpio(dam.pid)'
        <5>1. CASE modo = "SEG"
          <6>1. cargandose'[pid] = <<>> /\ (pid \in sueltos' => pid \in sueltos)
            BY <4>4, <5>1 DEF Cargado
          <6>2. pid \notin sueltos
            BY <4>1, <5>1 DEF Exacto
          <6> QED  BY <3>1, <6>1, <6>2 DEF Limpio
        <5>2. CASE modo # "SEG"
          <6>1. paginadas'[pid] # <<>>
            BY <4>4, <5>2 DEF Cargado
          <6> QED  BY <3>1, <4>5, <5>2, <6>1 DEF Limpio, Exacto
        <5> QED  BY <5>1, <5>2
      <4>8. InformaBien'
        BY <4>6, <4>7 DEF InformaBien
      <4> QED  BY <3>1, <4>8 DEF EnCurso
    <3> QED  BY <1>1, <2>1, <3>1, <3>2, SiguenEnCurso DEF Efecto
  <2> QED  BY <2>2, <2>3
<1> QED  BY <1>4, <1>5 DEF CargarUltimo

(* The steps in which the DAM takes a process, or answers for it *)
LEMMA AbrirPathFragmentos ==
    ASSUME TypeOK, Fragmentos, NEW d \in Pids, NEW p \in Paths, AbrirPath(d, p)
    PROVE  Fragmentos'
<1>1. /\ DamLibre \in Dam /\ dtb[d] = "listo" /\ dtb' = [dtb EXCEPT ![d] = "bloqueado"]
      /\ UNCHANGED <<memoriaFM9, archivos, abiertos, manchados>>
      /\ dtb \in [Pids -> {"listo", "bloqueado", "terminado"}]
      /\ cargandose[d] \in Seq(Bytes)
  BY DamLibreOK DEF AbrirPath, TypeOK, FM9TypeOK, SegmentacionTypeOK
<1>2. /\ dam'.pid = d
      /\ \/ dam'.en = "falla"
         \/ /\ dam'.en = "pide" /\ dam'.path = p /\ dam'.original = archivos[p]
            /\ archivos[p] # NoExiste /\ dam'.primera /\ dam'.offset = 0
            /\ dam'.bytes = TransferSize
  <2>1. CASE archivos[p] = NoExiste
    BY <1>1, <2>1 DEF AbrirPath, Dam
  <2>2. CASE archivos[p] # NoExiste
    <3>1. DamLibre.primera /\ DamLibre.offset = 0 /\ DamLibre.bytes = TransferSize
      BY DEF DamLibre
    <3>2. dam' = [DamLibre EXCEPT !.en = "pide", !.pid = d, !.path = p,
                                  !.original = archivos[p]]
      BY <2>2 DEF AbrirPath
    <3> QED  BY <1>1, <2>2, <3>1, <3>2 DEF Dam
  <2> QED  BY <2>1, <2>2
<1>3. UnSegmento'
  BY <1>1, SinCargar DEF Fragmentos
<1>4. Bloqueado'
  BY <1>1, <1>2 DEF Bloqueado
<1>5. Limpios'
  <2> SUFFICES ASSUME NEW e \in Pids \ manchados, dtb'[e] = "listo"
               PROVE  Limpio(e)'
    BY <1>1 DEF Limpios
  <2>1. dtb[e] = "listo"
    BY <1>1
  <2> QED  BY <1>1, <2>1, SinCargar DEF Fragmentos, Limpios
<1>6. Entradas'
  BY <1>1, SinCargar DEF Fragmentos, Entradas
<1>7. ASSUME d \notin manchados
      PROVE  EnCurso'
  <2>1. CASE dam'.en = "falla"
    BY <2>1 DEF EnCurso
  <2>2. CASE dam'.en = "pide"
    <3>1. Limpio(d)'
      <4>1. Limpio(d)
        BY <1>1, <1>7 DEF Fragmentos, Limpios
      <4> QED  BY <1>1, <4>1, SinCargar
    <3>2. cargandose' = cargandose /\ archivos' = archivos
      BY <1>1 DEF memoriaFM9, fm9
    <3>3. dam'.original = archivos[p] /\ dam'.offset = 0 /\ dam'.path = p
      BY <1>2, <2>2
    <3>4. archivos[p] \in Seq(Bytes)
      BY <1>2, <2>2 DEF TypeOK
    <3>5. SubSeq(archivos[p], 1, 0) = <<>> /\ Len(cargandose[d]) >= 0
      BY <1>1, <3>4
    <3>6. Acumula(dam.offset)'
      BY <1>2, <3>1, <3>2, <3>3, <3>5 DEF Acumula, Limpio, Exacto
    <3>7. PideBien'
      BY <1>2, <2>2, <3>6 DEF PideBien
    <3> QED  BY <1>2, <2>2, <3>2, <3>7 DEF EnCurso
  <2> QED  BY <1>2, <2>1, <2>2
<1> QED  BY <1>1, <1>2, <1>3, <1>4, <1>5, <1>6, <1>7 DEF Fragmentos

LEMMA InformarFragmentos ==
    ASSUME TypeOK, Fragmentos, InformarExito \/ InformarFallo
    PROVE  Fragmentos'
<1>1. /\ dam.pid \in Pids /\ dtb[dam.pid] = "bloqueado"
      /\ UNCHANGED <<memoriaFM9, archivos, manchados>>
      /\ dtb \in [Pids -> {"listo", "bloqueado", "terminado"}]
      /\ dam' = DamLibre /\ DamLibre.en = "libre"
  BY DEF TypeOK, Fragmentos, Bloqueado, InformarExito, InformarFallo, Informar, CaeDAM, DamLibre
<1>2. UnSegmento'
  BY <1>1, SinCargar DEF Fragmentos
<1>3. Bloqueado' /\ EnCurso'
  BY <1>1 DEF Bloqueado, EnCurso
<1>4. ASSUME InformarExito, dam.pid \notin manchados
      PROVE  InformaBien
  BY <1>4 DEF InformarExito, Fragmentos, EnCurso
<1>5. Limpios'
  <2> SUFFICES ASSUME NEW e \in Pids \ manchados, dtb'[e] = "listo"
               PROVE  Limpio(e)
    BY <1>1, SinCargar DEF Limpios
  <2>1. CASE dtb[e] = "listo"
    BY <2>1 DEF Fragmentos, Limpios
  <2>2. CASE dtb[e] # "listo"
    <3>1. e = dam.pid /\ InformarExito
      BY <1>1, <2>2 DEF InformarExito, InformarFallo, Informar
    <3> QED  BY <1>4, <3>1 DEF InformaBien
  <2> QED  BY <2>1, <2>2
<1>6. Entradas'
  <2> SUFFICES ASSUME NEW a \in abiertos', a.entero
               PROVE  EntradaBien(a.pid, a.path, a.direccion)
    BY <1>1, SinCargar DEF Entradas
  <2>1. CASE a \in abiertos
    BY <2>1 DEF Fragmentos, Entradas
  <2>2. CASE a \notin abiertos
    <3>1. InformarExito
      BY <2>2 DEF InformarFallo
    <3>2. a = [pid |-> dam.pid, path |-> dam.path, direccion |-> dam.direccion,
               lineas |-> Lineas(dam.original),
               entero |-> /\ dam.pid \notin manchados
                          /\ dam.path \notin Ilegibles
                          /\ Len(dam.original) >= TransferSize]
      BY <2>2, <3>1 DEF InformarExito
    <3>3. /\ a.pid = dam.pid /\ a.path = dam.path /\ a.direccion = dam.direccion
          /\ dam.pid \notin manchados /\ Integro
      BY <3>2, Zenon DEF Integro
    <3> QED  BY <1>4, <3>1, <3>3 DEF InformaBien
  <2> QED  BY <2>1, <2>2
<1> QED  BY <1>2, <1>3, <1>5, <1>6 DEF Fragmentos

LEMMA ConsolaFragmentos ==
    ASSUME TypeOK, Fragmentos, NEW p \in Paths, Consola(p)
    PROVE  Fragmentos'
<1>1. /\ UNCHANGED <<memoriaFM9, dam, dtb, abiertos>>
      /\ \E c : archivos' = [archivos EXCEPT ![p] = c]
      /\ manchados' = IF dam.en # "libre" /\ dam.path = p
                      THEN manchados \cup {dam.pid} ELSE manchados
      /\ archivos \in [Paths -> Seq(Bytes) \cup {NoExiste}] /\ dam.path \in Paths
  BY DEF Consola, Tocado, TypeOK
<1>2. UnSegmento'
  BY <1>1, SinCargar DEF Fragmentos
<1>3. Bloqueado'
  BY <1>1 DEF Fragmentos, Bloqueado
<1>4. Limpios'
  <2>1. manchados \subseteq manchados'
    BY <1>1
  <2> QED  BY <1>1, <2>1, SinCargar DEF Fragmentos, Limpios
<1>5. Entradas'
  BY <1>1, SinCargar DEF Fragmentos, Entradas
<1>6. ASSUME dam'.pid \notin manchados'
      PROVE  EnCurso'
  <2>1. EnCurso
    BY <1>1, <1>6 DEF Fragmentos
  <2>2. CASE dam.en = "libre"
    BY <1>1, <2>2 DEF EnCurso
  <2>3. CASE dam.en # "libre"
    <3>1. dam.path # p
      BY <1>1, <1>6, <2>3
    <3>2. archivos'[dam.path] = archivos[dam.path]
      BY <1>1, <3>1
    <3>3. /\ PideBien' = PideBien /\ MideBien' = MideBien /\ CargaBien' = CargaBien
          /\ UltimaBien' = UltimaBien /\ InformaBien' = InformaBien
      BY <1>1 DEF PideBien, MideBien, CargaBien, UltimaBien, InformaBien, Acumula, ParteBien,
          Exacto, Limpio, EntradaBien, Integro, Tamanio, Desde, memoriaFM9, fm9, paginacion
    <3> QED  BY <1>1, <2>1, <3>2, <3>3 DEF EnCurso
  <2> QED  BY <2>2, <2>3
<1> QED  BY <1>2, <1>3, <1>4, <1>5, <1>6 DEF Fragmentos

LEMMA InicioFragmentos == Init => InvFragmentos
<1> SUFFICES ASSUME Init PROVE InvFragmentos
  OBVIOUS
<1>1. /\ dam.en = "libre" /\ abiertos = {} /\ sueltos = {}
      /\ \A d \in Pids : cargandose[d] = <<>> /\ paginadas[d] = <<>>
  BY DEF Init, FM9Init, SegmentacionInit, PaginadaInit, DamLibre
<1>2. UnSegmento /\ Bloqueado /\ Limpios /\ Entradas /\ EnCurso
  <2>1. Len(<<>>) = 0
    OBVIOUS
  <2> QED
    BY <1>1, <2>1 DEF UnSegmento, Bloqueado, Limpios, Limpio, Entradas, EnCurso
<1> QED  BY <1>2, InicioTipos DEF InvFragmentos, Fragmentos

(* No step of a transfer raises a process that fell. *)
LEMMA NadieSeLevanta ==
    ASSUME TypeOK, [Next]_vars
    PROVE  caidos \subseteq caidos'
<1>1. ASSUME NEW dir, Cargar(dir) PROVE caidos \subseteq caidos'
  <2>1. FM9TypeOK /\ dam.pid \in Pids /\ dam.path \in Paths /\ dam.parte.datos \in Seq(Bytes)
    BY DamOK DEF TypeOK, Dam
  <2>2. CASE CargarPartePaginada(dam.pid, dam.path, dam.parte.datos, dam.parte.total, dir)
    BY <2>1, <2>2, CargarPartePaginadaOK
  <2>3. CASE UNCHANGED caidos
    BY <2>3
  <2> QED  BY <1>1, <2>2, <2>3 DEF Cargar, CargarParteEnMemoria
<1>2. ASSUME PasoDAM PROVE caidos \subseteq caidos'
  BY <1>1, <1>2 DEF PasoDAM, PedirDatos, Medir, CargarFragmento, CargarUltimo,
      CargarSinFM9, InformarExito, InformarFallo, Informar, CaeDAM
<1>3. ASSUME NEW p \in Paths, Consola(p) PROVE caidos \subseteq caidos'
  BY <1>3 DEF Consola
<1>4. ASSUME NEW d \in Pids, NEW p \in Paths, AbrirPath(d, p)
      PROVE  caidos \subseteq caidos'
  BY <1>4 DEF AbrirPath
<1> QED  BY <1>2, <1>3, <1>4 DEF Next, vars

LEMMA PasoFragmentos ==
    ASSUME TransferSize <= TamanioBloques
    PROVE  InvFragmentos /\ [Next]_vars => InvFragmentos'
<1> SUFFICES ASSUME InvFragmentos, [Next]_vars PROVE InvFragmentos'
  OBVIOUS
<1>1. TypeOK /\ TypeOK'
  BY PasoTipos DEF InvFragmentos
<1> SUFFICES ASSUME "FM9" \notin caidos' PROVE Fragmentos'
  BY <1>1 DEF InvFragmentos
<1>2. caidos \subseteq caidos'
  BY <1>1, NadieSeLevanta
<1>3. Fragmentos
  BY <1>2 DEF InvFragmentos
<1>4. CASE PasoDAM
  <2>1. ~ CargarSinFM9
    BY <1>2 DEF CargarSinFM9
  <2> QED
    BY <1>1, <1>3, <1>4, <2>1, PedirDatosFragmentos, MedirFragmentos,
       CargarFragmentoFragmentos, CargarUltimoFragmentos, InformarFragmentos DEF PasoDAM
<1>5. CASE UNCHANGED vars
  <2>1. UNCHANGED <<memoriaFM9, caidos, archivos, dam, dtb, abiertos, manchados>>
    BY <1>5 DEF vars
  <2>2. UnSegmento' /\ Bloqueado' /\ Limpios' /\ Entradas'
    BY <1>3, <2>1, SinCargar DEF Fragmentos, Bloqueado, Limpios, Entradas
  <2>3. EnCurso' = EnCurso
    BY <2>1 DEF EnCurso, PideBien, MideBien, CargaBien, UltimaBien, InformaBien, Acumula,
        ParteBien, Exacto, Limpio, EntradaBien, Integro, Tamanio, Desde, memoriaFM9, fm9,
        paginacion
  <2> QED  BY <1>3, <2>1, <2>2, <2>3 DEF Fragmentos
<1> QED
  BY <1>1, <1>3, <1>4, <1>5, ConsolaFragmentos, AbrirPathFragmentos DEF Next

(* What a transfer has done so far, as long as a request does not exceed a  *)
(* block: whatever the operator of MDJ does, the file that nobody touched   *)
(* is in FM9 up to the byte the DAM counts.                                 *)
THEOREM InvarianteDeFragmentos ==
    ASSUME TransferSize <= TamanioBloques
    PROVE  Spec => []InvFragmentos
<1>1. Init => InvFragmentos
  BY InicioFragmentos
<1>2. InvFragmentos /\ [Next]_vars => InvFragmentos'
  BY PasoFragmentos
<1> QED  BY <1>1, <1>2, PTL DEF Spec

LEMMA LosFragmentosEnOrden == InvFragmentos => FragmentosEnOrden
<1> SUFFICES ASSUME InvFragmentos, "FM9" \notin caidos
             PROVE  /\ modo = "SEG" =>
                         \A d \in Pids \ manchados : dtb[d] = "listo" => cargandose[d] = <<>>
                    /\ (/\ dam.en \in {"pide", "mide", "carga", "ultima"}
                        /\ paginadas[dam.pid] = <<>>
                        /\ dam.pid \notin manchados /\ dam.path \notin Ilegibles
                        /\ Len(dam.original) >= TransferSize)
                       => cargandose[dam.pid] = SubSeq(dam.original, 1, Entregado)
  BY DEF FragmentosEnOrden
<1>1. Fragmentos
  BY DEF InvFragmentos
<1>2. ASSUME modo = "SEG", NEW d \in Pids \ manchados, dtb[d] = "listo"
      PROVE  cargandose[d] = <<>>
  BY <1>1, <1>2 DEF Fragmentos, Limpios, Limpio, Exacto
<1>3. ASSUME dam.en \in {"pide", "mide", "carga", "ultima"}, paginadas[dam.pid] = <<>>,
             dam.pid \notin manchados
      PROVE  cargandose[dam.pid] = SubSeq(dam.original, 1, Entregado)
  <2>1. Acumula(Entregado)
    <3>1. CASE dam.en \in {"pide", "mide"}
      BY <1>1, <1>3, <3>1 DEF Fragmentos, EnCurso, MideBien, PideBien, Entregado
    <3>2. CASE dam.en \in {"carga", "ultima"}
      BY <1>1, <1>3, <3>2 DEF Fragmentos, EnCurso, CargaBien, UltimaBien, Desde, Entregado
    <3> QED  BY <1>3, <3>1, <3>2
  <2> QED  BY <1>3, <2>1 DEF Acumula, Exacto
<1> QED  BY <1>2, <1>3

LEMMA LaDireccionDelSegmento == InvFragmentos => DireccionDelSegmento
<1> SUFFICES ASSUME InvFragmentos, "FM9" \notin caidos, NEW a \in abiertos, a.entero
             PROVE  /\ a.direccion + 1 \in DOMAIN tablas[a.pid] \cup DOMAIN paginadas[a.pid]
                    /\ Entrada(a.pid, a.direccion + 1).archivo = a.path
  BY DEF DireccionDelSegmento
<1>1. EntradaBien(a.pid, a.path, a.direccion)
  BY DEF InvFragmentos, Fragmentos, Entradas
<1> QED  BY <1>1 DEF EntradaBien, Entrada

(* FM9 holds of the file in transfer exactly what the DAM counts as         *)
(* delivered, and nothing of a process that is free to open another one.    *)
THEOREM OrdenDeLosFragmentos ==
    ASSUME TransferSize <= TamanioBloques
    PROVE  Spec => []FragmentosEnOrden
<1>1. Spec => []InvFragmentos
  BY InvarianteDeFragmentos
<1> QED  BY <1>1, LosFragmentosEnOrden, PTL

(* The address that SAFA receives is that of the entry FM9 made for the     *)
(* file, in the table of the process.                                       *)
THEOREM DireccionCorrecta ==
    ASSUME TransferSize <= TamanioBloques
    PROVE  Spec => []DireccionDelSegmento
<1>1. Spec => []InvFragmentos
  BY InvarianteDeFragmentos
<1> QED  BY <1>1, LaDireccionDelSegmento, PTL

-----------------------------------------------------------------------------
(* What FM9 keeps of the files reported as open *)

(* Under pure segmentation the first segment of that name has the lines of  *)
(* the file, one after another from its base.                               *)
CopiadoEnLineas(d, p, ls) ==
    \E k \in DOMAIN tablas[d] :
        /\ tablas[d][k].archivo = p /\ tablas[d][k].limite = Len(ls)
        /\ \A j \in DOMAIN tablas[d] : tablas[d][j].archivo = p => k <= j
        /\ \A i \in DOMAIN ls : /\ tablas[d][k].base + i - 1 \in DOMAIN memoria
                                /\ memoria[tablas[d][k].base + i - 1] = ls[i]

(* Under paged segmentation, the pages of the segment have them. *)
LineaDePagina(g, i) ==
    g[(i - 1) \div LineasPorPagina + 1] * LineasPorPagina + ((i - 1) % LineasPorPagina)

CopiadoEnMarcos(d, p, ls) ==
    \E k \in DOMAIN paginadas[d] :
        /\ paginadas[d][k].archivo = p
        /\ Len(paginadas[d][k].marcos) = Paginas(Len(ls))
        /\ \A i \in DOMAIN ls : memoria[LineaDePagina(paginadas[d][k].marcos, i)] = ls[i]

Copiado(d, p, ls) ==
    \/ modo = "SEG" /\ CopiadoEnLineas(d, p, ls)
    \/ modo = "SPA" /\ CopiadoEnMarcos(d, p, ls)

(* the files that process "d" has a segment of *)
TablaDe(d) == IF modo = "SEG" THEN tablas[d] ELSE paginadas[d]

Nombrados(d) == {TablaDe(d)[k].archivo : k \in DOMAIN TablaDe(d)}

(* A load under pure segmentation writes in the hole only. *)
LEMMA LineasQueQuedan ==
    ASSUME FM9TypeOK, UnHueco, MemoriaRepartida, huecos # <<>>,
           NEW d \in Pids, NEW k \in DOMAIN tablas[d], NEW n \in Nat,
           n <= HuecoElegido.limite, NEW i \in 1 .. tablas[d][k].limite
    PROVE  (tablas[d][k].base + i - 1) - HuecoElegido.base \notin 0 .. n - 1
<1> DEFINE s == tablas[d][k]
           x == <<d, k>>
           h == HuecoElegido
           l == s.base + i - 1
<1> SUFFICES ASSUME l - h.base \in 0 .. n - 1 PROVE FALSE
  OBVIOUS
<1>1. tablas[d] \in Seq(Segmento) /\ s \in Segmento
  BY DEF FM9TypeOK, SegmentacionTypeOK
<1>2. s.base \in Int /\ s.limite \in Nat /\ h.base \in Nat /\ h.limite \in Nat
  BY <1>1 DEF Segmento, UnHueco
<1>3. x \in Segmentos /\ Tabla(x) = s
  <2>1. \E e \in Pids : \E j \in DOMAIN tablas[e] : x = <<e, j>>
    OBVIOUS
  <2>2. x \in Lugares(tablas)
    <3> HIDE DEF x
    <3> QED  BY <2>1, LugaresOK
  <2> QED  BY <2>2 DEF Segmentos, Tabla
<1>4. UNION {Ocupa(Tabla(y)) : y \in Segmentos} = (0 .. CantidadLineas - 1) \ Ocupa(h)
  BY DEF MemoriaRepartida
<1> HIDE DEF x, s, h
<1>5. Ocupa(s) \cap Ocupa(h) = {}
  <2>1. Ocupa(s) \in {Ocupa(Tabla(y)) : y \in Segmentos}
    BY <1>3
  <2> QED  BY <1>4, <2>1
<1>6. l \in Ocupa(s)
  BY <1>2 DEF Ocupa, s
<1>7. l \notin Ocupa(h)
  BY <1>5, <1>6
<1>8. l \in Int
  BY <1>2 DEF s
<1> HIDE DEF l
<1>9. n <= h.limite
  BY DEF h
<1>10. l \in h.base .. h.base + h.limite - 1
  BY <1>2, <1>8, <1>9
<1> QED  BY <1>7, <1>10 DEF Ocupa

LEMMA CopiaEnLineas ==
    ASSUME FM9TypeOK, UnHueco, MemoriaRepartida, huecos' # <<>>,
           NEW d \in Pids, NEW p \in Paths, NEW trozo \in Seq(Bytes), NEW todos \in Nat, NEW dir,
           CargarParte(d, p, trozo, todos, dir),
           NEW e \in Pids, NEW q \in Paths, NEW l \in Seq(Seq(Bytes)),
           \/ CopiadoEnLineas(e, q, l)
           \/ /\ e = d /\ q = p /\ l = Lineas(cargandose[d] \o trozo) /\ dir # -1
              /\ Len(cargandose[d]) + Len(trozo) >= todos
              /\ \A k \in DOMAIN tablas[d] : tablas[d][k].archivo # p
    PROVE  huecos # <<>> /\ CopiadoEnLineas(e, q, l)'
<1> DEFINE b == cargandose[d] \o trozo
           ls == Lineas(b)
           n == Len(ls)
           s == [base |-> NuevaBase(n), limite |-> n, archivo |-> p]
<1>1. /\ cargandose[d] \in Seq(Bytes) /\ tablas \in [Pids -> Seq(Segmento)]
      /\ huecos \in Seq(Hueco) /\ DOMAIN memoria = 0 .. CantidadLineas - 1
      /\ tablas[d] \in Seq(Segmento)
  BY DEF FM9TypeOK, SegmentacionTypeOK
<1>2. b \in Seq(Bytes) /\ ls \in Seq(Seq(Bytes)) /\ n \in Nat
  <2>1. b \in Seq(Bytes)
    BY <1>1
  <2>2. ls \in Seq(Seq(Bytes))
    BY <2>1, LineasOK
  <2> HIDE DEF ls
  <2> QED  BY <2>1, <2>2
<1>3. Len(b) = Len(cargandose[d]) + Len(trozo)
  BY <1>1
<1>4. CASE /\ HayLugar(ls)
           /\ memoria' = [r \in DOMAIN memoria |->
                             IF r - HuecoElegido.base \in 0 .. n - 1
                             THEN ls[r - HuecoElegido.base + 1]
                             ELSE memoria[r]]
           /\ huecos' = HuecosTras(n)
           /\ tablas' = [tablas EXCEPT ![d] = Append(@, s)]
  <2> HIDE DEF b, ls, n
  <2>1. huecos # <<>> /\ n <= HuecoElegido.limite
    BY <1>4 DEF HayLugar, n
  <2> DEFINE h == HuecoElegido.base
             m == HuecoElegido.limite
             u == tablas[d]
  <2>2. h \in Nat /\ m \in Nat \ {0} /\ h + m = CantidadLineas /\ Len(huecos) = 1
    BY <2>1 DEF UnHueco
  <2>3. n # m
    <3>1. n = m => huecos' = Tail(huecos)
      BY <1>4 DEF HuecosTras
    <3>2. Tail(huecos) = <<>>
      <4> DEFINE t == Tail(huecos)
      <4>1. t \in Seq(Hueco) /\ Len(t) = 0
        BY <1>1, <2>1, <2>2, HeadTailProperties
      <4> HIDE DEF t
      <4>2. t = <<>>
        BY <4>1
      <4> QED  BY <4>2 DEF t
    <3> QED  BY <3>1, <3>2
  <2>4. s.base = h /\ s.limite = n /\ s.archivo = p
    BY <2>3 DEF NuevaBase
  <2> HIDE DEF s, h, m
  <2>5. /\ u \in Seq(Segmento) /\ Len(u) \in Nat /\ DOMAIN u = 1 .. Len(u)
        /\ tablas'[d] = Append(u, s) /\ \A c \in Pids \ {d} : tablas'[c] = tablas[c]
    BY <1>1, <1>4
  <2> HIDE DEF u
  <2>6. /\ DOMAIN tablas'[d] = 1 .. Len(u) + 1 /\ tablas'[d][Len(u) + 1] = s
        /\ \A k \in 1 .. Len(u) : tablas'[d][k] = u[k]
    BY <2>5
  <2>7. /\ DOMAIN memoria' = DOMAIN memoria
        /\ \A r \in DOMAIN memoria :
              r - h \notin 0 .. n - 1 => memoria'[r] = memoria[r]
        /\ \A r \in DOMAIN memoria :
              r - h \in 0 .. n - 1 => memoria'[r] = ls[r - h + 1]
    BY <1>4 DEF h
  <2>8. CASE CopiadoEnLineas(e, q, l)
    <3>1. PICK k \in DOMAIN tablas[e] :
             /\ tablas[e][k].archivo = q /\ tablas[e][k].limite = Len(l)
             /\ \A j \in DOMAIN tablas[e] : tablas[e][j].archivo = q => k <= j
             /\ \A i \in DOMAIN l : /\ tablas[e][k].base + i - 1 \in DOMAIN memoria
                                    /\ memoria[tablas[e][k].base + i - 1] = l[i]
      BY <2>8 DEF CopiadoEnLineas
    <3>2. /\ tablas'[e][k] = tablas[e][k] /\ k \in DOMAIN tablas'[e]
          /\ \A j \in DOMAIN tablas'[e] : tablas'[e][j].archivo = q => k <= j
      <4>1. CASE e # d
        BY <2>5, <3>1, <4>1
      <4>2. CASE e = d
        <5>1. k \in 1 .. Len(u)
          BY <2>5, <4>2 DEF u
        <5>2. ASSUME NEW j \in 1 .. Len(u) + 1, tablas'[d][j].archivo = q
              PROVE  k <= j
          <6>1. CASE j \in 1 .. Len(u)
            BY <2>5, <2>6, <3>1, <4>2, <5>2, <6>1 DEF u
          <6>2. CASE j = Len(u) + 1
            BY <2>5, <5>1, <6>2
          <6> QED  BY <2>5, <6>1, <6>2
        <5>3. \A j \in DOMAIN tablas'[e] : tablas'[e][j].archivo = q => k <= j
          BY <2>6, <4>2, <5>2
        <5>4. tablas'[e][k] = tablas[e][k] /\ k \in DOMAIN tablas'[e]
          BY <2>5, <2>6, <4>2, <5>1 DEF u
        <5> QED  BY <5>3, <5>4
      <4> QED  BY <4>1, <4>2
    <3>3. ASSUME NEW i \in DOMAIN l
          PROVE  /\ tablas[e][k].base + i - 1 \in DOMAIN memoria'
                 /\ memoria'[tablas[e][k].base + i - 1] = l[i]
      <4>1. i \in 1 .. tablas[e][k].limite
        BY <3>1
      <4>2. (tablas[e][k].base + i - 1) - HuecoElegido.base \notin 0 .. n - 1
        BY <1>2, <2>1, <3>1, <4>1, LineasQueQuedan
      <4>3. /\ tablas[e][k].base + i - 1 \in DOMAIN memoria
            /\ memoria[tablas[e][k].base + i - 1] = l[i]
        BY <3>1
      <4> DEFINE r == tablas[e][k].base + i - 1
      <4>4. r - h \notin 0 .. n - 1
        BY <4>2 DEF h
      <4>5. r \in DOMAIN memoria /\ memoria[r] = l[i]
        BY <4>3
      <4> HIDE DEF r
      <4>6. r \in DOMAIN memoria' /\ memoria'[r] = l[i]
        BY <2>7, <4>4, <4>5
      <4> QED  BY <4>6 DEF r
    <3>4. \A i \in DOMAIN l : /\ tablas'[e][k].base + i - 1 \in DOMAIN memoria'
                              /\ memoria'[tablas'[e][k].base + i - 1] = l[i]
      BY <3>2, <3>3
    <3>5. CopiadoEnLineas(e, q, l)'
      BY <3>1, <3>2, <3>4 DEF CopiadoEnLineas
    <3> QED  BY <2>1, <3>5
  <2>9. CASE /\ e = d /\ q = p /\ l = ls
             /\ \A k \in DOMAIN tablas[d] : tablas[d][k].archivo # p
    <3> DEFINE k == Len(u) + 1
    <3>1. k \in DOMAIN tablas'[d] /\ tablas'[d][k] = s
      BY <2>5, <2>6
    <3>2. ASSUME NEW j \in DOMAIN tablas'[d], tablas'[d][j].archivo = p
          PROVE  k <= j
      <4>1. j \in 1 .. Len(u) + 1
        BY <2>6
      <4>2. j \notin 1 .. Len(u)
        BY <2>5, <2>6, <2>9, <3>2 DEF u
      <4> QED  BY <2>5, <4>1, <4>2
    <3>3. ASSUME NEW i \in DOMAIN ls
          PROVE  /\ s.base + i - 1 \in DOMAIN memoria'
                 /\ memoria'[s.base + i - 1] = ls[i]
      <4>1. i \in 1 .. n
        BY <1>2 DEF n
      <4>2. n <= m
        BY <2>1 DEF m
      <4>6. h \in Nat /\ m \in Nat /\ h + m = CantidadLineas /\ n \in Nat
        BY <1>2, <2>2
      <4>3. /\ h + i - 1 \in 0 .. CantidadLineas - 1 /\ (h + i - 1) - h \in 0 .. n - 1
            /\ (h + i - 1) - h + 1 = i
        BY <4>6, <4>1, <4>2
      <4>4. h + i - 1 \in DOMAIN memoria
        BY <1>1, <4>3
      <4>5. memoria'[h + i - 1] = ls[(h + i - 1) - h + 1]
        BY <2>7, <4>3, <4>4
      <4> QED  BY <2>4, <2>7, <4>3, <4>4, <4>5
    <3> HIDE DEF k
    <3>4. /\ tablas'[d][k].archivo = p /\ tablas'[d][k].limite = Len(l)
          /\ \A j \in DOMAIN tablas'[d] : tablas'[d][j].archivo = p => k <= j
      BY <2>4, <2>9, <3>1, <3>2 DEF n
    <3>5. \A i \in DOMAIN l : /\ tablas'[d][k].base + i - 1 \in DOMAIN memoria'
                              /\ memoria'[tablas'[d][k].base + i - 1] = l[i]
      BY <2>9, <3>1, <3>3
    <3>6. CopiadoEnLineas(d, p, l)'
      BY <3>1, <3>4, <3>5 DEF CopiadoEnLineas
    <3> QED  BY <2>1, <2>9, <3>6
  <2> QED  BY <2>1, <2>8, <2>9 DEF ls, b
<1>5. CASE /\ UNCHANGED <<huecos, tablas, memoria>> /\ (Len(b) < todos \/ dir = -1)
  <2>1. CopiadoEnLineas(e, q, l)
    BY <1>1, <1>2, <1>3, <1>5
  <2> QED  BY <1>5, <2>1 DEF CopiadoEnLineas
<1> QED  BY <1>4, <1>5 DEF CargarParte

(* The line "r" of a frame is one of the memory, and of no other frame. *)
LEMMA LineaDeMarco ==
    ASSUME NEW m \in Marcos, NEW r \in 0 .. LineasPorPagina - 1
    PROVE  /\ m * LineasPorPagina + r \in 0 .. CantidadLineas - 1
           /\ (m * LineasPorPagina + r) \div LineasPorPagina = m
           /\ (m * LineasPorPagina + r) % LineasPorPagina = r
<1> DEFINE b == LineasPorPagina
           c == CantidadLineas
           q == c \div b
           z == c % b
           a == m * b + r
<1>1. b \in Nat \ {0} /\ c \in Nat
  BY SegmentacionAssumption, SegmentacionPaginadaAssumption
<1>2. q \in Nat /\ z \in 0 .. b - 1 /\ c = b * q + z
  BY <1>1, DivisionOK
<1>3. m \in 0 .. q - 1 /\ r \in 0 .. b - 1
  BY DEF Marcos
<1>4. a = b * m + r
  BY <1>1, <1>2, <1>3
<1> HIDE DEF a, b, c, q, z
<1>5. b * m \in Nat /\ a \in Nat
  BY <1>1, <1>2, <1>3, <1>4
<1>6. PICK t \in Nat : q = m + 1 + t
  <2>1. q - (m + 1) \in Nat
    BY <1>2, <1>3
  <2> QED  BY <1>2, <1>3, <2>1
<1>7. b * q = b * m + b + b * t /\ b * t \in Nat
  BY <1>1, <1>3, <1>6
<1>8. a < c
  BY <1>1, <1>2, <1>3, <1>4, <1>5, <1>7
<1>9. a \div b = m /\ a % b = r
  BY <1>1, <1>2, <1>3, <1>4, <1>5, DivisionUnica
<1>10. a \in 0 .. c - 1
  BY <1>1, <1>5, <1>8
<1> QED  BY <1>9, <1>10 DEF a, b, c

(* The line "i" of a file is in one of its pages. *)
LEMMA LineaEnPagina ==
    ASSUME NEW n \in Nat, NEW i \in 1 .. n
    PROVE  /\ (i - 1) \div LineasPorPagina + 1 \in 1 .. Paginas(n)
           /\ (i - 1) % LineasPorPagina \in 0 .. LineasPorPagina - 1
           /\ ((i - 1) \div LineasPorPagina) * LineasPorPagina
                + ((i - 1) % LineasPorPagina) + 1 = i
<1> DEFINE b == LineasPorPagina
           q == (i - 1) \div b
           r == (i - 1) % b
           a == i - 1 + b
           w == Paginas(n)
<1>1. b \in Nat \ {0} /\ i - 1 \in Nat
  BY SegmentacionPaginadaAssumption
<1>2. q \in Nat /\ r \in 0 .. b - 1 /\ i - 1 = b * q + r
  BY <1>1, DivisionOK
<1>3. w \in Nat
  BY PaginasOK
<1>4. w = (n + b - 1) \div b
  BY DEF Paginas
<1> HIDE DEF b, q, r, w
<1>5. a \in Nat /\ a = b * (q + 1) + r /\ n + b - 1 \in Nat /\ a <= n + b - 1
  BY <1>1, <1>2
<1> HIDE DEF a
<1>6. a \div b = q + 1
  BY <1>1, <1>2, <1>5, DivisionUnica
<1>7. a \div b <= w
  BY <1>1, <1>4, <1>5, DivisionMonotona
<1>8. q + 1 \in 1 .. w
  BY <1>2, <1>3, <1>6, <1>7
<1>9. q * b + r + 1 = i
  BY <1>1, <1>2
<1> QED  BY <1>2, <1>8, <1>9 DEF b, q, r, w

(* The line "r" of each frame after the "n" lines of a file were copied to  *)
(* the frames it takes                                                      *)
PaginasAjenas(ls, n, r) ==
    \A m \in Marcos \ ToSet(MarcosAUsar(n)) :
        CopiarEnMarcos(ls, n)[m * LineasPorPagina + r] = memoria[m * LineasPorPagina + r]

PaginasPropias(ls, n, r) ==
    \A k \in 1 .. Paginas(n) :
        (k - 1) * LineasPorPagina + r + 1 <= n
        => CopiarEnMarcos(ls, n)[MarcosAUsar(n)[k] * LineasPorPagina + r]
             = ls[(k - 1) * LineasPorPagina + r + 1]

LEMMA PaginaCopiada ==
    ASSUME SegmentacionTypeOK, marcosLibres \subseteq Marcos, NEW ls \in Seq(Seq(Bytes)),
           NEW n \in Nat \ {0}, n = Len(ls), Paginas(n) < Cardinality(marcosLibres),
           NEW r \in 0 .. LineasPorPagina - 1
    PROVE  PaginasAjenas(ls, n, r) /\ PaginasPropias(ls, n, r)
<1> DEFINE g == MarcosAUsar(n)
           I(l) == {i \in 1 .. Len(g) : g[i] = l \div LineasPorPagina}
           K(l) == IF I(l) # {} THEN Min(I(l)) ELSE 0
           X(l) == (K(l) - 1) * LineasPorPagina + (l % LineasPorPagina) + 1
           V(l) == IF K(l) = 0 THEN memoria[l]
                   ELSE IF X(l) <= n THEN ls[X(l)] ELSE <<Basura>>
<1>1. DOMAIN memoria = 0 .. CantidadLineas - 1
  BY DEF SegmentacionTypeOK
<1>2. CopiarEnMarcos(ls, n) = [l \in DOMAIN memoria |-> V(l)]
  BY DEF CopiarEnMarcos, SelectInSeq
<1>3. /\ g \in Seq(Marcos) /\ Len(g) = Paginas(n) /\ Paginas(n) \in Nat
      /\ IsInjective(g) /\ DOMAIN g = 1 .. Paginas(n)
  <2> HIDE DEF g
  <2>1. g \in Seq(Marcos) /\ Len(g) = Paginas(n) /\ IsInjective(g)
    BY MarcosAUsarOK DEF g
  <2>2. DOMAIN g = 1 .. Len(g)
    BY <2>1
  <2> QED  BY <2>1, <2>2, PaginasOK
<1> HIDE DEF g, V
<1>4. ASSUME NEW m \in Marcos \ ToSet(g)
      PROVE  CopiarEnMarcos(ls, n)[m * LineasPorPagina + r] = memoria[m * LineasPorPagina + r]
  <2> DEFINE l == m * LineasPorPagina + r
  <2>1. l \in 0 .. CantidadLineas - 1 /\ l \div LineasPorPagina = m
    BY LineaDeMarco
  <2> HIDE DEF l
  <2>2. I(l) = {}
    BY <1>3, <2>1 DEF ToSet
  <2>3. V(l) = memoria[l]
    <3>1. K(l) = 0
      BY <2>2
    <3> QED  BY <3>1 DEF V
  <2> QED  BY <1>1, <1>2, <2>1, <2>3 DEF l
<1>5. ASSUME NEW k \in 1 .. Paginas(n), (k - 1) * LineasPorPagina + r + 1 <= n
      PROVE  CopiarEnMarcos(ls, n)[g[k] * LineasPorPagina + r]
               = ls[(k - 1) * LineasPorPagina + r + 1]
  <2> DEFINE l == g[k] * LineasPorPagina + r
  <2>1. g[k] \in Marcos
    BY <1>3
  <2>2. /\ l \in 0 .. CantidadLineas - 1 /\ l \div LineasPorPagina = g[k]
        /\ l % LineasPorPagina = r
    BY <2>1, LineaDeMarco
  <2> HIDE DEF l
  <2>3. I(l) = {k}
    BY <1>3, <2>2 DEF IsInjective
  <2>4. K(l) = k
    <3>1. {k} \in SUBSET Nat
      BY <1>3
    <3>2. Min({k}) \in {k}
      BY <3>1, MinimoOK
    <3> QED  BY <2>3, <3>2
  <2>5. X(l) = (k - 1) * LineasPorPagina + r + 1
    BY <2>2, <2>4
  <2>6. V(l) = ls[X(l)]
    <3>1. k # 0 /\ X(l) <= n
      BY <1>3, <1>5, <2>5
    <3> QED  BY <2>4, <3>1 DEF V
  <2> QED  BY <1>1, <1>2, <2>2, <2>5, <2>6 DEF l
<1> QED  BY <1>4, <1>5 DEF g, PaginasAjenas, PaginasPropias

(* What a fragment makes of the buffer of a process *)
LEMMA BufferTras ==
    ASSUME SegmentacionTypeOK, NEW d \in Pids, NEW trozo \in Seq(Bytes),
           NEW b \in Buffers(d, trozo)
    PROVE  /\ b \in Seq(Bytes) /\ Len(b) = Len(cargandose[d]) + Len(trozo)
           /\ d \notin sueltos => b = cargandose[d] \o trozo
<1> DEFINE otro == [k \in DOMAIN cargandose[d] |-> Basura]
           u == cargandose[d]
           z == Len(u)
<1>1. u \in Seq(Bytes) /\ Basura \in Bytes
  BY SegmentacionPaginadaAssumption DEF SegmentacionTypeOK
<1>2. otro \in Seq(Bytes) /\ Len(otro) = z
  <2>1. DOMAIN u = 1 .. z /\ z \in Nat
    BY <1>1
  <2>2. otro = [k \in 1 .. z |-> Basura]
    BY <2>1
  <2> HIDE DEF z, otro
  <2> QED  BY <1>1, <2>1, <2>2
<1> HIDE DEF otro
<1>3. b = u \o trozo \/ (d \in sueltos /\ b = otro \o trozo)
  BY DEF Buffers, otro
<1> HIDE DEF u
<1>4. Len(u \o trozo) = z + Len(trozo) /\ u \o trozo \in Seq(Bytes)
  BY <1>1
<1> HIDE DEF z
<1>5. Len(otro \o trozo) = z + Len(trozo) /\ otro \o trozo \in Seq(Bytes)
  BY <1>2
<1> QED  BY <1>3, <1>4, <1>5 DEF u, z

(* A load under paged segmentation keeps the pages of the other files; and   *)
(* those of its own file, when it is the first of the process, have it.     *)
LEMMA CopiaEnMarcos ==
    ASSUME FM9TypeOK, UnSegmento, MarcosRepartidos,
           "FM9" \notin caidos, "FM9" \notin caidos',
           NEW d \in Pids, NEW p \in Paths, NEW trozo \in Seq(Bytes), NEW todos \in Nat, NEW dir,
           CargarPartePaginada(d, p, trozo, todos, dir),
           NEW e \in Pids, NEW q \in Paths, NEW l \in Seq(Seq(Bytes)),
           \/ CopiadoEnMarcos(e, q, l) /\ ~ (e = d /\ q = p)
           \/ /\ e = d /\ q = p /\ dir # -1
              /\ Len(cargandose[d]) + Len(trozo) >= todos
              /\ \A k \in DOMAIN paginadas[d] : paginadas[d][k].archivo # p
              /\ paginadas[d] = <<>>
                    => d \notin sueltos /\ l = Lineas(cargandose[d] \o trozo)
    PROVE  CopiadoEnMarcos(e, q, l)'
<1>1. /\ cargandose[d] \in Seq(Bytes) /\ paginadas \in [Pids -> Seq(SegmentoPaginado)]
      /\ paginadas[d] \in Seq(SegmentoPaginado) /\ paginadas[e] \in Seq(SegmentoPaginado)
      /\ marcosLibres \subseteq Marcos /\ SegmentacionTypeOK
  BY DEF FM9TypeOK, SegmentacionTypeOK, PaginadaTypeOK
<1>2. ~ CaeFM9
  BY DEF CaeFM9
<1> DEFINE Paso(b, n) ==
             \/ /\ UNCHANGED <<memoria, paginadas>>
                /\ Len(b) < todos \/ dir = -1
             \/ /\ Len(b) >= todos /\ n # 0 /\ ~ SigueUnNulo(d, p, n)
                /\ memoria' = CopiarEnMarcos(Lineas(b), n)
                /\ paginadas' = [paginadas EXCEPT ![d] = TablaTras(d, p, n)]
<1>3. PICK b \in Buffers(d, trozo) : Paso(b, Len(Lineas(b)))
  <2>1. \E b \in Buffers(d, trozo) : Paso(b, Len(Lineas(b)))
    BY <1>2 DEF CargarPartePaginada
  <2> HIDE DEF Paso
  <2> QED  BY <2>1
<1> DEFINE ls == Lineas(b)
           n == Len(ls)
<1>4. b \in Seq(Bytes) /\ ls \in Seq(Seq(Bytes)) /\ n \in Nat
  <2>1. b \in Seq(Bytes)
    BY BuffersOK DEF FM9TypeOK
  <2>2. ls \in Seq(Seq(Bytes))
    BY <2>1, LineasOK
  <2> HIDE DEF ls
  <2> QED  BY <2>1, <2>2
<1>5. Len(b) = Len(cargandose[d]) + Len(trozo)
  BY <1>1, BufferTras
<1>6. d \notin sueltos => b = cargandose[d] \o trozo
  BY DEF Buffers
<1>7. CASE UNCHANGED <<memoria, paginadas>> /\ (Len(b) < todos \/ dir = -1)
  <2>1. CopiadoEnMarcos(e, q, l)
    BY <1>1, <1>4, <1>5, <1>7
  <2> QED  BY <1>7, <2>1 DEF CopiadoEnMarcos, LineaDePagina
<1>8. CASE /\ Len(b) >= todos /\ n # 0 /\ ~ SigueUnNulo(d, p, n)
           /\ memoria' = CopiarEnMarcos(ls, n)
           /\ paginadas' = [paginadas EXCEPT ![d] = TablaTras(d, p, n)]
  <2> DEFINE g == MarcosAUsar(n)
  <2>1. n \in Nat \ {0} /\ Paginas(n) \in Nat /\ Paginas(n) < Cardinality(marcosLibres)
    <3>1. n \in Nat \ {0}
      BY <1>4, <1>8
    <3>2. Paginas(n) \in Nat /\ Cardinality(marcosLibres) \in Nat
      <4> HIDE DEF n
      <4> QED  BY <1>1, <3>1, PaginasOK, MarcosFinitos
    <3>3. ~ (Paginas(n) >= Cardinality(marcosLibres))
      BY <1>8, <3>1 DEF SigueUnNulo
    <3> HIDE DEF n
    <3> QED  BY <3>1, <3>2, <3>3
  <2>2. paginadas[d] # <<>> => \E k \in DOMAIN paginadas[d] : paginadas[d][k].archivo = p
    BY <1>8, <2>1 DEF SigueUnNulo
  <2> HIDE DEF ls
  <2>3. n = Len(ls)
    OBVIOUS
  <2> HIDE DEF n
  <2>4. g \in Seq(Marcos) /\ Len(g) = Paginas(n) /\ ToSet(g) \subseteq marcosLibres
    BY <1>1, <2>1, MarcosAUsarOK
  <2>5. paginadas'[d] = TablaTras(d, p, n) /\ \A f \in Pids \ {d} : paginadas'[f] = paginadas[f]
    BY <1>1, <1>8
  <2>6. CASE CopiadoEnMarcos(e, q, l) /\ ~ (e = d /\ q = p)
    <3>1. PICK k \in DOMAIN paginadas[e] :
             /\ paginadas[e][k].archivo = q
             /\ Len(paginadas[e][k].marcos) = Paginas(Len(l))
             /\ \A i \in DOMAIN l : memoria[LineaDePagina(paginadas[e][k].marcos, i)] = l[i]
      BY <2>6 DEF CopiadoEnMarcos
    <3>2. e # d
      <4> SUFFICES ASSUME e = d PROVE FALSE
        OBVIOUS
      <4>1. Len(paginadas[d]) <= 1 /\ k \in DOMAIN paginadas[d]
        BY <3>1 DEF UnSegmento
      <4>2. k = 1 /\ DOMAIN paginadas[d] = {1} /\ paginadas[d] # <<>>
        BY <1>1, <4>1, ALoSumoUno
      <4>3. paginadas[d][1].archivo = p
        BY <2>2, <4>2
      <4> QED  BY <2>6, <3>1, <4>2, <4>3
    <3> DEFINE h == paginadas[e][k].marcos
    <3>3. h \in Seq(Marcos) /\ Len(h) = Paginas(Len(l))
      <4>1. paginadas[e][k] \in SegmentoPaginado
        BY <1>1
      <4>2. h \in Seq(Marcos)
        BY <4>1 DEF SegmentoPaginado
      <4> QED  BY <3>1, <4>2
    <3>4. ToSet(h) \cap marcosLibres = {}
      <4> DEFINE x == <<e, k>>
      <4>1. x \in Paginados /\ SusMarcos(x) = ToSet(h)
        <5>1. \E f \in Pids : \E j \in DOMAIN paginadas[f] : x = <<f, j>>
          OBVIOUS
        <5>2. x \in Lugares(paginadas)
          <6> HIDE DEF x
          <6> QED  BY <5>1, LugaresOK
        <5> QED  BY <5>2 DEF Paginados, SusMarcos
      <4> HIDE DEF x, h
      <4>2. marcosLibres = Marcos \ UNION {SusMarcos(y) : y \in Paginados}
        BY DEF MarcosRepartidos
      <4>3. SusMarcos(x) \in {SusMarcos(y) : y \in Paginados}
        BY <4>1
      <4> QED  BY <4>1, <4>2, <4>3
    <3>5. ASSUME NEW i \in DOMAIN l
          PROVE  memoria'[LineaDePagina(h, i)] = l[i]
      <4> DEFINE j == (i - 1) \div LineasPorPagina + 1
                 r == (i - 1) % LineasPorPagina
                 m == h[j]
      <4>1. i \in 1 .. Len(l) /\ Len(l) \in Nat
        OBVIOUS
      <4>2. j \in 1 .. Paginas(Len(l)) /\ r \in 0 .. LineasPorPagina - 1
        <5> DEFINE z == Len(l)
        <5>1. z \in Nat /\ i \in 1 .. z
          BY <4>1
        <5> HIDE DEF z
        <5>2. /\ (i - 1) \div LineasPorPagina + 1 \in 1 .. Paginas(z)
              /\ (i - 1) % LineasPorPagina \in 0 .. LineasPorPagina - 1
          BY <5>1, LineaEnPagina
        <5> QED  BY <5>2 DEF z
      <4>3. LineaDePagina(h, i) = m * LineasPorPagina + r
        BY DEF LineaDePagina
      <4>4. memoria[LineaDePagina(h, i)] = l[i]
        BY <3>1
      <4> HIDE DEF j, r, h
      <4>5. j \in DOMAIN h
        BY <3>3, <4>2
      <4>6. m \in Marcos /\ m \in ToSet(h)
        BY <3>3, <4>5 DEF ToSet
      <4>7. m \in Marcos \ ToSet(g)
        BY <2>4, <3>4, <4>6
      <4> HIDE DEF m, g
      <4>8. CopiarEnMarcos(ls, n)[m * LineasPorPagina + r] = memoria[m * LineasPorPagina + r]
        <5>1. PaginasAjenas(ls, n, r)
          BY <1>1, <1>4, <2>1, <2>3, <4>2, PaginaCopiada
        <5> QED  BY <4>7, <5>1 DEF g, PaginasAjenas
      <4> QED  BY <1>8, <4>3, <4>4, <4>8
    <3>6. paginadas'[e] = paginadas[e]
      BY <2>5, <3>2
    <3>7. /\ paginadas'[e][k].archivo = q /\ k \in DOMAIN paginadas'[e]
          /\ Len(paginadas'[e][k].marcos) = Paginas(Len(l))
          /\ \A i \in DOMAIN l : memoria'[LineaDePagina(paginadas'[e][k].marcos, i)] = l[i]
      BY <3>1, <3>5, <3>6
    <3> QED  BY <3>7 DEF CopiadoEnMarcos, LineaDePagina
  <2>7. CASE /\ e = d /\ q = p
             /\ \A k \in DOMAIN paginadas[d] : paginadas[d][k].archivo # p
             /\ paginadas[d] = <<>>
                   => d \notin sueltos /\ l = Lineas(cargandose[d] \o trozo)
    <3>1. paginadas[d] = <<>>
      BY <2>2, <2>7
    <3>2. l = ls
      BY <1>6, <2>7, <3>1 DEF ls
    <3> DEFINE nuevo == [archivo |-> p, limite |-> Min({n, LineasPorPagina}), marcos |-> g]
    <3>3. TablaTras(d, p, n) = <<nuevo>>
      <4>1. DOMAIN paginadas[d] = {}
        BY <3>1
      <4>2. {k \in DOMAIN paginadas[d] : paginadas[d][k].archivo = p} = {}
        BY <4>1
      <4> QED  BY <4>2 DEF TablaTras
    <3>4. nuevo.archivo = p /\ nuevo.marcos = g
      OBVIOUS
    <3> HIDE DEF nuevo, g
    <3>5. paginadas'[e] = <<nuevo>>
      BY <2>5, <2>7, <3>3
    <3>6. 1 \in DOMAIN paginadas'[e] /\ paginadas'[e][1] = nuevo
      BY <3>5
    <3>7. ASSUME NEW i \in DOMAIN l
          PROVE  memoria'[LineaDePagina(g, i)] = l[i]
      <4> DEFINE j == (i - 1) \div LineasPorPagina + 1
                 r == (i - 1) % LineasPorPagina
      <4>1. i \in 1 .. n
        BY <2>3, <3>2
      <4>2. /\ j \in 1 .. Paginas(n) /\ r \in 0 .. LineasPorPagina - 1
            /\ ((i - 1) \div LineasPorPagina) * LineasPorPagina + r + 1 = i
        BY <2>1, <4>1, LineaEnPagina
      <4>3. LineaDePagina(g, i) = g[j] * LineasPorPagina + r
        BY DEF LineaDePagina
      <4>4. (i - 1) \div LineasPorPagina = j - 1
        <5> DEFINE z == (i - 1) \div LineasPorPagina
        <5>1. z \in Nat
          <6>1. i - 1 \in Nat
            BY <2>1, <4>1
          <6> QED  BY <6>1, DivisionOK, SegmentacionPaginadaAssumption
        <5> HIDE DEF z
        <5> QED  BY <5>1 DEF z
      <4>5. (j - 1) * LineasPorPagina + r + 1 = i
        BY <4>2, <4>4
      <4> HIDE DEF j, r
      <4>6. (j - 1) * LineasPorPagina + r + 1 <= n
        BY <2>1, <4>1, <4>5
      <4>7. CopiarEnMarcos(ls, n)[g[j] * LineasPorPagina + r] = ls[(j - 1) * LineasPorPagina + r + 1]
        <5>1. PaginasPropias(ls, n, r)
          BY <1>1, <1>4, <2>1, <2>3, <4>2, PaginaCopiada
        <5> QED  BY <4>2, <4>6, <5>1 DEF g, PaginasPropias
      <4> QED  BY <1>8, <3>2, <4>3, <4>5, <4>7
    <3>8. /\ paginadas'[e][1].archivo = q
          /\ Len(paginadas'[e][1].marcos) = Paginas(Len(l))
          /\ \A i \in DOMAIN l : memoria'[LineaDePagina(paginadas'[e][1].marcos, i)] = l[i]
      BY <2>3, <2>4, <2>7, <3>2, <3>4, <3>6, <3>7 DEF g
    <3> QED  BY <3>6, <3>8 DEF CopiadoEnMarcos, LineaDePagina
  <2> QED  BY <2>6, <2>7
<1> HIDE DEF n, ls
<1>9. <1>7!1 \/ <1>8!1
  BY <1>3 DEF n, ls
<1> QED  BY <1>7, <1>8, <1>9

(* A load adds to the names of a process, at most, that of the file it loads, *)
(* and only when nothing else of the process is in the way.                  *)
LEMMA NombresEnLineas ==
    ASSUME FM9TypeOK, modo = "SEG", modo' = modo,
           NEW d \in Pids, NEW p \in Paths, NEW trozo \in Seq(Bytes), NEW todos, NEW dir,
           CargarParte(d, p, trozo, todos, dir), NEW e \in Pids
    PROVE  \/ Nombrados(e)' \subseteq Nombrados(e)
           \/ /\ e = d /\ dir # -1 /\ Len(cargandose[d]) + Len(trozo) >= todos
              /\ Nombrados(e)' \subseteq Nombrados(e) \cup {p}
<1> DEFINE b == cargandose[d] \o trozo
           n == Len(Lineas(b))
           s == [base |-> NuevaBase(n), limite |-> n, archivo |-> p]
           u == tablas[d]
<1>1. /\ tablas \in [Pids -> Seq(Segmento)] /\ u \in Seq(Segmento)
      /\ Len(b) = Len(cargandose[d]) + Len(trozo)
  BY DEF FM9TypeOK, SegmentacionTypeOK
<1>2. CASE UNCHANGED tablas
  BY <1>2 DEF Nombrados, TablaDe
<1>3. CASE /\ Len(b) >= todos /\ dir = Len(tablas[d])
           /\ tablas' = [tablas EXCEPT ![d] = Append(@, s)]
  <2> HIDE DEF n
  <2>1. s.archivo = p
    OBVIOUS
  <2> HIDE DEF s, b
  <2>2. tablas'[d] = Append(u, s) /\ \A f \in Pids \ {d} : tablas'[f] = tablas[f]
    BY <1>1, <1>3
  <2> HIDE DEF u
  <2>3. /\ DOMAIN u = 1 .. Len(u) /\ Len(u) \in Nat /\ DOMAIN tablas'[d] = 1 .. Len(u) + 1
        /\ tablas'[d][Len(u) + 1] = s /\ \A k \in 1 .. Len(u) : tablas'[d][k] = u[k]
    BY <1>1, <2>2
  <2>4. CASE e # d
    BY <2>2, <2>4 DEF Nombrados, TablaDe
  <2>5. CASE e = d
    <3>1. dir # -1
      BY <1>3, <2>3 DEF u
    <3>2. ASSUME NEW k \in DOMAIN tablas'[d]
          PROVE  tablas'[d][k].archivo \in Nombrados(d) \cup {p}
      <4>1. CASE k = Len(u) + 1
        BY <2>1, <2>3, <4>1
      <4>2. CASE k # Len(u) + 1
        <5>1. k \in 1 .. Len(u)
          BY <2>3, <4>2
        <5> QED  BY <2>3, <5>1 DEF u, Nombrados, TablaDe
      <4> QED  BY <4>1, <4>2
    <3>3. Nombrados(e)' \subseteq Nombrados(e) \cup {p}
      BY <2>5, <3>2 DEF Nombrados, TablaDe
    <3> QED  BY <1>1, <1>3, <2>5, <3>1, <3>3
  <2> QED  BY <2>4, <2>5
<1> QED  BY <1>2, <1>3 DEF CargarParte

LEMMA NombresEnMarcos ==
    ASSUME FM9TypeOK, UnSegmento, modo = "SPA", modo' = modo, "FM9" \notin caidos',
           NEW d \in Pids, NEW p \in Paths, NEW trozo \in Seq(Bytes), NEW todos, NEW dir,
           CargarPartePaginada(d, p, trozo, todos, dir), NEW e \in Pids
    PROVE  \/ Nombrados(e)' \subseteq Nombrados(e)
           \/ /\ e = d /\ dir # -1 /\ Len(cargandose[d]) + Len(trozo) >= todos
              /\ Exacto(d) /\ Nombrados(e)' \subseteq Nombrados(e) \cup {p}
<1>1. Efecto(d, p, trozo, todos, dir)
  BY EfectoEnPaginas
<1>2. /\ paginadas[d] \in Seq(SegmentoPaginado) /\ PaginadaTypeOK'
      /\ paginadas'[d] \in Seq(SegmentoPaginado)
  BY CargarPartePaginadaOK DEF FM9TypeOK, PaginadaTypeOK
<1>3. dir = -1 => UNCHANGED paginadas
  BY DEF CargarPartePaginada, CaeFM9, paginacion
<1>4. CASE paginadas'[e] = paginadas[e]
  BY <1>4 DEF Nombrados, TablaDe
<1>5. CASE paginadas'[e] # paginadas[e]
  <2>1. e = d
    BY <1>1, <1>5 DEF Efecto, Ajenos
  <2>2. dir # -1 /\ Len(cargandose[d]) + Len(trozo) >= todos /\ EntradaBien(d, p, dir)'
    BY <1>1, <1>3, <1>5, <2>1 DEF Efecto, Guardado, Cargado
  <2>3. dir + 1 \in DOMAIN paginadas'[d] /\ paginadas'[d][dir + 1].archivo = p
    BY <2>2 DEF EntradaBien
  <2>4. Len(paginadas'[d]) <= 1 /\ Len(paginadas[d]) <= 1
    BY <1>1 DEF Efecto, Ajenos, UnSegmento
  <2>5. DOMAIN paginadas'[d] = {1} /\ paginadas'[d][1].archivo = p
    <3>1. dir + 1 = 1 /\ DOMAIN paginadas'[d] = {1}
      BY <1>2, <2>3, <2>4, ALoSumoUno
    <3> QED  BY <2>3, <3>1
  <2>6. Nombrados(e)' = {p}
    BY <2>1, <2>5 DEF Nombrados, TablaDe
  <2>7. CASE paginadas[d] = <<>>
    BY <2>1, <2>2, <2>6, <2>7 DEF Exacto
  <2>8. CASE paginadas[d] # <<>>
    <3> DEFINE q == paginadas[d][1].archivo
    <3>1. 1 \in DOMAIN paginadas[d]
      BY <1>2, <2>8
    <3>2. q \in Paths /\ q \in Nombrados(d)
      <4>1. paginadas[d][1] \in SegmentoPaginado
        BY <1>2, <3>1
      <4>2. q \in Paths
        BY <4>1 DEF SegmentoPaginado
      <4>3. TablaDe(d) = paginadas[d]
        BY DEF TablaDe
      <4>4. q \in Nombrados(d)
        BY <3>1, <4>3 DEF Nombrados
      <4> QED  BY <4>2, <4>4
    <3>3. ASSUME NEW r, r = q PROVE r = p
      <4>1. r \in Paths /\ EntradaBien(d, r, 0)
        BY <3>1, <3>2, <3>3 DEF EntradaBien
      <4>2. EntradaBien(d, r, 0)'
        BY <1>1, <4>1 DEF Efecto, Ajenos
      <4> QED  BY <2>5, <4>2 DEF EntradaBien
    <3>4. p \in Nombrados(d)
      BY <3>2, <3>3
    <3> QED  BY <2>1, <2>6, <3>4
  <2> QED  BY <2>7, <2>8
<1> QED  BY <1>4, <1>5

(* Both, for the loads of the DAM *)
LEMMA NombresDeCargar ==
    ASSUME TypeOK, UnSegmento, "FM9" \notin caidos', NEW dir, Cargar(dir), NEW e \in Pids
    PROVE  \/ Nombrados(e)' \subseteq Nombrados(e)
           \/ /\ e = dam.pid /\ Exacto(e) /\ dir # -1
              /\ Len(cargandose[e]) + Len(dam.parte.datos) >= dam.parte.total
              /\ Nombrados(e)' \subseteq Nombrados(e) \cup {dam.path}
<1>1. FM9TypeOK /\ dam.pid \in Pids /\ dam.path \in Paths /\ dam.parte.datos \in Seq(Bytes)
  BY DamOK DEF TypeOK, Dam
<1>2. "FM9" \notin caidos
  BY DEF Cargar, CargarParteEnMemoria
<1>3. /\ modo' = modo
      /\ \/ /\ modo = "SEG"
            /\ CargarParte(dam.pid, dam.path, dam.parte.datos, dam.parte.total, dir)
         \/ /\ modo = "SPA"
            /\ CargarPartePaginada(dam.pid, dam.path, dam.parte.datos, dam.parte.total, dir)
  BY <1>2 DEF Cargar, CargarParteEnMemoria
<1>4. CASE modo = "SEG"
  <2> DEFINE d == dam.pid
             p == dam.path
             trozo == dam.parte.datos
             todos == dam.parte.total
  <2>1. d \in Pids /\ p \in Paths /\ trozo \in Seq(Bytes) /\ CargarParte(d, p, trozo, todos, dir)
    BY <1>1, <1>3, <1>4
  <2> HIDE DEF d, p, trozo, todos
  <2>2. \/ Nombrados(e)' \subseteq Nombrados(e)
        \/ /\ e = d /\ dir # -1 /\ Len(cargandose[d]) + Len(trozo) >= todos
           /\ Nombrados(e)' \subseteq Nombrados(e) \cup {p}
    BY <1>1, <1>3, <1>4, <2>1, NombresEnLineas
  <2> QED  BY <1>4, <2>2 DEF Exacto, d, p, trozo, todos
<1>5. CASE modo = "SPA"
  <2> DEFINE d == dam.pid
             p == dam.path
             trozo == dam.parte.datos
             todos == dam.parte.total
  <2>1. /\ d \in Pids /\ p \in Paths /\ trozo \in Seq(Bytes)
        /\ CargarPartePaginada(d, p, trozo, todos, dir)
    BY <1>1, <1>3, <1>5
  <2> HIDE DEF d, p, trozo, todos
  <2>2. \/ Nombrados(e)' \subseteq Nombrados(e)
        \/ /\ e = d /\ dir # -1 /\ Len(cargandose[d]) + Len(trozo) >= todos
           /\ Exacto(d) /\ Nombrados(e)' \subseteq Nombrados(e) \cup {p}
    BY <1>1, <1>3, <1>5, <2>1, NombresEnMarcos
  <2> QED  BY <2>2 DEF d, p, trozo, todos
<1> QED  BY <1>3, <1>4, <1>5

\* The copy of the file q of the process e is not the one Cargar is making.
Queda(e, q, l) == Copiado(e, q, l) /\ ~ (e = dam.pid /\ q = dam.path)

\* The copy of q that Cargar makes with the last part of the file.
Nueva(e, q, l, dir) ==
    /\ e = dam.pid /\ q = dam.path /\ dir # -1
    /\ Len(cargandose[e]) + Len(dam.parte.datos) >= dam.parte.total
    /\ q \notin Nombrados(e)
    /\ Exacto(e) => /\ e \notin sueltos
                    /\ l = Lineas(cargandose[e] \o dam.parte.datos)

LEMMA CopiaDeCargar ==
    ASSUME InvMemoria, UnSegmento, "FM9" \notin caidos', huecos' # <<>>,
           NEW dir, Cargar(dir),
           NEW e \in Pids, NEW q \in Paths, NEW l \in Seq(Seq(Bytes)),
           Queda(e, q, l) \/ Nueva(e, q, l, dir)
    PROVE  huecos # <<>> /\ Copiado(e, q, l)'
<1>1. /\ FM9TypeOK /\ UnHueco /\ MemoriaRepartida /\ MarcosRepartidos
      /\ dam.pid \in Pids /\ dam.path \in Paths
      /\ dam.parte.datos \in Seq(Bytes) /\ dam.parte.total \in Nat
  BY DamOK DEF InvMemoria, TypeOK, Dam, Resultado
<1>2. "FM9" \notin caidos
  BY DEF Cargar, CargarParteEnMemoria
<1>3. /\ modo' = modo
      /\ \/ /\ modo = "SEG"
            /\ CargarParte(dam.pid, dam.path, dam.parte.datos, dam.parte.total, dir)
         \/ /\ modo = "SPA"
            /\ CargarPartePaginada(dam.pid, dam.path, dam.parte.datos, dam.parte.total, dir)
  BY <1>2 DEF Cargar, CargarParteEnMemoria
<1>4. CASE modo = "SEG"
  <2> DEFINE d == dam.pid
             p == dam.path
             trozo == dam.parte.datos
             todos == dam.parte.total
  <2>1. /\ d \in Pids /\ p \in Paths /\ trozo \in Seq(Bytes) /\ todos \in Nat
        /\ CargarParte(d, p, trozo, todos, dir)
    BY <1>1, <1>3, <1>4
  <2>3. \/ CopiadoEnLineas(e, q, l)
        \/ /\ e = d /\ q = p /\ l = Lineas(cargandose[d] \o trozo) /\ dir # -1
           /\ Len(cargandose[d]) + Len(trozo) >= todos
           /\ \A k \in DOMAIN tablas[d] : tablas[d][k].archivo # p
    BY <1>4 DEF Queda, Nueva, Copiado, Exacto, Nombrados, TablaDe
  <2> HIDE DEF d, p, trozo, todos
  <2>2. huecos # <<>> /\ CopiadoEnLineas(e, q, l)'
    BY <1>1, <2>1, <2>3, CopiaEnLineas
  <2> QED  BY <1>3, <1>4, <2>2 DEF Copiado
<1>5. CASE modo = "SPA"
  <2> DEFINE d == dam.pid
             p == dam.path
             trozo == dam.parte.datos
             todos == dam.parte.total
  <2>1. /\ d \in Pids /\ p \in Paths /\ trozo \in Seq(Bytes) /\ todos \in Nat
        /\ CargarPartePaginada(d, p, trozo, todos, dir)
    BY <1>1, <1>3, <1>5
  <2>4. \/ CopiadoEnMarcos(e, q, l) /\ ~ (e = d /\ q = p)
        \/ /\ e = d /\ q = p /\ dir # -1
           /\ Len(cargandose[d]) + Len(trozo) >= todos
           /\ \A k \in DOMAIN paginadas[d] : paginadas[d][k].archivo # p
           /\ paginadas[d] = <<>>
                 => d \notin sueltos /\ l = Lineas(cargandose[d] \o trozo)
    BY <1>5 DEF Queda, Nueva, Copiado, Exacto, Nombrados, TablaDe
  <2> HIDE DEF d, p, trozo, todos
  <2>2. CopiadoEnMarcos(e, q, l)'
    BY <1>1, <1>2, <2>1, <2>4, CopiaEnMarcos
  <2>3. huecos' = huecos
    BY <1>1, <1>3, <1>5, CargarPartePaginadaOK
  <2> QED  BY <1>3, <1>5, <2>2, <2>3 DEF Copiado
<1> QED  BY <1>3, <1>4, <1>5

(* Whatever is reported as open can be read because it was copied whole, and *)
(* is not copied upon: a process opens a file once, and has no segment of it *)
(* before.                                                                   *)
Abierto(d, p) == \E a \in abiertos : a.pid = d /\ a.path = p

NuncaAbierto == dam.en # "libre" => ~ Abierto(dam.pid, dam.path)

NombresAbiertos ==
    \A d \in Pids \ manchados :
        dtb[d] = "listo" => \A p \in Nombrados(d) : Abierto(d, p)

NombresEnCurso ==
    (dam.en \in {"pide", "mide", "carga", "ultima", "informa"} /\ dam.pid \notin manchados) =>
        /\ \A p \in Nombrados(dam.pid) : p = dam.path \/ Abierto(dam.pid, p)
        /\ dam.en # "informa" => dam.path \notin Nombrados(dam.pid)

Copias ==
    huecos # <<>> =>
        /\ \A a \in abiertos : a.entero => Copiado(a.pid, a.path, a.lineas)
        /\ (dam.en = "informa" /\ dam.pid \notin manchados /\ Integro) =>
              Copiado(dam.pid, dam.path, Lineas(dam.original))

Lectura == NuncaAbierto /\ NombresAbiertos /\ NombresEnCurso /\ Copias

InvLectura == InvMemoria /\ InvFragmentos /\ ("FM9" \notin caidos => Lectura)

LEMMA NadaDeLosNombres ==
    ASSUME UNCHANGED memoriaFM9
    PROVE  /\ \A d : Nombrados(d)' = Nombrados(d)
           /\ \A d, p, l : Copiado(d, p, l)' <=> Copiado(d, p, l)
           /\ huecos' = huecos
<1>1. UNCHANGED <<huecos, tablas, memoria, paginadas, modo>>
  BY DEF memoriaFM9, fm9, paginacion
<1>2. \A d : Nombrados(d)' = Nombrados(d)
  BY <1>1 DEF Nombrados, TablaDe
<1>3. \A d, p, l : Copiado(d, p, l)' <=> Copiado(d, p, l)
  BY <1>1 DEF Copiado, CopiadoEnLineas, CopiadoEnMarcos, LineaDePagina
<1> QED  BY <1>1, <1>2, <1>3

LEMMA CopiadoDeQuien ==
    ASSUME NEW d, NEW p, NEW l, dam'.pid = d, dam'.path = p, Lineas(dam'.original) = l,
           Copiado(d, p, l)'
    PROVE  Copiado(dam.pid, dam.path, Lineas(dam.original))'
  BY DEF Copiado, CopiadoEnLineas, CopiadoEnMarcos, LineaDePagina

LEMMA NombradosDeQuien ==
    ASSUME NEW d, dam'.pid = d
    PROVE  Nombrados(dam.pid)' = Nombrados(d)'
  BY DEF Nombrados, TablaDe

(* What is in the buffer with the fragment that follows *)
LEMMA ParteEntera ==
    ASSUME dam \in Dam, cargandose[dam.pid] \in Seq(Bytes), NEW k \in Nat,
           Integro, ParteBien(k), Acumula(k)
    PROVE  /\ dam.parte.size > 0 /\ k + dam.parte.size <= Tamanio
           /\ Len(cargandose[dam.pid]) + Len(dam.parte.datos) >= k + dam.parte.size
           /\ Exacto(dam.pid) =>
                /\ dam.pid \notin sueltos
                /\ cargandose[dam.pid] \o dam.parte.datos
                     = SubSeq(dam.original, 1, k + dam.parte.size)
                /\ Len(cargandose[dam.pid]) + Len(dam.parte.datos) = k + dam.parte.size
<1> DEFINE c == dam.original
           m == dam.parte.size
           trozo == dam.parte.datos
           v == cargandose[dam.pid]
           j == k + m
<1>1. c \in Seq(Bytes) /\ m \in Nat /\ trozo \in Seq(Bytes) /\ v \in Seq(Bytes)
  BY DamOK DEF Resultado
<1>2. m > 0 /\ j <= Len(c) /\ trozo = SubSeq(c, k + 1, j)
  BY DEF ParteBien, Tamanio
<1>3. /\ k <= Len(v)
      /\ Exacto(dam.pid) => v = SubSeq(c, 1, k) /\ dam.pid \notin sueltos
  BY DEF Acumula
<1>4. j \in Nat /\ k <= j /\ j - k = m
  BY <1>1
<1> HIDE DEF c, m, trozo, v, j
<1>5. /\ SubSeq(c, 1, k) \o trozo = SubSeq(c, 1, j)
      /\ Len(trozo) = j - k /\ Len(SubSeq(c, 1, k)) = k
  BY <1>1, <1>2, <1>4, Siguiente
<1>6. Len(trozo) = m /\ k + m = j
  BY <1>1, <1>4, <1>5
<1>7. Len(v) + Len(trozo) >= j
  <2> DEFINE l == Len(v)
  <2>1. l \in Nat /\ k <= l
    BY <1>1, <1>3
  <2> HIDE DEF l
  <2>2. l + m >= j
    BY <1>1, <1>6, <2>1
  <2> QED  BY <1>6, <2>2 DEF l
<1>8. Exacto(dam.pid) => /\ dam.pid \notin sueltos /\ v \o trozo = SubSeq(c, 1, j)
                         /\ Len(v) + Len(trozo) = j
  BY <1>3, <1>5, <1>6
<1>9. j <= Tamanio
  BY <1>2 DEF Tamanio, c
<1> QED  BY <1>2, <1>6, <1>7, <1>8, <1>9 DEF c, m, trozo, v, j

(* The steps that do not load, between the answer of MDJ and the report *)
LEMMA SinCargarLectura ==
    ASSUME Lectura, dam.en \in {"pide", "mide", "ultima"}, dam'.en # "libre",
           UNCHANGED <<memoriaFM9, dtb, abiertos, manchados>>,
           dam'.pid = dam.pid, dam'.path = dam.path, dam'.original = dam.original,
           dam'.en = "informa" => dam.pid \in manchados \/ ~ Integro
    PROVE  Lectura'
<1>1. NuncaAbierto'
  BY DEF Lectura, NuncaAbierto, Abierto
<1>2. NombresAbiertos'
  BY NadaDeLosNombres DEF Lectura, NombresAbiertos, Abierto
<1>3. NombresEnCurso'
  <2>1. PICK d : d = dam.pid
    OBVIOUS
  <2>2. Nombrados(dam.pid)' = Nombrados(dam.pid)
    BY <2>1, NadaDeLosNombres, NombradosDeQuien
  <2> QED  BY <2>2 DEF Lectura, NombresEnCurso, Abierto
<1>4. Copias'
  BY NadaDeLosNombres DEF Lectura, Copias, Integro
<1> QED  BY <1>1, <1>2, <1>3, <1>4 DEF Lectura

LEMMA HuecosAntes ==
    ASSUME TypeOK, NEW dir, Cargar(dir), huecos' # <<>>
    PROVE  huecos # <<>>
<1>1. FM9TypeOK /\ dam.pid \in Pids /\ dam.path \in Paths /\ dam.parte.datos \in Seq(Bytes)
  BY DamOK DEF TypeOK, Dam
<1>2. CASE CargarParte(dam.pid, dam.path, dam.parte.datos, dam.parte.total, dir)
  BY <1>2 DEF CargarParte, HayLugar
<1>3. CASE CargarPartePaginada(dam.pid, dam.path, dam.parte.datos, dam.parte.total, dir)
  BY <1>1, <1>3, CargarPartePaginadaOK
<1>4. CASE UNCHANGED memoriaFM9
  BY <1>4 DEF memoriaFM9, fm9
<1> QED  BY <1>2, <1>3, <1>4 DEF Cargar, CargarParteEnMemoria

(* What a load leaves of the others *)
LEMMA CargaAjena ==
    ASSUME InvMemoria, Fragmentos, Lectura, "FM9" \notin caidos', NEW dir, Cargar(dir),
           dam.en # "libre", UNCHANGED <<dtb, abiertos, manchados>>,
           dam'.pid = dam.pid, dam'.path = dam.path
    PROVE  /\ NuncaAbierto' /\ NombresAbiertos'
           /\ huecos' # <<>> =>
                \A a \in abiertos : a.entero => Copiado(a.pid, a.path, a.lineas)'
<1>1. TypeOK /\ UnSegmento /\ dam.pid \in Pids /\ dtb[dam.pid] = "bloqueado"
  BY DEF InvMemoria, TypeOK, Fragmentos, Bloqueado
<1>2. ~ Abierto(dam.pid, dam.path)
  BY DEF Lectura, NuncaAbierto
<1>3. NuncaAbierto'
  BY <1>2 DEF NuncaAbierto, Abierto
<1>4. NombresAbiertos'
  <2> SUFFICES ASSUME NEW d \in Pids \ manchados, dtb[d] = "listo", NEW p \in Nombrados(d)'
               PROVE  Abierto(d, p)'
    BY DEF NombresAbiertos
  <2>1. d # dam.pid
    BY <1>1
  <2>2. Nombrados(d)' \subseteq Nombrados(d)
    BY <1>1, <2>1, NombresDeCargar
  <2>3. Abierto(d, p)
    BY <2>2 DEF Lectura, NombresAbiertos
  <2> QED  BY <2>3 DEF Abierto
<1>5. ASSUME huecos' # <<>>, NEW a \in abiertos, a.entero
      PROVE  Copiado(a.pid, a.path, a.lineas)'
  <2> DEFINE e == a.pid
             q == a.path
             l == a.lineas
  <2>1. e \in Pids /\ q \in Paths /\ l \in Seq(Seq(Bytes))
    BY <1>1 DEF TypeOK
  <2>2. Copiado(e, q, l)
    BY <1>1, <1>5, HuecosAntes DEF Lectura, Copias
  <2>3. ~ (e = dam.pid /\ q = dam.path)
    BY <1>2 DEF Abierto
  <2> HIDE DEF e, q, l
  <2>4. Queda(e, q, l)
    BY <2>2, <2>3 DEF Queda
  <2>5. Copiado(e, q, l)'
    BY <1>1, <1>5, <2>1, <2>4, CopiaDeCargar
  <2> QED  BY <2>5 DEF e, q, l
<1> QED  BY <1>3, <1>4, <1>5

LEMMA CargarFragmentoLectura ==
    ASSUME InvMemoria, Fragmentos, Lectura, CargarFragmento, "FM9" \notin caidos'
    PROVE  Lectura'
<1>1. /\ dam \in Dam /\ TypeOK /\ UnSegmento /\ dam.en = "carga" /\ dam.pid \in Pids
      /\ cargandose[dam.pid] \in Seq(Bytes) /\ UNCHANGED <<dtb, abiertos, manchados>>
  BY DEF InvMemoria, TypeOK, FM9TypeOK, SegmentacionTypeOK, Dam, CargarFragmento, Fragmentos
<1>2. PICK dir \in Direcciones :
         /\ Cargar(dir)
         /\ dam' = IF dir = -1 THEN [dam EXCEPT !.en = "falla"]
                   ELSE [dam EXCEPT !.en = "pide", !.direccion = dir, !.bytes = BytesAPedir]
  BY DEF CargarFragmento
<1>3. /\ dam'.pid = dam.pid /\ dam'.path = dam.path
      /\ dam'.en = IF dir = -1 THEN "falla" ELSE "pide"
  BY <1>1, <1>2 DEF Dam
<1>4. /\ NuncaAbierto' /\ NombresAbiertos'
      /\ huecos' # <<>> =>
           \A a \in abiertos : a.entero => Copiado(a.pid, a.path, a.lineas)'
  BY <1>1, <1>2, <1>3, CargaAjena
<1>5. Copias'
  BY <1>1, <1>3, <1>4 DEF Copias
<1>6. ASSUME dir # -1, dam.pid \notin manchados
      PROVE  Nombrados(dam.pid)' \subseteq Nombrados(dam.pid)
  <2>1. CargaBien
    BY <1>1, <1>6 DEF Fragmentos, EnCurso
  <2>2. PICK d \in Pids : d = dam.pid
    BY <1>1
  <2>3. Nombrados(dam.pid)' = Nombrados(d)'
    BY <1>3, <2>2, NombradosDeQuien
  <2> DEFINE k == Desde
             j == k + dam.parte.size
             todos == dam.parte.total
             l == Len(cargandose[d]) + Len(dam.parte.datos)
  <2>4. k \in Nat /\ ParteBien(k) /\ Acumula(k) /\ Integro
    BY <2>1 DEF CargaBien
  <2>5. Exacto(d) => l = j
    <3> HIDE DEF k
    <3> QED  BY <1>1, <2>2, <2>4, ParteEntera
  <2>6. j < todos
    <3>1. dam.offset < Tamanio /\ todos = Tamanio
      BY <2>1 DEF CargaBien
    <3>2. dam.offset \in Nat /\ dam.parte.size \in Nat
      BY <1>1, DamOK
    <3>3. j = dam.offset
      BY <3>2 DEF Desde
    <3> QED  BY <3>1, <3>3
  <2>7. j \in Nat /\ todos \in Nat
    <3>1. dam.parte.size \in Nat /\ dam.parte.total \in Nat
      BY <1>1, DamOK DEF Resultado
    <3> HIDE DEF k
    <3> QED  BY <2>4, <3>1
  <2> HIDE DEF j, todos, l
  <2>8. Exacto(d) => ~ (l >= todos)
    BY <2>5, <2>6, <2>7
  <2>9. \/ Nombrados(d)' \subseteq Nombrados(d)
        \/ Exacto(d) /\ l >= todos
    BY <1>1, <1>2, NombresDeCargar DEF l, todos
  <2> QED  BY <2>2, <2>3, <2>8, <2>9
<1>7. NombresEnCurso'
  BY <1>1, <1>3, <1>6 DEF NombresEnCurso, Lectura, Abierto
<1> QED  BY <1>4, <1>5, <1>7 DEF Lectura

LEMMA CargarUltimoLectura ==
    ASSUME InvMemoria, Fragmentos, Lectura, CargarUltimo, "FM9" \notin caidos'
    PROVE  Lectura'
<1>1. /\ dam \in Dam /\ TypeOK /\ UnSegmento /\ dam.en = "ultima" /\ dam.pid \in Pids
      /\ cargandose[dam.pid] \in Seq(Bytes) /\ UNCHANGED <<dtb, abiertos, manchados>>
      /\ dam.path \in Paths /\ dam.original \in Seq(Bytes)
      /\ dam.parte.size \in Nat /\ dam.offset \in Nat
  BY DamOK DEF InvMemoria, TypeOK, FM9TypeOK, SegmentacionTypeOK, Dam, CargarUltimo, Fragmentos
<1>2. CASE /\ dam.parte.size = 0 /\ dam' = [dam EXCEPT !.en = "informa"]
           /\ UNCHANGED memoriaFM9
  <2>1. /\ dam'.en = "informa" /\ dam'.pid = dam.pid /\ dam'.path = dam.path
        /\ dam'.original = dam.original
    BY <1>1, <1>2 DEF Dam
  <2>2. dam.pid \notin manchados => ~ Integro
    BY <1>1, <1>2 DEF Fragmentos, EnCurso, UltimaBien, ParteBien
  <2> QED  BY <1>1, <1>2, <2>1, <2>2, SinCargarLectura
<1>3. ASSUME NEW dir \in Direcciones, Cargar(dir),
             dam' = IF dir = -1 THEN [dam EXCEPT !.en = "falla"]
                    ELSE [dam EXCEPT !.en = "informa", !.direccion = dir]
      PROVE  Lectura'
  <2>1. /\ dam'.pid = dam.pid /\ dam'.path = dam.path /\ dam'.original = dam.original
        /\ dam'.en = IF dir = -1 THEN "falla" ELSE "informa"
    BY <1>1, <1>3 DEF Dam
  <2>2. /\ NuncaAbierto' /\ NombresAbiertos'
        /\ huecos' # <<>> =>
             \A a \in abiertos : a.entero => Copiado(a.pid, a.path, a.lineas)'
    BY <1>1, <1>3, <2>1, CargaAjena
  <2>3. PICK d \in Pids : d = dam.pid
    BY <1>1
  <2>4. NombresEnCurso'
    <3>1. Nombrados(dam.pid)' = Nombrados(d)'
      BY <2>1, <2>3, NombradosDeQuien
    <3>2. Nombrados(d)' \subseteq Nombrados(d) \cup {dam.path}
      BY <1>1, <1>3, NombresDeCargar
    <3> QED  BY <1>1, <2>1, <2>3, <3>1, <3>2 DEF NombresEnCurso, Lectura, Abierto
  <2>5. ASSUME dir # -1, dam.pid \notin manchados, Integro, huecos' # <<>>
        PROVE  Copiado(dam.pid, dam.path, Lineas(dam.original))'
    <3> DEFINE k == Desde
               todos == dam.parte.total
               c == dam.original
    <3>1. UltimaBien
      BY <1>1, <2>5 DEF Fragmentos, EnCurso
    <3>2. k \in Nat /\ ParteBien(k) /\ Acumula(k) /\ dam.offset = Tamanio
      BY <2>5, <3>1 DEF UltimaBien
    <3>3. k + dam.parte.size = Tamanio
      BY <1>1, <3>2 DEF Desde
    <3> HIDE DEF k
    <3>4. /\ dam.parte.size > 0
          /\ Len(cargandose[d]) + Len(dam.parte.datos) >= k + dam.parte.size
          /\ Exacto(d) => /\ d \notin sueltos
                          /\ cargandose[d] \o dam.parte.datos = SubSeq(c, 1, k + dam.parte.size)
      BY <1>1, <2>3, <2>5, <3>2, ParteEntera
    <3>5. todos = Tamanio
      BY <3>1, <3>4 DEF UltimaBien
    <3>6. SubSeq(c, 1, Tamanio) = c
      <4>1. c \in Seq(Bytes) /\ Tamanio = Len(c)
        BY <1>1 DEF Tamanio
      <4> HIDE DEF c
      <4> QED  BY <4>1
    <3>7. PICK l : l = Lineas(c)
      OBVIOUS
    <3>8. l \in Seq(Seq(Bytes))
      BY <1>1, <3>7, LineasOK
    <3>9. PICK q \in Paths : q = dam.path
      BY <1>1
    <3>10. q \notin Nombrados(d)
      BY <1>1, <2>3, <2>5, <3>9 DEF Lectura, NombresEnCurso
    <3>11. Len(cargandose[d]) + Len(dam.parte.datos) >= dam.parte.total
      BY <3>3, <3>4, <3>5
    <3>12. Exacto(d) => d \notin sueltos /\ l = Lineas(cargandose[d] \o dam.parte.datos)
      BY <3>3, <3>4, <3>6, <3>7
    <3> HIDE DEF c, todos
    <3>13. Nueva(d, q, l, dir)
      BY <2>3, <2>5, <3>9, <3>10, <3>11, <3>12 DEF Nueva
    <3>14. Copiado(d, q, l)'
      BY <1>1, <1>3, <2>5, <3>8, <3>13, CopiaDeCargar
    <3> QED  BY <2>1, <2>3, <3>7, <3>9, <3>14, CopiadoDeQuien DEF c
  <2>6. Copias'
    <3>1. Integro' = Integro
      BY <2>1 DEF Integro
    <3> QED  BY <1>1, <2>1, <2>2, <2>5, <3>1 DEF Copias
  <2> QED  BY <2>2, <2>4, <2>6 DEF Lectura
<1> QED  BY <1>2, <1>3 DEF CargarUltimo

LEMMA AbrirPathLectura ==
    ASSUME TypeOK, Lectura, NEW d \in Pids, NEW p \in Paths, AbrirPath(d, p)
    PROVE  Lectura'
<1>1. /\ DamLibre \in Dam /\ dtb[d] = "listo" /\ dtb' = [dtb EXCEPT ![d] = "bloqueado"]
      /\ UNCHANGED <<memoriaFM9, archivos, abiertos, manchados>>
      /\ dtb \in [Pids -> {"listo", "bloqueado", "terminado"}]
      /\ ~ Abierto(d, p)
  BY DamLibreOK DEF AbrirPath, TypeOK, Abierto
<1>2. dam'.pid = d /\ dam'.path = p /\ dam'.en \in {"falla", "pide"}
  <2>1. CASE archivos[p] = NoExiste
    BY <1>1, <2>1 DEF AbrirPath, Dam
  <2>2. CASE archivos[p] # NoExiste
    <3>1. dam' = [DamLibre EXCEPT !.en = "pide", !.pid = d, !.path = p,
                                  !.original = archivos[p]]
      BY <2>2 DEF AbrirPath
    <3> QED  BY <1>1, <3>1 DEF Dam
  <2> QED  BY <2>1, <2>2
<1>3. NuncaAbierto'
  BY <1>1, <1>2 DEF NuncaAbierto, Abierto
<1>4. NombresAbiertos'
  <2> SUFFICES ASSUME NEW e \in Pids \ manchados, dtb'[e] = "listo", NEW q \in Nombrados(e)'
               PROVE  Abierto(e, q)'
    BY <1>1 DEF NombresAbiertos
  <2>1. dtb[e] = "listo" /\ q \in Nombrados(e)
    BY <1>1, NadaDeLosNombres
  <2>2. Abierto(e, q)
    BY <2>1 DEF Lectura, NombresAbiertos
  <2> QED  BY <1>1, <2>2 DEF Abierto
<1>5. NombresEnCurso'
  <2>1. Nombrados(dam.pid)' = Nombrados(d)
    BY <1>1, <1>2, NombradosDeQuien, NadaDeLosNombres
  <2>2. d \notin manchados => \A q \in Nombrados(d) : Abierto(d, q)
    BY <1>1 DEF Lectura, NombresAbiertos
  <2>3. d \notin manchados => p \notin Nombrados(d)
    BY <1>1, <2>2
  <2> QED  BY <1>1, <1>2, <2>1, <2>2, <2>3 DEF NombresEnCurso, Abierto
<1>6. Copias'
  BY <1>1, <1>2, NadaDeLosNombres DEF Lectura, Copias
<1> QED  BY <1>3, <1>4, <1>5, <1>6 DEF Lectura

LEMMA InformarLectura ==
    ASSUME TypeOK, Fragmentos, Lectura, InformarExito \/ InformarFallo
    PROVE  Lectura'
<1>1. /\ dam.pid \in Pids /\ dtb[dam.pid] = "bloqueado"
      /\ UNCHANGED <<memoriaFM9, manchados>>
      /\ dtb \in [Pids -> {"listo", "bloqueado", "terminado"}]
      /\ dam' = DamLibre /\ DamLibre.en = "libre"
  BY DEF TypeOK, Fragmentos, Bloqueado, InformarExito, InformarFallo, Informar, CaeDAM, DamLibre
<1>2. abiertos \subseteq abiertos'
  BY DEF InformarExito, InformarFallo
<1>3. NuncaAbierto' /\ NombresEnCurso'
  BY <1>1 DEF NuncaAbierto, NombresEnCurso
<1>4. NombresAbiertos'
  <2> SUFFICES ASSUME NEW e \in Pids \ manchados, dtb'[e] = "listo", NEW q \in Nombrados(e)'
               PROVE  Abierto(e, q)'
    BY <1>1 DEF NombresAbiertos
  <2>1. q \in Nombrados(e)
    BY <1>1, NadaDeLosNombres
  <2>2. CASE dtb[e] = "listo"
    <3>1. Abierto(e, q)
      BY <2>1, <2>2 DEF Lectura, NombresAbiertos
    <3> QED  BY <1>2, <3>1 DEF Abierto
  <2>3. CASE dtb[e] # "listo"
    <3>1. e = dam.pid /\ InformarExito /\ "SAFA" \notin caidos
      BY <1>1, <2>3 DEF InformarExito, InformarFallo, Informar
    <3>2. q = dam.path \/ Abierto(e, q)
      BY <2>1, <3>1 DEF InformarExito, Lectura, NombresEnCurso
    <3>3. \E a \in abiertos' : a.pid = dam.pid /\ a.path = dam.path
      <4> DEFINE a == [pid |-> dam.pid, path |-> dam.path, direccion |-> dam.direccion,
                       lineas |-> Lineas(dam.original),
                       entero |-> /\ dam.pid \notin manchados
                                  /\ dam.path \notin Ilegibles
                                  /\ Len(dam.original) >= TransferSize]
      <4>1. a \in abiertos'
        BY <3>1, Zenon DEF InformarExito
      <4>2. a.pid = dam.pid /\ a.path = dam.path
        OBVIOUS
      <4> HIDE DEF a
      <4> QED  BY <4>1, <4>2
    <3> QED  BY <1>2, <3>1, <3>2, <3>3 DEF Abierto
  <2> QED  BY <2>2, <2>3
<1>5. Copias'
  <2> SUFFICES ASSUME huecos # <<>>, NEW a \in abiertos', a.entero
               PROVE  Copiado(a.pid, a.path, a.lineas)
    BY <1>1, NadaDeLosNombres DEF Copias
  <2>1. CASE a \in abiertos
    BY <2>1 DEF Lectura, Copias
  <2>2. CASE a \notin abiertos
    <3>1. InformarExito
      BY <2>2 DEF InformarFallo
    <3>2. a = [pid |-> dam.pid, path |-> dam.path, direccion |-> dam.direccion,
               lineas |-> Lineas(dam.original),
               entero |-> /\ dam.pid \notin manchados
                          /\ dam.path \notin Ilegibles
                          /\ Len(dam.original) >= TransferSize]
      BY <2>2, <3>1 DEF InformarExito
    <3>3. /\ a.pid = dam.pid /\ a.path = dam.path /\ a.lineas = Lineas(dam.original)
          /\ dam.pid \notin manchados /\ Integro
      BY <3>2, Zenon DEF Integro
    <3> QED  BY <3>1, <3>3 DEF InformarExito, Lectura, Copias
  <2> QED  BY <2>1, <2>2
<1> QED  BY <1>3, <1>4, <1>5 DEF Lectura

(* Nothing is loaded and nobody is reported; at most one more process is set *)
(* aside.                                                                    *)
LEMMA NadaLectura ==
    ASSUME Lectura, UNCHANGED <<memoriaFM9, dam, dtb, abiertos>>, manchados \subseteq manchados'
    PROVE  Lectura'
<1>1. NuncaAbierto'
  BY DEF Lectura, NuncaAbierto, Abierto
<1>2. NombresAbiertos'
  <2> SUFFICES ASSUME NEW d \in Pids \ manchados', dtb[d] = "listo", NEW p \in Nombrados(d)'
               PROVE  Abierto(d, p)'
    BY DEF NombresAbiertos
  <2>1. d \in Pids \ manchados /\ p \in Nombrados(d)
    BY NadaDeLosNombres
  <2>2. Abierto(d, p)
    BY <2>1 DEF Lectura, NombresAbiertos
  <2> QED  BY <2>2 DEF Abierto
<1>3. NombresEnCurso'
  <2>1. PICK d : d = dam.pid
    OBVIOUS
  <2>2. Nombrados(dam.pid)' = Nombrados(dam.pid)
    BY <2>1, NadaDeLosNombres, NombradosDeQuien
  <2> QED  BY <2>2 DEF Lectura, NombresEnCurso, Abierto
<1>4. Copias'
  BY NadaDeLosNombres DEF Lectura, Copias, Integro
<1> QED  BY <1>1, <1>2, <1>3, <1>4 DEF Lectura

LEMMA PedirMedirLectura ==
    ASSUME TypeOK, Lectura, PedirDatos \/ Medir
    PROVE  Lectura'
<1>1. dam \in Dam
  BY DEF TypeOK, Dam
<1>2. /\ dam.en \in {"pide", "mide"} /\ dam'.en \in {"mide", "carga", "ultima"}
      /\ dam'.pid = dam.pid /\ dam'.path = dam.path /\ dam'.original = dam.original
  <2>1. CASE PedirDatos
    <3>1. PICK r : dam' = [dam EXCEPT !.en = "mide", !.parte = r]
      BY <2>1 DEF PedirDatos
    <3> QED  BY <1>1, <2>1, <3>1 DEF PedirDatos, Dam
  <2>2. CASE Medir
    BY <1>1, <2>2 DEF Medir, Dam
  <2> QED  BY <2>1, <2>2
<1> QED  BY <1>2, SinCargarLectura DEF PedirDatos, Medir

LEMMA InicioLectura == Init => InvLectura
<1> SUFFICES ASSUME Init PROVE InvLectura
  OBVIOUS
<1>1. InvMemoria /\ InvFragmentos
  BY InicioMemoria, InicioFragmentos
<1>2. dam.en = "libre" /\ abiertos = {}
  BY DEF Init, DamLibre
<1>3. \A d \in Pids : tablas[d] = <<>> /\ paginadas[d] = <<>>
  BY DEF Init, FM9Init, SegmentacionInit, PaginadaInit
<1>4. \A d \in Pids : Nombrados(d) = {}
  <2>1. DOMAIN <<>> = {}
    OBVIOUS
  <2> QED  BY <1>3, <2>1 DEF Nombrados, TablaDe
<1>5. Lectura
  BY <1>2, <1>4 DEF Lectura, NuncaAbierto, NombresAbiertos, NombresEnCurso, Copias
<1> QED  BY <1>1, <1>5 DEF InvLectura

LEMMA PasoLectura ==
    ASSUME TransferSize <= TamanioBloques
    PROVE  InvLectura /\ [Next]_vars => InvLectura'
<1> SUFFICES ASSUME InvLectura, [Next]_vars PROVE InvLectura'
  OBVIOUS
<1>1. InvMemoria' /\ InvFragmentos'
  BY PasoMemoria, PasoFragmentos DEF InvLectura
<1> SUFFICES ASSUME "FM9" \notin caidos' PROVE Lectura'
  BY <1>1 DEF InvLectura
<1>2. /\ TypeOK /\ InvMemoria /\ caidos \subseteq caidos' /\ "FM9" \notin caidos
      /\ Fragmentos /\ Lectura
  <2>1. TypeOK
    BY DEF InvLectura, InvMemoria
  <2>2. caidos \subseteq caidos'
    BY <2>1, NadieSeLevanta
  <2> QED  BY <2>1, <2>2 DEF InvLectura, InvFragmentos
<1>3. CASE PasoDAM
  <2>1. ~ CargarSinFM9
    BY <1>2 DEF CargarSinFM9
  <2>2. CASE PedirDatos \/ Medir
    BY <1>2, <2>2, PedirMedirLectura
  <2>3. CASE CargarFragmento
    BY <1>2, <2>3, CargarFragmentoLectura
  <2>4. CASE CargarUltimo
    BY <1>2, <2>4, CargarUltimoLectura
  <2>5. CASE InformarExito \/ InformarFallo
    BY <1>2, <2>5, InformarLectura
  <2> QED  BY <1>3, <2>1, <2>2, <2>3, <2>4, <2>5 DEF PasoDAM
<1>4. ASSUME NEW p \in Paths, Consola(p) PROVE Lectura'
  BY <1>2, <1>4, NadaLectura DEF Consola, Tocado
<1>5. ASSUME NEW d \in Pids, NEW p \in Paths, AbrirPath(d, p) PROVE Lectura'
  BY <1>2, <1>5, AbrirPathLectura
<1>6. CASE UNCHANGED vars
  BY <1>2, <1>6, NadaLectura DEF vars
<1> QED  BY <1>3, <1>4, <1>5, <1>6 DEF Next

-----------------------------------------------------------------------------
(* What was copied is what is read *)

LEMMA LineasLeidas ==
    ASSUME NEW d \in Pids, NEW p, NEW ls \in Seq(Seq(Bytes)), tablas[d] \in Seq(Segmento),
           CopiadoEnLineas(d, p, ls)
    PROVE  /\ \A i \in DOMAIN ls : LineaParaElCPU(d, p, i) = ls[i]
           /\ LineaParaElCPU(d, p, Len(ls) + 1) = Nulo
<1> DEFINE suyos == {k \in DOMAIN tablas[d] : tablas[d][k].archivo = p}
           m == CHOOSE k \in suyos : \A j \in suyos : k <= j
<1>1. PICK k \in DOMAIN tablas[d] :
         /\ tablas[d][k].archivo = p /\ tablas[d][k].limite = Len(ls)
         /\ \A j \in DOMAIN tablas[d] : tablas[d][j].archivo = p => k <= j
         /\ \A i \in DOMAIN ls : /\ tablas[d][k].base + i - 1 \in DOMAIN memoria
                                 /\ memoria[tablas[d][k].base + i - 1] = ls[i]
  BY DEF CopiadoEnLineas
<1>2. k \in suyos /\ \A j \in suyos : k <= j
  BY <1>1
<1>3. suyos \subseteq Nat
  OBVIOUS
<1>4. m = k
  <2> HIDE DEF suyos
  <2>1. m \in suyos /\ \A j \in suyos : m <= j
    BY <1>2
  <2> HIDE DEF m
  <2>2. m <= k /\ k <= m /\ m \in Nat /\ k \in Nat
    BY <1>2, <1>3, <2>1
  <2> QED  BY <2>2
<1>5. \A pc : LineaParaElCPU(d, p, pc) =
                 IF pc > Len(ls) THEN Nulo
                 ELSE IF tablas[d][k].base + pc - 1 \in DOMAIN memoria
                 THEN memoria[tablas[d][k].base + pc - 1] ELSE Fuera
  <2>1. suyos # {}
    BY <1>2
  <2>2. tablas[d][m].limite = Len(ls) /\ tablas[d][m].base = tablas[d][k].base
    BY <1>1, <1>4
  <2> HIDE <1>4
  <2> QED  BY <2>1, <2>2 DEF LineaParaElCPU
<1>6. \A i \in DOMAIN ls : ~ (i > Len(ls))
  OBVIOUS
<1>7. Len(ls) + 1 > Len(ls)
  OBVIOUS
<1> HIDE DEF suyos, m
<1> QED  BY <1>1, <1>5, <1>6, <1>7

LEMMA PaginasLeidas ==
    ASSUME NEW ls \in Seq(Seq(Bytes)), NEW s, s.marcos \in Seq(Nat),
           Len(s.marcos) = Paginas(Len(ls)),
           \A i \in DOMAIN ls : memoria[LineaDePagina(s.marcos, i)] = ls[i]
    PROVE  IsPrefix(ls, LineasDelSegmento(s))
<1> DEFINE f == LineasDelSegmento(s)
           n == Len(ls)
           b == LineasPorPagina
           w == Paginas(n)
<1>1. n \in Nat /\ b \in Nat \ {0} /\ w \in Nat /\ DOMAIN ls = 1 .. n
  BY SegmentacionPaginadaAssumption, PaginasOK
<1>2. w * b \in Nat
  <2> HIDE DEF w, b
  <2> QED  BY <1>1
<1>3. /\ DOMAIN f = 1 .. w * b /\ Len(f) = w * b
      /\ \A i \in 1 .. w * b : f[i] = memoria[LineaDePagina(s.marcos, i)]
  <2>1. f = [i \in 1 .. w * b |-> memoria[LineaDePagina(s.marcos, i)]]
    BY DEF LineasDelSegmento, LineaDePagina
  <2> HIDE DEF f, w, b
  <2>2. DOMAIN f = 1 .. w * b
    BY <2>1
  <2>3. Len(f) = w * b
    BY <1>2, <2>2
  <2> QED  BY <2>1, <2>2, <2>3
<1>4. n <= w * b
  <2>1. CASE n = 0
    <3> HIDE DEF w, b, n
    <3> QED  BY <1>2, <2>1
  <2>2. CASE n # 0
    <3> DEFINE q == (n - 1) \div b
               r == (n - 1) % b
    <3>1. n \in 1 .. n
      BY <1>1, <2>2
    <3>2. q + 1 \in 1 .. w /\ r \in 0 .. b - 1 /\ q * b + r + 1 = n /\ n - 1 \in Nat
      <4>1. \A i \in 1 .. n :
               /\ (i - 1) \div b + 1 \in 1 .. w
               /\ (i - 1) % b \in 0 .. b - 1
               /\ ((i - 1) \div b) * b + ((i - 1) % b) + 1 = i
        <5> HIDE DEF n
        <5> QED  BY <1>1, LineaEnPagina
      <4> HIDE DEF n, b, w
      <4> QED  BY <1>1, <2>2, <3>1, <4>1
    <3>3. q \in Nat
      <4> HIDE DEF n, b, w
      <4> QED  BY <1>1, <3>2, DivisionOK
    <3> HIDE DEF q, r, n, b, w
    <3>4. (q + 1) * b <= w * b
      <4> DEFINE z == w - (q + 1)
      <4>1. z \in Nat /\ w = (q + 1) + z
        BY <1>1, <3>2, <3>3
      <4> HIDE DEF z
      <4>2. w * b = (q + 1) * b + z * b /\ z * b \in Nat /\ (q + 1) * b \in Nat
        BY <1>1, <3>3, <4>1
      <4> QED  BY <4>2
    <3>5. (q + 1) * b = q * b + b /\ q * b \in Nat
      BY <1>1, <3>3
    <3> QED  BY <1>1, <1>2, <3>2, <3>4, <3>5
  <2> QED  BY <2>1, <2>2
<1>5. ls = SubSeq(f, 1, n)
  <2>1. \A i \in 1 .. n : i \in 1 .. w * b /\ f[i] = ls[i]
    <3> HIDE DEF f, n, w, b
    <3>1. 1 .. n \subseteq 1 .. w * b
      BY <1>1, <1>2, <1>4
    <3> QED  BY <1>1, <1>3, <3>1
  <2>2. SubSeq(f, 1, n) = [i \in 1 .. n |-> f[i]]
    <3> HIDE DEF f, n
    <3> QED  BY <1>1
  <2>3. ls = [i \in 1 .. n |-> ls[i]]
    BY <1>1
  <2> HIDE DEF f, n
  <2> QED  BY <2>1, <2>2, <2>3
<1> HIDE DEF f
<1>6. Len(ls) <= Len(f)
  <2> HIDE DEF w, b
  <2> QED  BY <1>3, <1>4
<1>7. ls = SubSeq(f, 1, Len(ls))
  BY <1>5
<1>8. IsPrefix(ls, f)
  BY <1>6, <1>7 DEF IsPrefix
<1> QED  BY <1>8 DEF f

LEMMA SeLeeLoCopiado ==
    ASSUME TypeOK, NEW a \in abiertos, Copiado(a.pid, a.path, a.lineas)
    PROVE  SeLee(a)
<1> DEFINE d == a.pid
           p == a.path
           l == a.lineas
<1>1. /\ d \in Pids /\ p \in Paths /\ l \in Seq(Seq(Bytes))
      /\ tablas[d] \in Seq(Segmento) /\ paginadas[d] \in Seq(SegmentoPaginado)
  BY DEF TypeOK, FM9TypeOK, SegmentacionTypeOK, PaginadaTypeOK
<1>2. CASE modo = "SEG"
  <2>1. CopiadoEnLineas(d, p, l)
    BY <1>2 DEF Copiado
  <2> HIDE DEF d, p, l
  <2>2. /\ \A i \in DOMAIN l : LineaParaElCPU(d, p, i) = l[i]
        /\ LineaParaElCPU(d, p, Len(l) + 1) = Nulo
    BY <1>1, <2>1, LineasLeidas
  <2> QED  BY <1>2, <2>2 DEF SeLee, d, p, l
<1>3. CASE modo = "SPA"
  <2>1. CopiadoEnMarcos(d, p, l)
    BY <1>3 DEF Copiado
  <2>2. PICK k \in DOMAIN paginadas[d] :
           /\ paginadas[d][k].archivo = p
           /\ Len(paginadas[d][k].marcos) = Paginas(Len(l))
           /\ \A i \in DOMAIN l : memoria[LineaDePagina(paginadas[d][k].marcos, i)] = l[i]
    BY <2>1 DEF CopiadoEnMarcos
  <2>3. PICK s : s = paginadas[d][k]
    OBVIOUS
  <2>4. /\ s \in ToSet(paginadas[d]) /\ s.archivo = p
        /\ Len(s.marcos) = Paginas(Len(l))
        /\ \A i \in DOMAIN l : memoria[LineaDePagina(s.marcos, i)] = l[i]
    BY <2>2, <2>3 DEF ToSet
  <2>5. s.marcos \in Seq(Nat)
    <3>1. s \in SegmentoPaginado
      BY <1>1, <2>3
    <3>2. Marcos \subseteq Nat
      BY DEF Marcos
    <3>3. PICK g \in Seq(Marcos) : g = s.marcos
      BY <3>1 DEF SegmentoPaginado
    <3>4. \A i \in 1 .. Len(g) : g[i] \in Nat
      <4>1. \A i \in 1 .. Len(g) : g[i] \in Marcos
        BY ElementOfSeq
      <4> QED  BY <3>2, <4>1
    <3>5. g = [i \in 1 .. Len(g) |-> g[i]] /\ Len(g) \in Nat
      OBVIOUS
    <3>6. g \in Seq(Nat)
      BY <3>4, <3>5, SeqDef
    <3> QED  BY <3>3, <3>6
  <2> HIDE DEF d, p, l
  <2>6. IsPrefix(l, LineasDelSegmento(s))
    BY <1>1, <2>4, <2>5, PaginasLeidas
  <2> QED  BY <1>3, <2>4, <2>6 DEF SeLee, d, p, l
<1> QED  BY <1>2, <1>3 DEF Copiado

LEMMA LoAbierto == InvLectura => LoAbiertoSeLee
<1> SUFFICES ASSUME InvLectura, huecos # <<>>, "FM9" \notin caidos,
                    NEW a \in abiertos, a.entero
             PROVE  SeLee(a)
  BY DEF LoAbiertoSeLee
<1>1. TypeOK
  BY DEF InvLectura, InvMemoria
<1>2. Copiado(a.pid, a.path, a.lineas)
  BY DEF InvLectura, Lectura, Copias
<1> QED  BY <1>1, <1>2, SeLeeLoCopiado

(* What a file is once it was reported: its copy is whole, under a name that *)
(* the process loads once, so that no later load of it, or of any other      *)
(* process, is in the place of that copy.                                    *)
THEOREM InvarianteDeLectura ==
    ASSUME TransferSize <= TamanioBloques
    PROVE  Spec => []InvLectura
<1>1. Init => InvLectura
  BY InicioLectura
<1>2. InvLectura /\ [Next]_vars => InvLectura'
  BY PasoLectura
<1> QED  BY <1>1, <1>2, PTL DEF Spec

(* A file reported as open, that nobody touched on its way, is read from FM9 *)
(* as it was in MDJ when the DAM validated it, whatever is loaded later.     *)
THEOREM LecturaDeLoAbierto ==
    ASSUME TransferSize <= TamanioBloques
    PROVE  Spec => []LoAbiertoSeLee
<1>1. Spec => []InvLectura
  BY InvarianteDeLectura
<1> QED  BY <1>1, LoAbierto, PTL
=============================================================================
