----------------------------- MODULE TurnosProofs ------------------------------
(***************************************************************************)
(* Proofs about the turns of the scheduler, for every number of CPUs and    *)
(* scripts: every DTB is in one place, no CPU runs the DTB of another, SAFA *)
(* dies only of a message that overtook another, and Planificacion          *)
(* implements CicloDeScript.  The hypotheses are in each theorem.           *)
(***************************************************************************)
EXTENDS Turnos, PlanificacionProofs, FunctionTheorems, FiniteSetTheorems

-----------------------------------------------------------------------------
(* Lists without repetitions *)

(* A DTB is not a NULL. *)
LEMMA DTBNoNulo ==
    ASSUME NEW i \in DTB
    PROVE  i \in Nat /\ i # NULO
  BY RedAssumption DEF DTB, NULO

(* Adding what is not there, or a NULL, repeats nothing. *)
LEMMA AgregarALista ==
    ASSUME NEW S, NEW s \in Seq(S), NEW e \in S
    PROVE  /\ \A x : x \in ToSet(Append(s, e)) <=> x \in ToSet(s) \/ x = e
           /\ SinRepetir(s) /\ (e \notin ToSet(s) \/ e = NULO) => SinRepetir(Append(s, e))
<1> DEFINE t == Append(s, e)
<1>1. /\ Len(s) \in Nat /\ Len(t) = Len(s) + 1
      /\ DOMAIN s = 1 .. Len(s) /\ DOMAIN t = 1 .. Len(t)
      /\ \A k \in 1 .. Len(s) : t[k] = s[k]
      /\ t[Len(s) + 1] = e
  OBVIOUS
<1>2. \A x : x \in ToSet(t) <=> x \in ToSet(s) \/ x = e
  <2> HIDE DEF t
  <2>1. ASSUME NEW x, x \in ToSet(t)  PROVE x \in ToSet(s) \/ x = e
    <3>1. PICK k \in DOMAIN t : t[k] = x
      BY <2>1 DEF ToSet
    <3> QED  BY <3>1, <1>1 DEF ToSet
  <2>2. ASSUME NEW x, x \in ToSet(s) \/ x = e  PROVE x \in ToSet(t)
    BY <2>2, <1>1 DEF ToSet
  <2> QED  BY <2>1, <2>2
<1>3. ASSUME SinRepetir(s), e \notin ToSet(s) \/ e = NULO
      PROVE  SinRepetir(t)
  <2> HIDE DEF t
  <2>1. \A k \in 1 .. Len(s) : s[k] = e => e = NULO
    BY <1>1, <1>3 DEF ToSet
  <2> SUFFICES ASSUME NEW j \in DOMAIN t, NEW k \in DOMAIN t, t[j] = t[k], t[j] # NULO
               PROVE  j = k
    BY DEF SinRepetir
  <2>2. j \in 1 .. Len(s) + 1 /\ k \in 1 .. Len(s) + 1
    BY <1>1
  <2>3. CASE j \in 1 .. Len(s) /\ k \in 1 .. Len(s)
    BY <1>1, <1>3, <2>3 DEF SinRepetir
  <2>4. CASE j = Len(s) + 1 \/ k = Len(s) + 1
    BY <1>1, <2>1, <2>2, <2>4
  <2> QED  BY <1>1, <2>2, <2>3, <2>4
<1> QED  BY <1>2, <1>3

(* Taking the only entry there is out of a list. *)
LEMMA SacarDelTodo ==
    ASSUME NEW s \in Seq(DTB), SinRepetir(s), NEW e
    PROVE  /\ \A x : x \in ToSet(RemoveFirst(s, e)) <=> x \in ToSet(s) /\ x # e
           /\ SinRepetir(RemoveFirst(s, e))
<1>1. CASE ~ \E i \in 1 .. Len(s) : s[i] = e
  BY <1>1 DEF RemoveFirst, ToSet
<1>2. CASE \E i \in 1 .. Len(s) : s[i] = e
  <2> DEFINE t == RemoveFirst(s, e)
  <2>1. PICK k \in 1 .. Len(s) :
           s[k] = e /\ t = SubSeq(s, 1, k - 1) \o SubSeq(s, k + 1, Len(s))
    BY <1>2, SacarUno
  <2>2. /\ Len(s) \in Nat /\ Len(t) = Len(s) - 1
        /\ DOMAIN s = 1 .. Len(s) /\ DOMAIN t = 1 .. Len(t)
        /\ \A j \in 1 .. Len(t) : t[j] = IF j < k THEN s[j] ELSE s[j + 1]
    <3> DEFINE a == SubSeq(s, 1, k - 1)
               b == SubSeq(s, k + 1, Len(s))
    <3>1. /\ a \in Seq(DTB) /\ Len(a) = k - 1
          /\ \A j \in 1 .. k - 1 : a[j] = s[j]
      BY SubSeqProperties
    <3>2. /\ b \in Seq(DTB) /\ Len(b) = Len(s) - k
          /\ \A j \in 1 .. Len(s) - k : b[j] = s[k + j]
      OBVIOUS
    <3> HIDE DEF a, b, t
    <3>3. /\ Len(t) = Len(a) + Len(b) /\ t \in Seq(DTB)
          /\ \A j \in 1 .. Len(a) + Len(b) : t[j] = IF j <= Len(a) THEN a[j] ELSE b[j - Len(a)]
      BY <2>1, <3>1, <3>2, ConcatProperties DEF a, b
    <3>4. ASSUME NEW j \in 1 .. Len(t)
          PROVE  t[j] = IF j < k THEN s[j] ELSE s[j + 1]
      <4>1. CASE j < k
        BY <3>1, <3>2, <3>3, <4>1
      <4>2. CASE j >= k
        <5>1. j - Len(a) \in 1 .. Len(s) - k /\ k + (j - Len(a)) = j + 1
          BY <3>1, <3>2, <3>3, <4>2
        <5> QED  BY <3>1, <3>2, <3>3, <4>2, <5>1
      <4> QED  BY <4>1, <4>2
    <3> QED
      BY <3>1, <3>2, <3>3, <3>4
  <2>3. \A j \in DOMAIN s : s[j] = e => j = k
    <3>1. s[k] # NULO
      BY DTBNoNulo
    <3> QED  BY <2>1, <2>2, <3>1 DEF SinRepetir
  <2> HIDE DEF t
  <2>4. ASSUME NEW x, x \in ToSet(t)  PROVE x \in ToSet(s) /\ x # e
    <3>1. PICK j \in DOMAIN t : t[j] = x
      BY <2>4 DEF ToSet
    <3>2. PICK m \in DOMAIN s : m # k /\ s[m] = x
      BY <3>1, <2>2
    <3> QED  BY <3>2, <2>3 DEF ToSet
  <2>5. ASSUME NEW x, x \in ToSet(s), x # e  PROVE x \in ToSet(t)
    <3>1. PICK j \in DOMAIN s : s[j] = x
      BY <2>5 DEF ToSet
    <3>2. j # k
      BY <3>1, <2>5, <2>1
    <3>3. CASE j < k
      BY <3>1, <3>3, <2>2 DEF ToSet
    <3>4. CASE j > k
      <4>1. j - 1 \in 1 .. Len(t) /\ t[j - 1] = s[j]
        BY <3>4, <2>2
      <4> QED  BY <4>1, <3>1, <2>2 DEF ToSet
    <3> QED  BY <3>2, <3>3, <3>4, <2>2
  <2>6. SinRepetir(t)
    <3> SUFFICES ASSUME NEW i \in DOMAIN t, NEW j \in DOMAIN t, t[i] = t[j], t[i] # NULO
                 PROVE  i = j
      BY DEF SinRepetir
    <3> DEFINE a(m) == IF m < k THEN m ELSE m + 1
    <3>1. /\ a(i) \in DOMAIN s /\ a(j) \in DOMAIN s
          /\ t[i] = s[a(i)] /\ t[j] = s[a(j)]
      BY <2>2
    <3>2. a(i) = a(j)
      BY <3>1 DEF SinRepetir
    <3> QED  BY <3>2, <2>2
  <2> QED  BY <2>4, <2>5, <2>6 DEF t
<1> QED  BY <1>1, <1>2

(* Taking the head of a list. *)
LEMMA SacarCabeza ==
    ASSUME NEW s \in Seq(DTB), SinRepetir(s), s # <<>>
    PROVE  /\ \A x : x \in ToSet(Tail(s)) <=> x \in ToSet(s) /\ x # Head(s)
           /\ SinRepetir(Tail(s))
<1> DEFINE t == Tail(s)
<1>1. /\ Len(s) \in Nat /\ Len(t) = Len(s) - 1
      /\ DOMAIN s = 1 .. Len(s) /\ DOMAIN t = 1 .. Len(t)
      /\ 1 \in DOMAIN s /\ Head(s) = s[1]
      /\ \A j \in 1 .. Len(t) : t[j] = s[j + 1]
  OBVIOUS
<1>2. \A j \in DOMAIN s : s[j] = Head(s) => j = 1
  <2> HIDE DEF t
  <2>1. s[1] # NULO
    BY <1>1, DTBNoNulo
  <2> QED  BY <1>1, <2>1 DEF SinRepetir
<1> HIDE DEF t
<1>3. ASSUME NEW x, x \in ToSet(t)  PROVE x \in ToSet(s) /\ x # Head(s)
  <2>1. PICK j \in DOMAIN t : t[j] = x
    BY <1>3 DEF ToSet
  <2>2. j + 1 \in DOMAIN s /\ s[j + 1] = x /\ j + 1 # 1
    BY <2>1, <1>1
  <2> QED  BY <2>2, <1>2 DEF ToSet
<1>4. ASSUME NEW x, x \in ToSet(s), x # Head(s)  PROVE x \in ToSet(t)
  <2>1. PICK j \in DOMAIN s : s[j] = x
    BY <1>4 DEF ToSet
  <2>2. j - 1 \in DOMAIN t /\ t[j - 1] = x
    BY <2>1, <1>4, <1>1
  <2> QED  BY <2>2 DEF ToSet
<1>5. SinRepetir(t)
  <2> SUFFICES ASSUME NEW i \in DOMAIN t, NEW j \in DOMAIN t, t[i] = t[j], t[i] # NULO
               PROVE  i = j
    BY DEF SinRepetir
  <2>1. i + 1 \in DOMAIN s /\ j + 1 \in DOMAIN s /\ t[i] = s[i + 1] /\ t[j] = s[j + 1]
    BY <1>1
  <2>2. i + 1 = j + 1
    BY <2>1 DEF SinRepetir
  <2> QED  BY <2>2, <1>1
<1> QED  BY <1>3, <1>4, <1>5 DEF t

-----------------------------------------------------------------------------
(* The six scheduling lists *)

(* no list has a DTB twice *)
SinRepetidos(f) == \A q \in Colas : SinRepetir(f[q])

(* list_remove_by_condition: the DTB leaves that list, and nothing else      *)
(* happens.                                                                  *)
LEMMA SacarEn ==
    ASSUME ColasOK(cola), SinRepetidos(cola),
           NEW q \in Colas \ {"terminados"}, NEW i
    PROVE  /\ SinRepetidos(Sacar(q, i))
           /\ \A r \in Colas : \A j :
                j \in ToSet(Sacar(q, i)[r]) <=> En(j, r) /\ ~ (r = q /\ j = i)
           /\ \A r \in Colas \ {q} : Sacar(q, i)[r] = cola[r]
<1>1. cola[q] \in Seq(DTB) /\ SinRepetir(cola[q])
  BY DEF ColasOK, SinRepetidos
<1>2. /\ Sacar(q, i)[q] = RemoveFirst(cola[q], i)
      /\ \A r \in Colas \ {q} : Sacar(q, i)[r] = cola[r]
  BY DEF Sacar, ColasOK
<1>3. /\ \A j : j \in ToSet(Sacar(q, i)[q]) <=> j \in ToSet(cola[q]) /\ j # i
      /\ SinRepetir(Sacar(q, i)[q])
  BY <1>1, <1>2, SacarDelTodo
<1> QED
  BY <1>2, <1>3 DEF SinRepetidos, En

(* list_add: the DTB joins that list, and its head stays. *)
LEMMA AgregarEn ==
    ASSUME NEW f, ColasOK(f), SinRepetidos(f), NEW q \in Colas,
           NEW i \in DTB \cup {NULO}, i \notin ToSet(f[q]) \/ i = NULO
    PROVE  /\ SinRepetidos(Agregar(f, q, i))
           /\ \A r \in Colas : \A j :
                j \in ToSet(Agregar(f, q, i)[r]) <=> j \in ToSet(f[r]) \/ (r = q /\ j = i)
           /\ \A r \in Colas \ {q} : Agregar(f, q, i)[r] = f[r]
           /\ \A r \in Colas : f[r] # <<>> =>
                Agregar(f, q, i)[r] # <<>> /\ Head(Agregar(f, q, i)[r]) = Head(f[r])
<1>1. f[q] \in Seq(DTB \cup {NULO}) /\ SinRepetir(f[q])
  BY DEF ColasOK, SinRepetidos
<1>2. /\ Agregar(f, q, i)[q] = Append(f[q], i)
      /\ \A r \in Colas \ {q} : Agregar(f, q, i)[r] = f[r]
  BY DEF Agregar, ColasOK
<1>3. /\ \A j : j \in ToSet(Append(f[q], i)) <=> j \in ToSet(f[q]) \/ j = i
      /\ SinRepetir(Append(f[q], i))
  BY <1>1, AgregarALista
<1>4. f[q] # <<>> => Append(f[q], i) # <<>> /\ Head(Append(f[q], i)) = Head(f[q])
  BY <1>1
<1> QED
  BY <1>2, <1>3, <1>4 DEF SinRepetidos

(* Out of one list and into another. *)
LEMMA MoverEn ==
    ASSUME ColasOK(cola), SinRepetidos(cola),
           NEW q \in Colas \ {"terminados"}, NEW r \in Colas, q # r,
           NEW i \in DTB, En(i, q), ~ En(i, r)
    PROVE  /\ SinRepetidos(Mover(i, q, r))
           /\ \A s \in Colas : \A j :
                j \in ToSet(Mover(i, q, r)[s]) <=>
                   (En(j, s) /\ ~ (s = q /\ j = i)) \/ (s = r /\ j = i)
           /\ \A s \in Colas \ {q, r} : Mover(i, q, r)[s] = cola[s]
           /\ \A s \in Colas \ {q} : cola[s] # <<>> =>
                Mover(i, q, r)[s] # <<>> /\ Head(Mover(i, q, r)[s]) = Head(cola[s])
<1> DEFINE f == Sacar(q, i)
<1>1. /\ SinRepetidos(f) /\ ColasOK(f)
      /\ \A s \in Colas : \A j :
           j \in ToSet(f[s]) <=> En(j, s) /\ ~ (s = q /\ j = i)
      /\ \A s \in Colas \ {q} : f[s] = cola[s]
  BY SacarEn, SacarOK
<1> HIDE DEF f
<1>2. i \notin ToSet(f[r])
  BY <1>1
<1>3. /\ SinRepetidos(Agregar(f, r, i))
      /\ \A s \in Colas : \A j :
           j \in ToSet(Agregar(f, r, i)[s]) <=> j \in ToSet(f[s]) \/ (s = r /\ j = i)
      /\ \A s \in Colas \ {r} : Agregar(f, r, i)[s] = f[s]
      /\ \A s \in Colas : f[s] # <<>> =>
           Agregar(f, r, i)[s] # <<>> /\ Head(Agregar(f, r, i)[s]) = Head(f[s])
  BY <1>1, <1>2, AgregarEn
<1>4. Mover(i, q, r) = Agregar(f, r, i)
  BY DEF Mover, f
<1> QED
  BY <1>1, <1>3, <1>4

(* The head of a list is in the list. *)
LEMMA CabezaEsta ==
    ASSUME ColasOK(cola), NEW q \in Colas, cola[q] # <<>>
    PROVE  En(Head(cola[q]), q)
<1>1. cola[q] \in Seq(DTB \cup {NULO})
  BY DEF ColasOK
<1> QED
  BY <1>1 DEF En, ToSet

(* Taking the head. *)
LEMMA CabezaEn ==
    ASSUME ColasOK(cola), SinRepetidos(cola),
           NEW q \in Colas \ {"terminados"}, cola[q] # <<>>,
           cola' = [cola EXCEPT ![q] = Tail(@)]
    PROVE  /\ SinRepetidos(cola')
           /\ \A r \in Colas : \A j :
                En(j, r)' <=> En(j, r) /\ ~ (r = q /\ j = Head(cola[q]))
           /\ \A r \in Colas \ {q} : cola'[r] = cola[r]
           /\ En(Head(cola[q]), q)
<1>1. cola[q] \in Seq(DTB) /\ SinRepetir(cola[q])
  BY DEF ColasOK, SinRepetidos
<1>2. cola'[q] = Tail(cola[q]) /\ \A r \in Colas \ {q} : cola'[r] = cola[r]
  BY DEF ColasOK
<1>3. /\ \A j : j \in ToSet(cola'[q]) <=> j \in ToSet(cola[q]) /\ j # Head(cola[q])
      /\ SinRepetir(cola'[q])
  BY <1>1, <1>2, SacarCabeza
<1>4. En(Head(cola[q]), q)
  BY <1>1 DEF En, ToSet
<1> QED
  BY <1>2, <1>3, <1>4 DEF SinRepetidos, En

-----------------------------------------------------------------------------
(* The place of a DTB *)

EnUno(i) == \E lugar \in Lugares :
              Esta(i, lugar) /\ \A r \in Lugares \ {lugar} : ~ Esta(i, r)

EnPLPde(i) == plp.en = "agrega" /\ plp.dtb = i
EnPCPde(i) == pcp.en = "agrega" /\ pcp.dtb = i

(* What Esta says of each kind of place. *)
LEMMA LugarDe ==
    ASSUME NEW i
    PROVE  /\ \A q \in Colas :
                <<"cola", q>> \in Lugares /\ (Esta(i, <<"cola", q>>) <=> En(i, q))
           /\ \A c \in CPUS :
                <<"com", c>> \in Lugares /\ (Esta(i, <<"com", c>>) <=> EnHiloCPU(i, c))
           /\ <<"plp", "plp">> \in Lugares /\ (Esta(i, <<"plp", "plp">>) <=> EnPLPde(i))
           /\ <<"pcp", "pcp">> \in Lugares /\ (Esta(i, <<"pcp", "pcp">>) <=> EnPCPde(i))
           /\ \A l \in Lugares :
                \/ \E q \in Colas : l = <<"cola", q>>
                \/ \E c \in CPUS : l = <<"com", c>>
                \/ l = <<"plp", "plp">>
                \/ l = <<"pcp", "pcp">>
<1>1. \A q \in Colas :
        <<"cola", q>> \in Lugares /\ (Esta(i, <<"cola", q>>) <=> En(i, q))
  <2> TAKE q \in Colas
  <2>1. <<"cola", q>>[1] = "cola" /\ <<"cola", q>>[2] = q
    OBVIOUS
  <2> QED  BY <2>1 DEF Lugares, Esta
<1>2. \A c \in CPUS :
        <<"com", c>> \in Lugares /\ (Esta(i, <<"com", c>>) <=> EnHiloCPU(i, c))
  <2> TAKE c \in CPUS
  <2>1. <<"com", c>>[1] = "com" /\ <<"com", c>>[2] = c
    OBVIOUS
  <2> QED  BY <2>1 DEF Lugares, Esta
<1>3. <<"plp", "plp">> \in Lugares /\ (Esta(i, <<"plp", "plp">>) <=> EnPLPde(i))
  BY DEF Lugares, Esta, EnPLPde
<1>4. <<"pcp", "pcp">> \in Lugares /\ (Esta(i, <<"pcp", "pcp">>) <=> EnPCPde(i))
  BY DEF Lugares, Esta, EnPCPde
<1>5. \A l \in Lugares :
        \/ \E q \in Colas : l = <<"cola", q>>
        \/ \E c \in CPUS : l = <<"com", c>>
        \/ l = <<"plp", "plp">>
        \/ l = <<"pcp", "pcp">>
  BY DEF Lugares
<1> QED  BY <1>1, <1>2, <1>3, <1>4, <1>5

(* being nowhere else than in one list, one thread of a CPU, or one of the   *)
(* two schedulers                                                            *)
SoloEnCola(i, q) == /\ \A r \in Colas : En(i, r) <=> r = q
                    /\ \A c \in CPUS : ~ EnHiloCPU(i, c)
                    /\ ~ EnPLPde(i) /\ ~ EnPCPde(i)

SoloEnHilo(i, c) == /\ \A r \in Colas : ~ En(i, r)
                    /\ \A d \in CPUS : EnHiloCPU(i, d) <=> d = c
                    /\ ~ EnPLPde(i) /\ ~ EnPCPde(i)

SoloEnPLP(i) == /\ \A r \in Colas : ~ En(i, r)
                /\ \A d \in CPUS : ~ EnHiloCPU(i, d)
                /\ EnPLPde(i) /\ ~ EnPCPde(i)

SoloEnPCP(i) == /\ \A r \in Colas : ~ En(i, r)
                /\ \A d \in CPUS : ~ EnHiloCPU(i, d)
                /\ ~ EnPLPde(i) /\ EnPCPde(i)

(* Being in one place is being only there ... *)
LEMMA EnUnoSolo ==
    ASSUME NEW i, EnUno(i)
    PROVE  /\ \A q \in Colas : En(i, q) => SoloEnCola(i, q)
           /\ \A c \in CPUS : EnHiloCPU(i, c) => SoloEnHilo(i, c)
           /\ EnPLPde(i) => SoloEnPLP(i)
           /\ EnPCPde(i) => SoloEnPCP(i)
<1>1. PICK l \in Lugares : \A r \in Lugares : Esta(i, r) <=> r = l
  BY DEF EnUno
<1>2. \A q \in Colas : En(i, q) => l = <<"cola", q>>
  BY <1>1, LugarDe
<1>3. \A c \in CPUS : EnHiloCPU(i, c) => l = <<"com", c>>
  BY <1>1, LugarDe
<1>4. EnPLPde(i) => l = <<"plp", "plp">>
  BY <1>1, LugarDe
<1>5. EnPCPde(i) => l = <<"pcp", "pcp">>
  BY <1>1, LugarDe
<1>6. \A q \in Colas : l = <<"cola", q>> => En(i, q)
  BY <1>1, LugarDe
<1>7. \A c \in CPUS : l = <<"com", c>> => EnHiloCPU(i, c)
  BY <1>1, LugarDe
<1> QED
  BY <1>2, <1>3, <1>4, <1>5, <1>6, <1>7
  DEF SoloEnCola, SoloEnHilo, SoloEnPLP, SoloEnPCP

(* ... and conversely. *)
LEMMA SoloEnUno ==
    ASSUME NEW i
    PROVE  /\ \A q \in Colas : SoloEnCola(i, q) => EnUno(i)
           /\ \A c \in CPUS : SoloEnHilo(i, c) => EnUno(i)
           /\ SoloEnPLP(i) => EnUno(i)
           /\ SoloEnPCP(i) => EnUno(i)
<1>1. ASSUME NEW l \in Lugares, \A r \in Lugares : Esta(i, r) <=> r = l
      PROVE  EnUno(i)
  BY <1>1 DEF EnUno
<1>2. ASSUME NEW q \in Colas, SoloEnCola(i, q)  PROVE EnUno(i)
  <2>1. \A r \in Lugares : Esta(i, r) <=> r = <<"cola", q>>
    BY <1>2, LugarDe DEF SoloEnCola
  <2> QED  BY <2>1, <1>1, LugarDe
<1>3. ASSUME NEW c \in CPUS, SoloEnHilo(i, c)  PROVE EnUno(i)
  <2>1. \A r \in Lugares : Esta(i, r) <=> r = <<"com", c>>
    BY <1>3, LugarDe DEF SoloEnHilo
  <2> QED  BY <2>1, <1>1, LugarDe
<1>4. ASSUME SoloEnPLP(i)  PROVE EnUno(i)
  <2>1. \A r \in Lugares : Esta(i, r) <=> r = <<"plp", "plp">>
    BY <1>4, LugarDe DEF SoloEnPLP
  <2> QED  BY <2>1, <1>1, LugarDe
<1>5. ASSUME SoloEnPCP(i)  PROVE EnUno(i)
  <2>1. \A r \in Lugares : Esta(i, r) <=> r = <<"pcp", "pcp">>
    BY <1>5, LugarDe DEF SoloEnPCP
  <2> QED  BY <2>1, <1>1, LugarDe
<1> QED  BY <1>2, <1>3, <1>4, <1>5

(* A DTB that was in one place is in one of the four kinds of place. *)
LEMMA DondeEsta ==
    ASSUME NEW i, EnUno(i)
    PROVE  \/ \E q \in Colas : SoloEnCola(i, q)
           \/ \E c \in CPUS : SoloEnHilo(i, c)
           \/ SoloEnPLP(i)
           \/ SoloEnPCP(i)
<1>1. PICK l \in Lugares : Esta(i, l)
  BY DEF EnUno
<1> QED
  BY <1>1, LugarDe, EnUnoSolo
-----------------------------------------------------------------------------
(* A step and the places.  Solo and Nada say where a DTB is without tuples.  *)
Solo(i) == \/ \E q \in Colas : SoloEnCola(i, q)
           \/ \E c \in CPUS : SoloEnHilo(i, c)
           \/ SoloEnPLP(i)
           \/ SoloEnPCP(i)

Nada(i) == /\ \A q \in Colas : ~ En(i, q)
           /\ \A c \in CPUS : ~ EnHiloCPU(i, c)
           /\ ~ EnPLPde(i) /\ ~ EnPCPde(i)

LEMMA SoloEsUno ==
    \A i : (EnUno(i) <=> Solo(i)) /\ (Ninguno(i) <=> Nada(i))
<1> TAKE i
<1>1. EnUno(i) => Solo(i)
  BY DondeEsta DEF Solo
<1>2. Solo(i) => EnUno(i)
  BY SoloEnUno DEF Solo
<1>3. Ninguno(i) => Nada(i)
  BY LugarDe DEF Ninguno, Nada
<1>4. Nada(i) => Ninguno(i)
  BY LugarDe DEF Ninguno, Nada
<1> QED  BY <1>1, <1>2, <1>3, <1>4

(* A DTB that is somewhere is nowhere else. *)
LEMMA SoloEnUnLado ==
    ASSUME NEW i, Solo(i)
    PROVE  /\ \A q \in Colas : En(i, q) => SoloEnCola(i, q)
           /\ \A c \in CPUS : EnHiloCPU(i, c) => SoloEnHilo(i, c)
           /\ EnPLPde(i) => SoloEnPLP(i)
           /\ EnPCPde(i) => SoloEnPCP(i)
  BY DEF Solo, SoloEnCola, SoloEnHilo, SoloEnPLP, SoloEnPCP

(* the step leaves DTB j where it is *)
MismoLugar(j) == /\ \A q \in Colas : En(j, q)' <=> En(j, q)
                 /\ \A c \in CPUS : EnHiloCPU(j, c)' <=> EnHiloCPU(j, c)
                 /\ EnPLPde(j)' <=> EnPLPde(j)
                 /\ EnPCPde(j)' <=> EnPCPde(j)

LEMMA SigueSolo ==
    ASSUME NEW j, MismoLugar(j)
    PROVE  (Solo(j) => Solo(j)') /\ (Nada(j) => Nada(j)')
<1>1. \A q \in Colas : SoloEnCola(j, q) => SoloEnCola(j, q)'
  BY DEF MismoLugar, SoloEnCola
<1>2. \A c \in CPUS : SoloEnHilo(j, c) => SoloEnHilo(j, c)'
  BY DEF MismoLugar, SoloEnHilo
<1>3. SoloEnPLP(j) => SoloEnPLP(j)'
  BY DEF MismoLugar, SoloEnPLP
<1>4. SoloEnPCP(j) => SoloEnPCP(j)'
  BY DEF MismoLugar, SoloEnPCP
<1>5. Nada(j) => Nada(j)'
  BY DEF MismoLugar, Nada
<1> QED  BY <1>1, <1>2, <1>3, <1>4, <1>5 DEF Solo

(* The thread of a CPU goes on to another place of its loop ... *)
LEMMA HiloSigue ==
    ASSUME ComOK(com), NEW c \in CPUS, NEW e, com' = [com EXCEPT ![c].en = e]
    PROVE  /\ com'[c].en = e /\ com'[c].dtb = com[c].dtb
           /\ \A d \in CPUS \ {c} : com'[d] = com[d]
           /\ \A d \in CPUS : \A j : EnHiloCPU(j, d)' <=>
                IF d = c THEN e \in {"anota", "bloquea", "termina"} /\ com[c].dtb = j
                         ELSE EnHiloCPU(j, d)
<1>1. /\ com'[c].en = e /\ com'[c].dtb = com[c].dtb
      /\ \A d \in CPUS \ {c} : com'[d] = com[d]
  BY DEF ComOK, EnHilo
<1> QED
  BY <1>1 DEF EnHiloCPU

(* ... or takes a DTB with it. *)
LEMMA HiloToma ==
    ASSUME ComOK(com), NEW c \in CPUS, NEW e, NEW i,
           com' = [com EXCEPT ![c] = [en |-> e, dtb |-> i]]
    PROVE  /\ com'[c].en = e /\ com'[c].dtb = i
           /\ \A d \in CPUS \ {c} : com'[d] = com[d]
           /\ \A d \in CPUS : \A j : EnHiloCPU(j, d)' <=>
                IF d = c THEN e \in {"anota", "bloquea", "termina"} /\ j = i
                         ELSE EnHiloCPU(j, d)
<1>1. /\ com'[c].en = e /\ com'[c].dtb = i
      /\ \A d \in CPUS \ {c} : com'[d] = com[d]
  BY DEF ComOK
<1> QED
  BY <1>1 DEF EnHiloCPU

-----------------------------------------------------------------------------
(* The invariant of the places, and the frame of a step that moves nobody *)

Ubicados == /\ SinRepetidos(cola)
            /\ \A i \in DTB : IF Existe(i) THEN Solo(i) ELSE Nada(i)

LugarInv == /\ con.en = "lista"
            /\ Ubicados
            /\ PCPConElPrimero
            /\ ListasSinUso
            /\ TablaCorta
            /\ MensajeBienFormado

LEMMA UbicadosSiguen ==
    ASSUME Ubicados, UNCHANGED <<cola, id>>, \A j \in DTB : MismoLugar(j)
    PROVE  Ubicados'
<1>1. SinRepetidos(cola')
  BY DEF Ubicados
<1>2. \A j \in DTB : Existe(j)' <=> Existe(j)
  BY DEF Existe
<1>3. \A j \in DTB : (Solo(j) => Solo(j)') /\ (Nada(j) => Nada(j)')
  BY SigueSolo
<1> QED  BY <1>1, <1>2, <1>3 DEF Ubicados

(* A step that touches neither lists nor tables nor the hands of anybody. *)
LEMMA NadieSeMueve ==
    ASSUME LugarInv, UNCHANGED <<cola, id, tabla, con, dtbConEqGrandeAbierto>>,
           \A j \in DTB : \A c \in CPUS : EnHiloCPU(j, c)' <=> EnHiloCPU(j, c),
           \A j \in DTB : EnPLPde(j)' <=> EnPLPde(j),
           UNCHANGED pcp,
           MensajeBienFormado'
    PROVE  LugarInv' /\ \A j \in DTB : MismoLugar(j)
<1>1. \A j \in DTB : MismoLugar(j)
  BY DEF MismoLugar, En, EnPCPde
<1>2. Ubicados'
  BY <1>1, UbicadosSiguen DEF LugarInv
<1>3. PCPConElPrimero' /\ ListasSinUso' /\ TablaCorta'
  BY DEF LugarInv, PCPConElPrimero, ListasSinUso, TablaCorta, En
<1> QED  BY <1>1, <1>2, <1>3 DEF LugarInv

(* A crash of SAFA moves nobody, and neither do the steps of the others. *)
LEMMA CaerNoMueve ==
    ASSUME LugarInv, Caer, UNCHANGED safaACpu
    PROVE  LugarInv' /\ \A j \in DTB : MismoLugar(j)
<1>1. /\ UNCHANGED <<cola, id, tabla, con, dtbConEqGrandeAbierto, pcp, com, plp>>
  BY DEF Caer, datosDTB, hilos
<1>2. MensajeBienFormado'
  BY DEF LugarInv, MensajeBienFormado
<1> QED
  BY <1>1, <1>2, NadieSeMueve DEF EnHiloCPU, EnPLPde

LEMMA ConexionNoMueve ==
    ASSUME SafaInv, LugarInv, Conexion
    PROVE  LugarInv' /\ \A j \in DTB : MismoLugar(j)
<1>1. /\ UNCHANGED <<cola, id, tabla, con, dtbConEqGrandeAbierto, pcp, plp, safaACpu>>
  BY DEF Conexion, AceptarDAM, ArrancarHiloDMA, AceptarCPU, ConectarCPU,
         PasarSafaOperativo, datosDTB, red
<1>2. MensajeBienFormado'
  BY <1>1 DEF LugarInv, MensajeBienFormado
<1>3. ComOK(com)
  BY DEF SafaInv, SafaTypeOK
<1>4. \A j \in DTB : \A d \in CPUS : EnHiloCPU(j, d)' <=> EnHiloCPU(j, d)
  <2>1. CASE UNCHANGED com
    BY <2>1 DEF EnHiloCPU
  <2>2. ASSUME NEW c \in CPUS,
               AceptarCPU(c) \/ ConectarCPU(c) \/ PasarSafaOperativo(c)
        PROVE  \A j \in DTB : \A d \in CPUS : EnHiloCPU(j, d)' <=> EnHiloCPU(j, d)
    <3>1. PICK e \in {"conecta", "verifica", "espera"} :
             com' = [com EXCEPT ![c].en = e]
      BY <2>2 DEF AceptarCPU, ConectarCPU, PasarSafaOperativo
    <3>2. com[c].en \in {"fuera", "conecta", "verifica"}
      BY <2>2 DEF AceptarCPU, ConectarCPU, PasarSafaOperativo
    <3> QED
      BY <1>3, <3>1, <3>2, HiloSigue DEF EnHiloCPU
  <2> QED
    BY <2>1, <2>2 DEF Conexion, AceptarDAM, ArrancarHiloDMA
<1> QED
  BY <1>1, <1>2, <1>4, NadieSeMueve DEF EnPLPde

(* A step that moves one DTB. *)
LEMMA UnoSeMueve ==
    ASSUME Ubicados, UNCHANGED id, SinRepetidos(cola'), NEW i \in DTB, ~ Nada(i),
           \A j \in DTB \ {i} : MismoLugar(j), Solo(i)'
    PROVE  Ubicados'
<1>1. Existe(i)
  BY DEF Ubicados
<1>2. \A j \in DTB : Existe(j)' <=> Existe(j)
  BY DEF Existe
<1>3. \A j \in DTB \ {i} : (Solo(j) => Solo(j)') /\ (Nada(j) => Nada(j)')
  BY SigueSolo
<1>4. ASSUME NEW j \in DTB  PROVE (IF Existe(j) THEN Solo(j) ELSE Nada(j))'
  BY <1>1, <1>2, <1>3 DEF Ubicados
<1> QED  BY <1>4 DEF Ubicados

(* A DTB that is somewhere exists, and is nowhere else. *)
LEMMA EstaSolo ==
    ASSUME Ubicados, NEW i \in DTB
    PROVE  /\ \A q \in Colas : En(i, q) => SoloEnCola(i, q) /\ ~ Nada(i) /\ Existe(i)
           /\ \A c \in CPUS : EnHiloCPU(i, c) => SoloEnHilo(i, c) /\ ~ Nada(i) /\ Existe(i)
           /\ EnPLPde(i) => SoloEnPLP(i) /\ ~ Nada(i) /\ Existe(i)
           /\ EnPCPde(i) => SoloEnPCP(i) /\ ~ Nada(i) /\ Existe(i)
<1>1. (\E q \in Colas : En(i, q)) \/ (\E c \in CPUS : EnHiloCPU(i, c)) \/ EnPLPde(i) \/ EnPCPde(i)
        => ~ Nada(i)
  BY DEF Nada
<1>2. ~ Nada(i) => Existe(i) /\ Solo(i)
  BY DEF Ubicados
<1> QED
  BY <1>1, <1>2, SoloEnUnLado

(* The tables and the messages of a step that takes nobody out of "listos". *)
LEMMA TablasSiguen ==
    ASSUME TablaCorta, MensajeBienFormado, UNCHANGED <<tabla, pcp, safaACpu>>,
           \A j \in DTB : En(j, "listos") => En(j, "listos")'
    PROVE  TablaCorta' /\ MensajeBienFormado'
  BY DEF TablaCorta, MensajeBienFormado

(* The PCP's choice, when "listos" keeps its head. *)
LEMMA ElPrimeroSigue ==
    ASSUME PCPConElPrimero, UNCHANGED pcp,
           cola["listos"] # <<>> =>
              cola'["listos"] # <<>> /\ Head(cola'["listos"]) = Head(cola["listos"])
    PROVE  PCPConElPrimero'
  BY DEF PCPConElPrimero

(* A thread of a CPU takes from "ejecutando" the DTB its CPU speaks of. *)
LEMMA TomarDeEjecutando ==
    ASSUME SafaInv, LugarInv, NEW c \in CPUS, com[c].en = "espera",
           NEW i \in DTB, En(i, "ejecutando"),
           NEW e \in {"anota", "termina"},
           cola' = Sacar("ejecutando", i),
           com' = [com EXCEPT ![c] = [en |-> e, dtb |-> i]],
           UNCHANGED <<id, tabla, con, dtbConEqGrandeAbierto, plp, pcp, safaACpu>>
    PROVE  /\ LugarInv'
           /\ \A j \in DTB \ {i} : MismoLugar(j)
           /\ SoloEnCola(i, "ejecutando") /\ SoloEnHilo(i, c)'
<1>1. ColasOK(cola) /\ ComOK(com) /\ Ubicados
  BY DEF SafaInv, SafaTypeOK, LugarInv
<1>2. "ejecutando" \in Colas \ {"terminados"} /\ "listos" \in Colas \ {"ejecutando"}
      /\ "auxVirtualRR" \in Colas \ {"ejecutando"}
  BY DEF Colas
<1>3. /\ SinRepetidos(cola')
      /\ \A r \in Colas : \A j : En(j, r)' <=> En(j, r) /\ ~ (r = "ejecutando" /\ j = i)
      /\ cola'["listos"] = cola["listos"]
      /\ cola'["auxVirtualRR"] = cola["auxVirtualRR"]
  BY <1>1, <1>2, SacarEn DEF Ubicados, En
<1>4. \A d \in CPUS : \A j : EnHiloCPU(j, d)' <=>
         IF d = c THEN j = i ELSE EnHiloCPU(j, d)
  <2>1. \A d \in CPUS : \A j : EnHiloCPU(j, d)' <=>
           IF d = c THEN e \in {"anota", "bloquea", "termina"} /\ j = i
                    ELSE EnHiloCPU(j, d)
    BY <1>1, HiloToma
  <2> QED  BY <2>1
<1>5. \A j : ~ EnHiloCPU(j, c)
  BY DEF EnHiloCPU
<1>6. \A j : (EnPLPde(j)' <=> EnPLPde(j)) /\ (EnPCPde(j)' <=> EnPCPde(j))
  BY DEF EnPLPde, EnPCPde
<1>7. SoloEnCola(i, "ejecutando") /\ ~ Nada(i)
  BY <1>1, <1>2, EstaSolo
<1>8. \A j \in DTB \ {i} : MismoLugar(j)
  BY <1>3, <1>4, <1>5, <1>6 DEF MismoLugar
<1>9. SoloEnHilo(i, c)'
  <2>1. \A r \in Colas : ~ En(i, r)'
    BY <1>3, <1>7 DEF SoloEnCola
  <2>2. \A d \in CPUS : EnHiloCPU(i, d)' <=> d = c
    BY <1>4, <1>7 DEF SoloEnCola
  <2>3. ~ EnPLPde(i)' /\ ~ EnPCPde(i)'
    BY <1>6, <1>7 DEF SoloEnCola
  <2> QED  BY <2>1, <2>2, <2>3 DEF SoloEnHilo
<1>10. Ubicados'
  BY <1>1, <1>3, <1>7, <1>8, <1>9, UnoSeMueve DEF Solo
<1>11. TablaCorta' /\ MensajeBienFormado'
  BY <1>2, <1>3, TablasSiguen DEF LugarInv
<1>12. PCPConElPrimero' /\ ListasSinUso' /\ con'.en = "lista"
  BY <1>3, ElPrimeroSigue DEF LugarInv, ListasSinUso
<1> QED
  BY <1>7, <1>8, <1>9, <1>10, <1>11, <1>12 DEF LugarInv

(* A thread of a CPU puts the DTB it has at the end of a list. *)
LEMMA DejarEnCola ==
    ASSUME SafaInv, LugarInv, NEW c \in CPUS,
           NEW i \in DTB, EnHiloCPU(i, c),
           NEW q \in Colas \ {"listos", "auxVirtualRR"},
           cola' = Agregar(cola, q, i),
           com' = [com EXCEPT ![c].en = "libera"],
           UNCHANGED <<id, tabla, con, dtbConEqGrandeAbierto, plp, pcp, safaACpu>>
    PROVE  /\ LugarInv'
           /\ \A j \in DTB \ {i} : MismoLugar(j)
           /\ SoloEnHilo(i, c) /\ SoloEnCola(i, q)'
<1>1. ColasOK(cola) /\ ComOK(com) /\ Ubicados
  BY DEF SafaInv, SafaTypeOK, LugarInv
<1>2. "listos" \in Colas \ {q} /\ "auxVirtualRR" \in Colas \ {q}
  BY DEF Colas
<1>3. SoloEnHilo(i, c) /\ ~ Nada(i)
  BY <1>1, EstaSolo
<1>4. i \notin ToSet(cola[q])
  BY <1>3 DEF SoloEnHilo, En
<1>5. /\ SinRepetidos(cola')
      /\ \A r \in Colas : \A j : En(j, r)' <=> En(j, r) \/ (r = q /\ j = i)
      /\ cola'["listos"] = cola["listos"]
      /\ cola'["auxVirtualRR"] = cola["auxVirtualRR"]
  <2>1. /\ SinRepetidos(Agregar(cola, q, i))
        /\ \A r \in Colas : \A j :
             j \in ToSet(Agregar(cola, q, i)[r]) <=> j \in ToSet(cola[r]) \/ (r = q /\ j = i)
        /\ \A r \in Colas \ {q} : Agregar(cola, q, i)[r] = cola[r]
    BY <1>1, <1>4, AgregarEn DEF Ubicados
  <2> QED  BY <1>2, <2>1 DEF En
<1>6. \A d \in CPUS : \A j : EnHiloCPU(j, d)' <=> d # c /\ EnHiloCPU(j, d)
  <2>1. \A d \in CPUS : \A j : EnHiloCPU(j, d)' <=>
           IF d = c THEN "libera" \in {"anota", "bloquea", "termina"} /\ com[c].dtb = j
                    ELSE EnHiloCPU(j, d)
    BY <1>1, HiloSigue
  <2> QED  BY <2>1
<1>7. \A j : EnHiloCPU(j, c) => j = i
  BY DEF EnHiloCPU
<1>8. \A j : (EnPLPde(j)' <=> EnPLPde(j)) /\ (EnPCPde(j)' <=> EnPCPde(j))
  BY DEF EnPLPde, EnPCPde
<1>9. \A j \in DTB \ {i} : MismoLugar(j)
  BY <1>5, <1>6, <1>7, <1>8 DEF MismoLugar
<1>10. SoloEnCola(i, q)'
  <2>1. \A r \in Colas : En(i, r)' <=> r = q
    BY <1>5, <1>3 DEF SoloEnHilo
  <2>2. \A d \in CPUS : ~ EnHiloCPU(i, d)'
    BY <1>6, <1>3 DEF SoloEnHilo
  <2>3. ~ EnPLPde(i)' /\ ~ EnPCPde(i)'
    BY <1>8, <1>3 DEF SoloEnHilo
  <2> QED  BY <2>1, <2>2, <2>3 DEF SoloEnCola
<1>11. Ubicados'
  BY <1>1, <1>3, <1>5, <1>9, <1>10, UnoSeMueve DEF Solo
<1>12. TablaCorta' /\ MensajeBienFormado'
  BY <1>2, <1>5, TablasSiguen DEF LugarInv
<1>13. PCPConElPrimero' /\ ListasSinUso' /\ con'.en = "lista"
  BY <1>5, ElPrimeroSigue DEF LugarInv, ListasSinUso
<1> QED
  BY <1>3, <1>9, <1>10, <1>11, <1>12, <1>13 DEF LugarInv

(* A NULL at the end of "terminados" moves nobody. *)
LEMMA AgregarNulo ==
    ASSUME SafaInv, LugarInv, cola' = Agregar(cola, "terminados", NULO),
           UNCHANGED <<id, tabla, con, dtbConEqGrandeAbierto, plp, pcp, safaACpu>>,
           \A j \in DTB : \A c \in CPUS : EnHiloCPU(j, c)' <=> EnHiloCPU(j, c)
    PROVE  LugarInv' /\ \A j \in DTB : MismoLugar(j)
<1>1. ColasOK(cola) /\ Ubicados
  BY DEF SafaInv, SafaTypeOK, LugarInv
<1>2. "terminados" \in Colas /\ "listos" \in Colas \ {"terminados"}
      /\ "auxVirtualRR" \in Colas \ {"terminados"}
  BY DEF Colas
<1>3. /\ SinRepetidos(Agregar(cola, "terminados", NULO))
      /\ \A r \in Colas : \A j :
           j \in ToSet(Agregar(cola, "terminados", NULO)[r]) <=>
              j \in ToSet(cola[r]) \/ (r = "terminados" /\ j = NULO)
      /\ \A r \in Colas \ {"terminados"} : Agregar(cola, "terminados", NULO)[r] = cola[r]
  BY <1>1, <1>2, AgregarEn DEF Ubicados
<1>4. /\ SinRepetidos(cola')
      /\ \A r \in Colas : \A j \in DTB : En(j, r)' <=> En(j, r)
      /\ cola'["listos"] = cola["listos"]
      /\ cola'["auxVirtualRR"] = cola["auxVirtualRR"]
  BY <1>2, <1>3, DTBNoNulo DEF En
<1>5. \A j \in DTB : MismoLugar(j)
  BY <1>4 DEF MismoLugar, EnPLPde, EnPCPde
<1>6. Ubicados'
  <2>1. \A j \in DTB : Existe(j)' <=> Existe(j)
    BY DEF Existe
  <2>2. \A j \in DTB : (Solo(j) => Solo(j)') /\ (Nada(j) => Nada(j)')
    BY <1>5, SigueSolo
  <2> QED  BY <1>1, <1>4, <2>1, <2>2 DEF Ubicados
<1>7. TablaCorta' /\ MensajeBienFormado'
  BY <1>2, <1>4, TablasSiguen DEF LugarInv
<1>8. PCPConElPrimero' /\ ListasSinUso' /\ con'.en = "lista"
  BY <1>4, ElPrimeroSigue DEF LugarInv, ListasSinUso
<1> QED
  BY <1>5, <1>6, <1>7, <1>8 DEF LugarInv

(* the thread of CPU c *)
LEMMA HiloCPUUbica ==
    ASSUME SafaInv, LugarInv, NEW c \in CPUS, HiloCPU(c)
    PROVE  LugarInv'
<1>1. ComOK(com)
  BY DEF SafaInv, SafaTypeOK
<1>2. UNCHANGED safaACpu
  BY DEF HiloCPU, BloquearDTB, AbortarDTB, PedirRecurso, CrearRecurso,
         AnotarDummy, AgregarBloqueado, AgregarTerminado, LiberarCPU, Recibe, red
<1>3. CASE Caer
  BY <1>2, <1>3, CaerNoMueve
<1>4. MensajeBienFormado'
  BY <1>2 DEF LugarInv, MensajeBienFormado
<1>5. CASE BloquearDTB(c) /\ ~ Caer
  <2> DEFINE i == Head(cpuASafa[c]).id
  <2>1. Recibe(c, {"BloquearDTB"})
    BY <1>5 DEF BloquearDTB
  <2>2. i \in DTB /\ com[c].en = "espera"
    BY <2>1, RecibeOK DEF SafaInv, Recibe
  <2>3. /\ En(i, "ejecutando")
        /\ cola' = Sacar("ejecutando", i)
        /\ com' = [com EXCEPT ![c] = [en |-> "anota", dtb |-> i]]
        /\ UNCHANGED <<id, tabla, con, dtbConEqGrandeAbierto, plp, pcp>>
    BY <1>5 DEF BloquearDTB, datosDTB
  <2> QED
    BY <1>2, <2>2, <2>3, TomarDeEjecutando
<1>6. CASE AbortarDTB(c)
  <2> DEFINE i == Head(cpuASafa[c]).id
  <2>1. Recibe(c, {"AbortarDTB"})
    BY <1>6 DEF AbortarDTB
  <2>2. i \in DTB /\ com[c].en = "espera"
    BY <2>1, RecibeOK DEF SafaInv, Recibe
  <2>3. /\ cola' = Sacar("ejecutando", i)
        /\ com' = [com EXCEPT ![c] =
                     [en |-> "termina", dtb |-> IF En(i, "ejecutando") THEN i ELSE NULO]]
        /\ UNCHANGED <<id, tabla, con, dtbConEqGrandeAbierto, plp, pcp>>
    BY <1>6 DEF AbortarDTB, datosDTB
  <2>4. CASE En(i, "ejecutando")
    BY <1>2, <2>2, <2>3, <2>4, TomarDeEjecutando
  <2>5. CASE ~ En(i, "ejecutando")
    <3>1. UNCHANGED cola
      <4>1. cola["ejecutando"] \in Seq(DTB) /\ "ejecutando" \in Colas
            /\ cola \in [Colas -> Seq(DTB \cup {NULO})]
        BY DEF SafaInv, SafaTypeOK, ColasOK, Colas
      <4>2. RemoveFirst(cola["ejecutando"], i) = cola["ejecutando"]
        BY <2>5, <4>1 DEF RemoveFirst, En, ToSet
      <4> QED  BY <2>3, <4>1, <4>2 DEF Sacar
    <3>2. \A j \in DTB : \A d \in CPUS : EnHiloCPU(j, d)' <=> EnHiloCPU(j, d)
      <4>1. \A d \in CPUS : \A j : EnHiloCPU(j, d)' <=>
               IF d = c THEN "termina" \in {"anota", "bloquea", "termina"} /\ j = NULO
                        ELSE EnHiloCPU(j, d)
        BY <1>1, <2>3, <2>5, HiloToma
      <4> QED  BY <4>1, <2>2, DTBNoNulo DEF EnHiloCPU
    <3> QED
      BY <1>4, <2>3, <3>1, <3>2, NadieSeMueve DEF EnPLPde
  <2> QED  BY <2>4, <2>5
<1>7. CASE (PedirRecurso(c) /\ ~ Caer) \/ LiberarCPU(c) \/ AnotarDummy(c)
  <2>1. UNCHANGED <<cola, id, tabla, con, dtbConEqGrandeAbierto, plp, pcp>>
    BY <1>7 DEF PedirRecurso, LiberarCPU, AnotarDummy, datosDTB
  <2>2. \A j \in DTB : \A d \in CPUS : EnHiloCPU(j, d)' <=> EnHiloCPU(j, d)
    <3>1. CASE PedirRecurso(c) /\ ~ Caer
      <4>1. com[c].en = "espera" /\ com' = [com EXCEPT ![c].en = "recibeRecurso"]
        BY <3>1 DEF PedirRecurso, Recibe
      <4>2. \A d \in CPUS : \A j : EnHiloCPU(j, d)' <=>
               IF d = c THEN "recibeRecurso" \in {"anota", "bloquea", "termina"} /\ com[c].dtb = j
                        ELSE EnHiloCPU(j, d)
        BY <1>1, <4>1, HiloSigue
      <4> QED  BY <4>1, <4>2 DEF EnHiloCPU
    <3>2. CASE AnotarDummy(c)
      <4>1. com[c].en = "anota" /\ com' = [com EXCEPT ![c].en = "bloquea"]
        BY <3>2 DEF AnotarDummy
      <4>2. \A d \in CPUS : \A j : EnHiloCPU(j, d)' <=>
               IF d = c THEN "bloquea" \in {"anota", "bloquea", "termina"} /\ com[c].dtb = j
                        ELSE EnHiloCPU(j, d)
        BY <1>1, <4>1, HiloSigue
      <4> QED  BY <4>1, <4>2 DEF EnHiloCPU
    <3>3. CASE LiberarCPU(c)
      <4>1. com[c].en = "libera" /\ com' = [com EXCEPT ![c] = [en |-> "espera", dtb |-> NULO]]
        BY <3>3 DEF LiberarCPU
      <4>2. \A d \in CPUS : \A j : EnHiloCPU(j, d)' <=>
               IF d = c THEN "espera" \in {"anota", "bloquea", "termina"} /\ j = NULO
                        ELSE EnHiloCPU(j, d)
        BY <1>1, <4>1, HiloToma
      <4> QED  BY <4>1, <4>2 DEF EnHiloCPU
    <3> QED  BY <1>7, <3>1, <3>2, <3>3
  <2> QED
    BY <1>4, <2>1, <2>2, NadieSeMueve DEF EnPLPde
<1>8. CASE AgregarBloqueado(c)
  <2>1. com[c].dtb \in DTB /\ EnHiloCPU(com[c].dtb, c)
    BY <1>1, <1>8 DEF AgregarBloqueado, ComOK, EnHiloCPU
  <2>2. "bloqueados" \in Colas \ {"listos", "auxVirtualRR"}
    BY DEF Colas
  <2> QED
    BY <1>2, <1>8, <2>1, <2>2, DejarEnCola DEF AgregarBloqueado, datosDTB
<1>9. CASE AgregarTerminado(c)
  <2>1. com[c].dtb \in DTB \cup {NULO}
    BY <1>1 DEF ComOK, EnHilo
  <2>2. "terminados" \in Colas \ {"listos", "auxVirtualRR"}
    BY DEF Colas
  <2>3. /\ com[c].en = "termina"
        /\ cola' = Agregar(cola, "terminados", com[c].dtb)
        /\ com' = [com EXCEPT ![c].en = "libera"]
        /\ UNCHANGED <<id, tabla, con, dtbConEqGrandeAbierto, plp, pcp>>
    BY <1>9 DEF AgregarTerminado, datosDTB
  <2>4. CASE com[c].dtb \in DTB
    <3>1. EnHiloCPU(com[c].dtb, c)
      BY <2>3 DEF EnHiloCPU
    <3> QED
      BY <1>2, <2>2, <2>3, <2>4, <3>1, DejarEnCola
  <2>5. CASE com[c].dtb = NULO
    <3>1. \A d \in CPUS : \A j : EnHiloCPU(j, d)' <=>
             IF d = c THEN "libera" \in {"anota", "bloquea", "termina"} /\ com[c].dtb = j
                      ELSE EnHiloCPU(j, d)
      BY <1>1, <2>3, HiloSigue
    <3>2. \A j \in DTB : \A d \in CPUS : EnHiloCPU(j, d)' <=> EnHiloCPU(j, d)
      BY <2>5, <3>1, DTBNoNulo DEF EnHiloCPU
    <3> QED
      BY <1>2, <2>3, <2>5, <3>2, AgregarNulo
  <2> QED  BY <2>1, <2>4, <2>5
<1> QED
  BY <1>3, <1>5, <1>6, <1>7, <1>8, <1>9 DEF HiloCPU, CrearRecurso

(* The thread of the DAM takes a DTB out of "bloqueados". *)
LEMMA SacarDeBloqueados ==
    ASSUME SafaInv, LugarInv, NEW i \in DTB, En(i, "bloqueados"),
           NEW q \in {"terminados", "listos"},
           cola' = Mover(i, "bloqueados", q),
           UNCHANGED <<id, com, plp, pcp>>
    PROVE  /\ Ubicados' /\ PCPConElPrimero'
           /\ \A j \in DTB \ {i} : MismoLugar(j)
           /\ SoloEnCola(i, "bloqueados") /\ SoloEnCola(i, q)'
           /\ \A j \in DTB : En(j, "listos") => En(j, "listos")'
           /\ cola'["auxVirtualRR"] = cola["auxVirtualRR"]
<1>1. ColasOK(cola) /\ Ubicados
  BY DEF SafaInv, SafaTypeOK, LugarInv
<1>2. /\ "bloqueados" \in Colas \ {"terminados"} /\ q \in Colas /\ q # "bloqueados"
      /\ "listos" \in Colas \ {"bloqueados"} /\ "auxVirtualRR" \in Colas \ {"bloqueados", q}
  BY DEF Colas
<1>3. SoloEnCola(i, "bloqueados") /\ ~ Nada(i) /\ ~ En(i, q)
  BY <1>1, <1>2, EstaSolo DEF SoloEnCola
<1>4. /\ SinRepetidos(Mover(i, "bloqueados", q))
      /\ \A s \in Colas : \A j :
           j \in ToSet(Mover(i, "bloqueados", q)[s]) <=>
              (En(j, s) /\ ~ (s = "bloqueados" /\ j = i)) \/ (s = q /\ j = i)
      /\ \A s \in Colas \ {"bloqueados", q} : Mover(i, "bloqueados", q)[s] = cola[s]
      /\ \A s \in Colas \ {"bloqueados"} : cola[s] # <<>> =>
           /\ Mover(i, "bloqueados", q)[s] # <<>>
           /\ Head(Mover(i, "bloqueados", q)[s]) = Head(cola[s])
  BY <1>1, <1>2, <1>3, MoverEn DEF Ubicados
<1>5. \A s \in Colas : \A j : En(j, s)' <=>
         (En(j, s) /\ ~ (s = "bloqueados" /\ j = i)) \/ (s = q /\ j = i)
  BY <1>4 DEF En
<1>6. \A j \in DTB \ {i} : MismoLugar(j)
  BY <1>5 DEF MismoLugar, EnHiloCPU, EnPLPde, EnPCPde
<1>7. SoloEnCola(i, q)'
  <2>1. \A r \in Colas : En(i, r)' <=> r = q
    BY <1>5, <1>3 DEF SoloEnCola
  <2> QED
    BY <2>1, <1>3 DEF SoloEnCola, EnHiloCPU, EnPLPde, EnPCPde
<1>8. Ubicados'
  BY <1>1, <1>2, <1>3, <1>4, <1>6, <1>7, UnoSeMueve DEF Solo
<1>9. PCPConElPrimero'
  BY <1>2, <1>4, ElPrimeroSigue DEF LugarInv
<1>10. \A j \in DTB : En(j, "listos") => En(j, "listos")'
  BY <1>2, <1>5
<1> QED
  BY <1>2, <1>3, <1>4, <1>6, <1>7, <1>8, <1>9, <1>10

(* the thread of the DAM *)
LEMMA HiloDMAUbica ==
    ASSUME SafaInv, LugarInv, HiloDMA, ALGORITMO # "VRR"
    PROVE  LugarInv'
<1>1. PICK i \in DTB : i = Head(damASafa).id /\ RecibeDAM /\ UNCHANGED safaACpu
  <2>1. RecibeDAM
    BY DEF HiloDMA, OperacionNoFinalizada, AbrirPathFinalizadoOk, OperacionFinalizadaOk
  <2> QED
    BY <2>1, RecibeDAMOK DEF SafaInv, RecibeDAM
<1>2. CASE Caer
  BY <1>1, <1>2, CaerNoMueve
<1>3. ColaListos = "listos"
  BY DEF ColaListos
<1>4. MensajeBienFormado'
  BY <1>1 DEF LugarInv, MensajeBienFormado
<1>5. CASE OperacionNoFinalizada
  <2>1. UNCHANGED <<id, tabla, con, dtbConEqGrandeAbierto, com, plp, pcp>>
    BY <1>5 DEF OperacionNoFinalizada, datosDTB, hilos
  <2>2. CASE En(i, "bloqueados")
    <3>1. cola' = Mover(i, "bloqueados", "terminados")
      BY <1>1, <1>5, <2>2 DEF OperacionNoFinalizada
    <3>2. /\ Ubicados' /\ PCPConElPrimero'
          /\ \A j \in DTB : En(j, "listos") => En(j, "listos")'
          /\ cola'["auxVirtualRR"] = cola["auxVirtualRR"]
      BY <1>1, <2>1, <2>2, <3>1, SacarDeBloqueados
    <3>3. TablaCorta'
      BY <1>1, <2>1, <3>2, TablasSiguen DEF LugarInv
    <3> QED
      BY <1>4, <2>1, <3>2, <3>3 DEF LugarInv, ListasSinUso
  <2>3. CASE ~ En(i, "bloqueados")
    <3>1. cola' = Agregar(cola, "terminados", NULO)
      BY <1>1, <1>5, <2>3 DEF OperacionNoFinalizada
    <3> QED
      BY <1>1, <2>1, <3>1, AgregarNulo DEF EnHiloCPU
  <2> QED  BY <2>2, <2>3
<1>6. CASE AbrirPathFinalizadoOk /\ ~ Caer
  <2>1. /\ En(i, "bloqueados")
        /\ tabla' = [tabla EXCEPT ![i] = Append(@, Head(damASafa).path)]
        /\ cola' = Mover(i, "bloqueados", "listos")
        /\ UNCHANGED <<id, com, plp, pcp, con>>
    BY <1>1, <1>3, <1>6 DEF AbrirPathFinalizadoOk, hilos
  <2>2. /\ Ubicados' /\ PCPConElPrimero'
        /\ \A j \in DTB : En(j, "listos") => En(j, "listos")'
        /\ cola'["auxVirtualRR"] = cola["auxVirtualRR"]
    BY <1>1, <2>1, SacarDeBloqueados
  <2>3. UNCHANGED dtbConEqGrandeAbierto
    <3>1. ~ noEstaEnLista(i)
      BY DEF LugarInv, ListasSinUso, noEstaEnLista, ToSet
    <3> QED  BY <1>1, <1>6, <3>1 DEF AbrirPathFinalizadoOk
  <2>4. ~ En(i, "listos") /\ En(i, "listos")'
    <3>1. SoloEnCola(i, "bloqueados")
      BY <1>1, <2>1, SacarDeBloqueados
    <3>2. SoloEnCola(i, "listos")'
      BY <1>1, <2>1, SacarDeBloqueados
    <3> QED  BY <3>1, <3>2 DEF SoloEnCola, Colas
  <2>5. tabla[i] = <<>> /\ tabla \in [DTB -> Seq(Path)]
    BY <1>1, <2>4 DEF LugarInv, TablaCorta, SafaInv, SafaTypeOK
  <2>6. tabla'[i] = Append(<<>>, Head(damASafa).path) /\ Len(tabla'[i]) = 1
    BY <1>1, <2>1, <2>5
  <2>7. \A j \in DTB \ {i} : tabla'[j] = tabla[j]
    BY <2>1, <2>5
  <2>8. ~ (pcp'.en = "quita" /\ pcp'.dtb = i)
    <3>1. ASSUME pcp.en = "quita", pcp.dtb = i  PROVE FALSE
      <4>1. cola["listos"] # <<>> /\ Head(cola["listos"]) = i
        BY <3>1 DEF LugarInv, PCPConElPrimero
      <4>2. En(i, "listos")
        BY <4>1, CabezaEsta DEF SafaInv, SafaTypeOK, Colas
      <4> QED  BY <4>2, <2>4
    <3> QED  BY <3>1, <2>1
  <2>9. TablaCorta'
    <3> SUFFICES ASSUME NEW j \in DTB, tabla'[j] # <<>>
                 PROVE  /\ Len(tabla'[j]) = 1 /\ En(j, "listos")'
                        /\ ~ (pcp'.en = "quita" /\ pcp'.dtb = j)
      BY DEF TablaCorta
    <3>1. CASE j = i
      BY <3>1, <2>4, <2>6, <2>8
    <3>2. CASE j # i
      BY <3>2, <2>1, <2>2, <2>7 DEF LugarInv, TablaCorta
    <3> QED  BY <3>1, <3>2
  <2> QED
    BY <1>4, <2>1, <2>2, <2>3, <2>9 DEF LugarInv, ListasSinUso
<1>7. CASE OperacionFinalizadaOk /\ ~ Caer
  <2>1. /\ En(i, "bloqueados")
        /\ cola' = Mover(i, "bloqueados", "listos")
        /\ UNCHANGED <<id, tabla, con, dtbConEqGrandeAbierto, com, plp, pcp>>
    BY <1>1, <1>3, <1>7 DEF OperacionFinalizadaOk, datosDTB, hilos
  <2>2. /\ Ubicados' /\ PCPConElPrimero'
        /\ \A j \in DTB : En(j, "listos") => En(j, "listos")'
        /\ cola'["auxVirtualRR"] = cola["auxVirtualRR"]
    BY <1>1, <2>1, SacarDeBloqueados
  <2>3. TablaCorta'
    BY <1>1, <2>1, <2>2, TablasSiguen DEF LugarInv
  <2> QED
    BY <1>4, <2>1, <2>2, <2>3 DEF LugarInv, ListasSinUso
<1> QED
  BY <1>2, <1>5, <1>6, <1>7 DEF HiloDMA

(* the long-term scheduler *)
LEMMA PLPTomaUbica ==
    ASSUME SafaInv, LugarInv, NEW i \in DTB, cola["nuevos"] # <<>>,
           i = Head(cola["nuevos"]), PLPToma, ~ Caer
    PROVE  /\ LugarInv'
           /\ \A j \in DTB \ {i} : MismoLugar(j)
           /\ SoloEnCola(i, "nuevos") /\ SoloEnPLP(i)'
<1>1. ColasOK(cola) /\ Ubicados
  BY DEF SafaInv, SafaTypeOK, LugarInv
<1>2. /\ plp.en = "toma" /\ plp' = [en |-> "agrega", dtb |-> i]
      /\ cola' = [cola EXCEPT !["nuevos"] = Tail(@)]
      /\ UNCHANGED <<id, tabla, con, dtbConEqGrandeAbierto, com, pcp, safaACpu>>
  BY DEF PLPToma, red
<1>3. "nuevos" \in Colas \ {"terminados"} /\ "listos" \in Colas \ {"nuevos"}
      /\ "auxVirtualRR" \in Colas \ {"nuevos"}
  BY DEF Colas
<1>4. /\ SinRepetidos(cola')
      /\ \A r \in Colas : \A j :
           En(j, r)' <=> En(j, r) /\ ~ (r = "nuevos" /\ j = i)
      /\ \A r \in Colas \ {"nuevos"} : cola'[r] = cola[r]
      /\ En(i, "nuevos")
  BY <1>1, <1>2, <1>3, CabezaEn DEF Ubicados
<1>5. \A r \in Colas : \A j : En(j, r)' <=> En(j, r) /\ ~ (r = "nuevos" /\ j = i)
  BY <1>4
<1>6. SoloEnCola(i, "nuevos") /\ ~ Nada(i)
  BY <1>1, <1>3, <1>4, EstaSolo
<1>7. /\ \A j : ~ EnPLPde(j) /\ (EnPLPde(j)' <=> j = i)
      /\ \A j : EnPCPde(j)' <=> EnPCPde(j)
      /\ \A j : \A d \in CPUS : EnHiloCPU(j, d)' <=> EnHiloCPU(j, d)
  BY <1>2 DEF EnPLPde, EnPCPde, EnHiloCPU
<1>8. \A j \in DTB \ {i} : MismoLugar(j)
  BY <1>5, <1>7 DEF MismoLugar
<1>9. SoloEnPLP(i)'
  <2>1. \A r \in Colas : ~ En(i, r)'
    BY <1>5, <1>6 DEF SoloEnCola
  <2>2. (\A d \in CPUS : ~ EnHiloCPU(i, d)') /\ EnPLPde(i)' /\ ~ EnPCPde(i)'
    BY <1>6, <1>7 DEF SoloEnCola
  <2> QED  BY <2>1, <2>2 DEF SoloEnPLP
<1>10. Ubicados'
  BY <1>1, <1>2, <1>4, <1>6, <1>8, <1>9, UnoSeMueve DEF Solo
<1>11. TablaCorta' /\ MensajeBienFormado'
  BY <1>2, <1>3, <1>5, TablasSiguen DEF LugarInv
<1>12. PCPConElPrimero' /\ ListasSinUso' /\ con'.en = "lista"
  BY <1>2, <1>3, <1>4, ElPrimeroSigue DEF LugarInv, ListasSinUso
<1> QED
  BY <1>6, <1>8, <1>9, <1>10, <1>11, <1>12 DEF LugarInv

LEMMA PLPAgregaUbica ==
    ASSUME SafaInv, LugarInv, NEW i \in DTB, i = plp.dtb, PLPAgrega
    PROVE  /\ LugarInv'
           /\ \A j \in DTB \ {i} : MismoLugar(j)
           /\ SoloEnPLP(i) /\ SoloEnCola(i, "listos")'
<1>1. ColasOK(cola) /\ Ubicados
  BY DEF SafaInv, SafaTypeOK, LugarInv
<1>2. /\ plp.en = "agrega" /\ plp' = [en |-> "pausa", dtb |-> NULO]
      /\ cola' = Agregar(cola, "listos", i)
      /\ UNCHANGED <<id, tabla, con, dtbConEqGrandeAbierto, com, pcp, safaACpu>>
  BY DEF PLPAgrega, red, datosDTB
<1>3. "listos" \in Colas /\ "auxVirtualRR" \in Colas \ {"listos"}
  BY DEF Colas
<1>4. SoloEnPLP(i) /\ ~ Nada(i)
  BY <1>1, <1>2, EstaSolo DEF EnPLPde
<1>5. i \notin ToSet(cola["listos"])
  BY <1>3, <1>4 DEF SoloEnPLP, En
<1>6. /\ SinRepetidos(cola')
      /\ \A r \in Colas : \A j :
           j \in ToSet(cola'[r]) <=> j \in ToSet(cola[r]) \/ (r = "listos" /\ j = i)
      /\ \A r \in Colas \ {"listos"} : cola'[r] = cola[r]
      /\ \A r \in Colas : cola[r] # <<>> =>
           cola'[r] # <<>> /\ Head(cola'[r]) = Head(cola[r])
  BY <1>1, <1>2, <1>3, <1>5, AgregarEn DEF Ubicados
<1>7. \A r \in Colas : \A j : En(j, r)' <=> En(j, r) \/ (r = "listos" /\ j = i)
  BY <1>6 DEF En
<1>8. /\ \A j \in DTB \ {i} : ~ EnPLPde(j)
      /\ \A j : ~ EnPLPde(j)'
      /\ \A j : EnPCPde(j)' <=> EnPCPde(j)
      /\ \A j : \A d \in CPUS : EnHiloCPU(j, d)' <=> EnHiloCPU(j, d)
  BY <1>2 DEF EnPLPde, EnPCPde, EnHiloCPU
<1>9. \A j \in DTB \ {i} : MismoLugar(j)
  BY <1>7, <1>8 DEF MismoLugar
<1>10. SoloEnCola(i, "listos")'
  <2>1. \A r \in Colas : En(i, r)' <=> r = "listos"
    BY <1>4, <1>7 DEF SoloEnPLP
  <2>2. (\A d \in CPUS : ~ EnHiloCPU(i, d)') /\ ~ EnPLPde(i)' /\ ~ EnPCPde(i)'
    BY <1>4, <1>8 DEF SoloEnPLP
  <2> QED  BY <2>1, <2>2 DEF SoloEnCola
<1>11. Ubicados'
  BY <1>1, <1>2, <1>3, <1>4, <1>6, <1>9, <1>10, UnoSeMueve DEF Solo
<1>12. TablaCorta' /\ MensajeBienFormado'
  BY <1>2, <1>3, <1>7, TablasSiguen DEF LugarInv
<1>13. PCPConElPrimero' /\ ListasSinUso' /\ con'.en = "lista"
  BY <1>2, <1>3, <1>6, ElPrimeroSigue DEF LugarInv, ListasSinUso
<1> QED
  BY <1>4, <1>9, <1>10, <1>11, <1>12, <1>13 DEF LugarInv

LEMMA HiloPLPUbica ==
    ASSUME SafaInv, LugarInv, HiloPLP
    PROVE  LugarInv'
<1>1. UNCHANGED safaACpu
  BY DEF HiloPLP, PLPDespierta, PLPGrado, PLPDecide, PLPToma, PLPAgrega, red
<1>2. CASE Caer
  BY <1>1, <1>2, CaerNoMueve
<1>3. CASE PLPDespierta \/ PLPGrado \/ PLPDecide
  <2>1. /\ UNCHANGED <<cola, id, tabla, con, dtbConEqGrandeAbierto, com, pcp>>
        /\ plp.en # "agrega" /\ plp'.en # "agrega"
    BY <1>3 DEF PLPDespierta, PLPGrado, PLPDecide, datosDTB, SafaInv, SafaTypeOK, EnPLP
  <2>2. MensajeBienFormado'
    BY <1>1 DEF LugarInv, MensajeBienFormado
  <2> QED
    BY <2>1, <2>2, NadieSeMueve DEF EnPLPde, EnHiloCPU
<1>4. CASE PLPToma /\ ~ Caer
  <2>1. cola["nuevos"] # <<>>
    BY <1>4 DEF PLPToma
  <2>2. Head(cola["nuevos"]) \in DTB
    BY <2>1, CabezaOK DEF SafaInv, SafaTypeOK, Colas
  <2> QED
    BY <1>4, <2>1, <2>2, PLPTomaUbica
<1>5. CASE PLPAgrega
  BY <1>5, PLPAgregaUbica DEF PLPAgrega, SafaInv, SafaTypeOK
<1> QED
  BY <1>2, <1>3, <1>4, <1>5 DEF HiloPLP

(* A table of at most one file is sent whole, and nothing of it is kept. *)
LEMMA TablaDeUno ==
    ASSUME NEW s \in Seq(Path), s = <<>> \/ Len(s) = 1
    PROVE  Len(SubSeq(s, 1, Enviados(Len(s)))) = Len(s) /\ Restantes(s) = <<>>
<1>1. Len(s) \in {0, 1}
  OBVIOUS
<1>2. Enviados(Len(s)) = Len(s)
  <2>1. (0 + 1) \div 2 = 0 /\ (1 + 1) \div 2 = 1
    OBVIOUS
  <2> QED  BY <1>1, <2>1 DEF Enviados
<1>3. SubSeq(s, Len(s) + 1, Len(s)) = <<>>
  BY <1>1
<1>4. Len(SubSeq(s, 1, Len(s))) = Len(s)
  BY <1>1
<1> QED
  BY <1>2, <1>3, <1>4 DEF Restantes

(* A step of the PCP that does not take the DTB into its hands. *)
LEMMA PCPQuieto ==
    ASSUME LugarInv, UNCHANGED <<cola, id, con, dtbConEqGrandeAbierto, com, plp>>,
           pcp.en # "agrega", pcp'.en # "agrega",
           PCPConElPrimero', TablaCorta', MensajeBienFormado'
    PROVE  LugarInv' /\ \A j \in DTB : MismoLugar(j)
<1>1. \A j \in DTB : MismoLugar(j)
  BY DEF MismoLugar, En, EnPCPde, EnPLPde, EnHiloCPU
<1>2. Ubicados'
  BY <1>1, UbicadosSiguen DEF LugarInv
<1>3. ListasSinUso' /\ con'.en = "lista"
  BY DEF LugarInv, ListasSinUso
<1> QED  BY <1>1, <1>2, <1>3 DEF LugarInv

(* prot_enviar_SAFA_CPU_DTB: the message is whole and the table is left empty. *)
LEMMA PCPDespachaUbica ==
    ASSUME SafaInv, LugarInv, PCPDespacha, ~ Caer
    PROVE  LugarInv' /\ \A j \in DTB : MismoLugar(j)
<1>1. PICK i \in DTB : /\ i = pcp.dtb /\ pcp.en = "despacha"
                       /\ cola["listos"] # <<>> /\ Head(cola["listos"]) = i
                       /\ En(i, "listos")
  <2>1. pcp.en = "despacha" /\ cola["listos"] # <<>> /\ Head(cola["listos"]) = pcp.dtb
    BY DEF PCPDespacha, LugarInv, PCPConElPrimero
  <2>2. pcp.dtb \in DTB /\ En(pcp.dtb, "listos")
    BY <2>1, CabezaOK, CabezaEsta DEF SafaInv, SafaTypeOK, Colas
  <2> QED  BY <2>1, <2>2
<1> DEFINE n == Len(tabla[i])
           m == [id |-> i, ini |-> iniGDT[i], cantidad |-> n,
                 archivos |-> SubSeq(tabla[i], 1, Enviados(n))]
<1>2. PICK c \in CPUS : /\ safaACpu' = Enviar(safaACpu, c, m)
                        /\ tabla' = [tabla EXCEPT ![i] = Restantes(@)]
                        /\ pcp' = [pcp EXCEPT !.en = "quita"]
                        /\ UNCHANGED <<cola, id, con, dtbConEqGrandeAbierto, com, plp>>
  <2>1. cpu_libres \in Seq(CPUS) /\ cpu_libres # <<>>
    BY <1>1 DEF SafaInv, SafaTypeOK, DespachaConCPU
  <2>2. Head(cpu_libres) \in CPUS
    BY <2>1
  <2> QED  BY <1>1, <2>2 DEF PCPDespacha
<1>3. tabla \in [DTB -> Seq(Path)] /\ safaACpu \in [CPUS -> Seq(MensajeDTB)]
  BY DEF SafaInv, SafaTypeOK, RedTypeOK
<1>4. tabla[i] = <<>> \/ Len(tabla[i]) = 1
  BY DEF LugarInv, TablaCorta
<1>5. Len(SubSeq(tabla[i], 1, Enviados(n))) = n /\ Restantes(tabla[i]) = <<>>
  BY <1>3, <1>4, TablaDeUno
<1>6. MensajeBienFormado'
  <2>1. Len(m.archivos) = m.cantidad
    BY <1>5
  <2> HIDE DEF m
  <2>2. safaACpu'[c] = Append(safaACpu[c], m) /\ \A d \in CPUS \ {c} : safaACpu'[d] = safaACpu[d]
    BY <1>2, <1>3 DEF Enviar
  <2>3. safaACpu[c] \in Seq(MensajeDTB)
    BY <1>3
  <2>4. ASSUME NEW k \in DOMAIN safaACpu'[c]
        PROVE  Len(safaACpu'[c][k].archivos) = safaACpu'[c][k].cantidad
    <3>1. CASE k \in 1 .. Len(safaACpu[c])
      BY <3>1, <2>2, <2>3 DEF LugarInv, MensajeBienFormado
    <3>2. CASE k = Len(safaACpu[c]) + 1
      <4>1. safaACpu'[c][k] = m
        BY <3>2, <2>2, <2>3
      <4> QED  BY <4>1, <2>1
    <3> QED
      BY <3>1, <3>2, <2>2, <2>3
  <2>5. ASSUME NEW d \in CPUS \ {c}, NEW k \in DOMAIN safaACpu'[d]
        PROVE  Len(safaACpu'[d][k].archivos) = safaACpu'[d][k].cantidad
    BY <2>2, <2>5 DEF LugarInv, MensajeBienFormado
  <2> QED  BY <2>4, <2>5 DEF MensajeBienFormado
<1>7. pcp'.en = "quita" /\ pcp'.dtb = i
  BY <1>1, <1>2 DEF SafaInv, SafaTypeOK, EnPCP
<1>8. PCPConElPrimero'
  BY <1>1, <1>2, <1>7 DEF PCPConElPrimero
<1>9. TablaCorta'
  <2>1. tabla'[i] = <<>> /\ \A j \in DTB \ {i} : tabla'[j] = tabla[j]
    BY <1>2, <1>3, <1>5
  <2>2. \A j \in DTB : En(j, "listos")' <=> En(j, "listos")
    BY <1>2 DEF En
  <2> QED
    BY <1>7, <2>1, <2>2 DEF LugarInv, TablaCorta
<1> QED
  BY <1>1, <1>2, <1>6, <1>7, <1>8, <1>9, PCPQuieto

(* list_remove(listos, 0): the PCP has the DTB it sent. *)
LEMMA PCPQuitaUbica ==
    ASSUME SafaInv, LugarInv, NEW i \in DTB, i = pcp.dtb, PCPQuita, ~ Caer
    PROVE  /\ LugarInv'
           /\ \A j \in DTB \ {i} : MismoLugar(j)
           /\ SoloEnCola(i, "listos") /\ SoloEnPCP(i)'
<1>1. ColasOK(cola) /\ Ubicados
  BY DEF SafaInv, SafaTypeOK, LugarInv
<1>2. cola["listos"] # <<>> /\ Head(cola["listos"]) = i /\ pcp.en = "quita"
  BY DEF PCPQuita, LugarInv, PCPConElPrimero
<1>3. /\ cola' = [cola EXCEPT !["listos"] = Tail(@)]
      /\ pcp' = [pcp EXCEPT !.en = "agrega"]
      /\ UNCHANGED <<id, tabla, con, dtbConEqGrandeAbierto, com, plp, safaACpu>>
  <2>1. /\ cola' = [cola EXCEPT !["listos"] = IF @ = <<>> THEN @ ELSE Tail(@)]
        /\ pcp' = [pcp EXCEPT !.en = "agrega"]
        /\ UNCHANGED <<id, tabla, con, dtbConEqGrandeAbierto, com, plp, safaACpu>>
    BY DEF PCPQuita, datosDTB, red
  <2> QED  BY <1>2, <2>1
<1>4. pcp'.en = "agrega" /\ pcp'.dtb = i
  BY <1>3 DEF SafaInv, SafaTypeOK, EnPCP
<1>5. "listos" \in Colas \ {"terminados"} /\ "auxVirtualRR" \in Colas \ {"listos"}
  BY DEF Colas
<1>6. /\ SinRepetidos(cola')
      /\ \A r \in Colas : \A j :
           En(j, r)' <=> En(j, r) /\ ~ (r = "listos" /\ j = i)
      /\ \A r \in Colas \ {"listos"} : cola'[r] = cola[r]
      /\ En(i, "listos")
  BY <1>1, <1>2, <1>3, <1>5, CabezaEn DEF Ubicados
<1>7. SoloEnCola(i, "listos") /\ ~ Nada(i)
  BY <1>1, <1>5, <1>6, EstaSolo
<1>8. /\ \A j : ~ EnPCPde(j) /\ (EnPCPde(j)' <=> j = i)
      /\ \A j : EnPLPde(j)' <=> EnPLPde(j)
      /\ \A j : \A d \in CPUS : EnHiloCPU(j, d)' <=> EnHiloCPU(j, d)
  BY <1>2, <1>3, <1>4 DEF EnPLPde, EnPCPde, EnHiloCPU
<1>9. \A j \in DTB \ {i} : MismoLugar(j)
  BY <1>6, <1>8 DEF MismoLugar
<1>10. SoloEnPCP(i)'
  <2>1. \A r \in Colas : ~ En(i, r)'
    BY <1>6, <1>7 DEF SoloEnCola
  <2>2. (\A d \in CPUS : ~ EnHiloCPU(i, d)') /\ EnPCPde(i)' /\ ~ EnPLPde(i)'
    BY <1>7, <1>8 DEF SoloEnCola
  <2> QED  BY <2>1, <2>2 DEF SoloEnPCP
<1>11. Ubicados'
  BY <1>1, <1>3, <1>6, <1>7, <1>9, <1>10, UnoSeMueve DEF Solo
<1>12. TablaCorta'
  <2>1. tabla[i] = <<>>
    BY <1>2 DEF LugarInv, TablaCorta
  <2>2. \A j \in DTB \ {i} : En(j, "listos") => En(j, "listos")'
    BY <1>5, <1>6
  <2> QED
    BY <1>3, <1>4, <2>1, <2>2 DEF LugarInv, TablaCorta
<1>13. MensajeBienFormado'
  BY <1>3 DEF LugarInv, MensajeBienFormado
<1>14. PCPConElPrimero' /\ ListasSinUso' /\ con'.en = "lista"
  BY <1>3, <1>4, <1>5, <1>6 DEF LugarInv, ListasSinUso, PCPConElPrimero
<1> QED
  BY <1>7, <1>9, <1>10, <1>11, <1>12, <1>13, <1>14 DEF LugarInv

LEMMA PCPAgregaUbica ==
    ASSUME SafaInv, LugarInv, NEW i \in DTB, i = pcp.dtb, PCPAgrega
    PROVE  /\ LugarInv'
           /\ \A j \in DTB \ {i} : MismoLugar(j)
           /\ SoloEnPCP(i) /\ SoloEnCola(i, "ejecutando")'
<1>1. ColasOK(cola) /\ Ubicados
  BY DEF SafaInv, SafaTypeOK, LugarInv
<1>2. /\ pcp.en = "agrega" /\ pcp' = [en |-> "pausa", dtb |-> NULO]
      /\ cola' = Agregar(cola, "ejecutando", i)
      /\ UNCHANGED <<id, tabla, con, dtbConEqGrandeAbierto, com, plp, safaACpu>>
  BY DEF PCPAgrega, red, datosDTB
<1>3. "ejecutando" \in Colas /\ "auxVirtualRR" \in Colas \ {"ejecutando"}
      /\ "listos" \in Colas \ {"ejecutando"}
  BY DEF Colas
<1>4. SoloEnPCP(i) /\ ~ Nada(i)
  BY <1>1, <1>2, EstaSolo DEF EnPCPde
<1>5. i \notin ToSet(cola["ejecutando"])
  BY <1>3, <1>4 DEF SoloEnPCP, En
<1>6. /\ SinRepetidos(cola')
      /\ \A r \in Colas : \A j :
           j \in ToSet(cola'[r]) <=> j \in ToSet(cola[r]) \/ (r = "ejecutando" /\ j = i)
      /\ \A r \in Colas \ {"ejecutando"} : cola'[r] = cola[r]
  BY <1>1, <1>2, <1>3, <1>5, AgregarEn DEF Ubicados
<1>7. \A r \in Colas : \A j : En(j, r)' <=> En(j, r) \/ (r = "ejecutando" /\ j = i)
  BY <1>6 DEF En
<1>8. /\ \A j \in DTB \ {i} : ~ EnPCPde(j)
      /\ \A j : ~ EnPCPde(j)'
      /\ \A j : EnPLPde(j)' <=> EnPLPde(j)
      /\ \A j : \A d \in CPUS : EnHiloCPU(j, d)' <=> EnHiloCPU(j, d)
  BY <1>2 DEF EnPLPde, EnPCPde, EnHiloCPU
<1>9. \A j \in DTB \ {i} : MismoLugar(j)
  BY <1>7, <1>8 DEF MismoLugar
<1>10. SoloEnCola(i, "ejecutando")'
  <2>1. \A r \in Colas : En(i, r)' <=> r = "ejecutando"
    BY <1>4, <1>7 DEF SoloEnPCP
  <2>2. (\A d \in CPUS : ~ EnHiloCPU(i, d)') /\ ~ EnPLPde(i)' /\ ~ EnPCPde(i)'
    BY <1>4, <1>8 DEF SoloEnPCP
  <2> QED  BY <2>1, <2>2 DEF SoloEnCola
<1>11. Ubicados'
  BY <1>1, <1>2, <1>3, <1>4, <1>6, <1>9, <1>10, UnoSeMueve DEF Solo
<1>12. /\ TablaCorta' /\ MensajeBienFormado' /\ PCPConElPrimero' /\ ListasSinUso'
       /\ con'.en = "lista"
  BY <1>2, <1>3, <1>6, <1>7
  DEF LugarInv, TablaCorta, MensajeBienFormado, PCPConElPrimero, ListasSinUso
<1> QED
  BY <1>4, <1>9, <1>10, <1>11, <1>12 DEF LugarInv

(* the short-term scheduler *)
LEMMA HiloPCPUbica ==
    ASSUME SafaInv, LugarInv, HiloPCP
    PROVE  LugarInv'
<1>1. ASSUME UNCHANGED red  PROVE UNCHANGED safaACpu /\ MensajeBienFormado'
  BY <1>1 DEF red, LugarInv, MensajeBienFormado
<1>2. CASE Caer
  <2>1. UNCHANGED safaACpu
    <3>1. pcp'.en = pcp.en
      BY <1>2 DEF Caer, hilos
    <3>2. ~ (pcp.en = "despacha" /\ pcp' = [pcp EXCEPT !.en = "quita"])
      BY <3>1 DEF SafaInv, SafaTypeOK, EnPCP
    <3> QED
      BY <3>2 DEF HiloPCP, PCPDespierta, PCPRevisa, PCPElige, PCPBusca, PCPDespacha,
                  PCPQuita, PCPAgrega, red
  <2> QED  BY <1>2, <2>1, CaerNoMueve
<1>3. CASE (PCPDespierta \/ PCPRevisa \/ PCPElige \/ PCPBusca) /\ ~ Caer
  <2>1. UNCHANGED <<cola, id, tabla, con, com, plp, red>>
    BY <1>3 DEF PCPDespierta, PCPRevisa, PCPElige, PCPBusca, datosDTB
  <2>2. UNCHANGED dtbConEqGrandeAbierto
    BY <1>3 DEF PCPDespierta, PCPRevisa, PCPElige, PCPBusca, LugarInv, ListasSinUso
  <2>3. /\ pcp.en \notin {"agrega", "quita"} /\ pcp'.en \notin {"agrega", "quita"}
        /\ PCPConElPrimero'
    <3>1. CASE PCPDespierta
      <4>1. pcp.en = "pausa" /\ pcp'.en = "revisa"
        BY <3>1 DEF PCPDespierta, SafaInv, SafaTypeOK, EnPCP
      <4> QED  BY <4>1 DEF PCPConElPrimero
    <3>2. CASE PCPRevisa
      <4>1. /\ pcp.en = "revisa" /\ pcp'.en \in {"elige", "pausa"}
            /\ pcp'.en = "elige" => cola["listos"] # <<>>
        BY <3>2 DEF PCPRevisa, SafaInv, SafaTypeOK, EnPCP
      <4> QED  BY <4>1, <2>1 DEF PCPConElPrimero
    <3>3. CASE PCPElige
      <4>1. ListaAPlanificar = cola["listos"]
        BY DEF ListaAPlanificar, LugarInv, ListasSinUso
      <4>2. /\ pcp.en = "elige" /\ cola["listos"] # <<>>
            /\ pcp' = [en |-> "busca", dtb |-> Head(cola["listos"])]
        BY <1>3, <3>3, <4>1 DEF PCPElige
      <4> QED  BY <4>2, <2>1 DEF PCPConElPrimero
    <3>4. CASE PCPBusca
      <4>1. /\ pcp.en = "busca" /\ cola["listos"] # <<>>
            /\ Head(cola["listos"]) = pcp.dtb
        BY <3>4 DEF PCPBusca, LugarInv, PCPConElPrimero
      <4>2. En(pcp.dtb, "listos")
        BY <4>1, CabezaEsta DEF SafaInv, SafaTypeOK, Colas
      <4>3. pcp' = [en |-> "despacha", dtb |-> pcp.dtb]
        BY <3>4, <4>2 DEF PCPBusca, LugarInv, ListasSinUso
      <4> QED  BY <4>1, <4>3, <2>1 DEF PCPConElPrimero
    <3> QED  BY <1>3, <3>1, <3>2, <3>3, <3>4
  <2>4. TablaCorta'
    BY <2>1, <2>3 DEF LugarInv, TablaCorta, En
  <2> QED
    BY <1>1, <2>1, <2>2, <2>3, <2>4, PCPQuieto
<1>4. CASE PCPDespacha /\ ~ Caer
  BY <1>4, PCPDespachaUbica
<1>5. CASE PCPQuita /\ ~ Caer
  BY <1>5, PCPQuitaUbica DEF PCPQuita, SafaInv, SafaTypeOK
<1>6. CASE PCPAgrega
  BY <1>6, PCPAgregaUbica DEF PCPAgrega, SafaInv, SafaTypeOK
<1> QED
  BY <1>2, <1>3, <1>4, <1>5, <1>6 DEF HiloPCP

(* crear_DTB: a new DTB, in "nuevos". *)
LEMMA EjecutarUbica ==
    ASSUME SafaInv, LugarInv, EjecutarEscriptorio, NEW i \in DTB, i = id
    PROVE  /\ LugarInv'
           /\ \A j \in DTB \ {i} : MismoLugar(j)
           /\ ~ Existe(i) /\ SoloEnCola(i, "nuevos")' /\ \A j \in DTB : MismoLugar(j) \/ j = i
<1>1. ColasOK(cola) /\ Ubicados /\ id \in 1 .. MaxDTB + 1
  BY DEF SafaInv, SafaTypeOK, LugarInv
<1>2. /\ id' = id + 1 /\ cola' = Agregar(cola, "nuevos", i)
      /\ UNCHANGED <<tabla, con, dtbConEqGrandeAbierto, com, plp, pcp, safaACpu>>
  BY DEF EjecutarEscriptorio, red, hilos
<1>3. "nuevos" \in Colas /\ "auxVirtualRR" \in Colas \ {"nuevos"}
      /\ "listos" \in Colas \ {"nuevos"}
  BY DEF Colas
<1>4. ~ Existe(i) /\ Nada(i)
  BY <1>1 DEF Existe, Ubicados
<1>5. i \notin ToSet(cola["nuevos"])
  BY <1>3, <1>4 DEF Nada, En
<1>6. /\ SinRepetidos(cola')
      /\ \A r \in Colas : \A j :
           j \in ToSet(cola'[r]) <=> j \in ToSet(cola[r]) \/ (r = "nuevos" /\ j = i)
      /\ \A r \in Colas \ {"nuevos"} : cola'[r] = cola[r]
  BY <1>1, <1>2, <1>3, <1>5, AgregarEn DEF Ubicados
<1>7. \A r \in Colas : \A j : En(j, r)' <=> En(j, r) \/ (r = "nuevos" /\ j = i)
  BY <1>6 DEF En
<1>8. \A j \in DTB \ {i} : MismoLugar(j)
  BY <1>2, <1>7 DEF MismoLugar, EnHiloCPU, EnPLPde, EnPCPde
<1>9. SoloEnCola(i, "nuevos")'
  <2>1. \A r \in Colas : En(i, r)' <=> r = "nuevos"
    BY <1>4, <1>7 DEF Nada
  <2>2. (\A d \in CPUS : ~ EnHiloCPU(i, d)') /\ ~ EnPLPde(i)' /\ ~ EnPCPde(i)'
    BY <1>2, <1>4 DEF Nada, EnHiloCPU, EnPLPde, EnPCPde
  <2> QED  BY <2>1, <2>2 DEF SoloEnCola
<1>10. Ubicados'
  <2>1. \A j \in DTB \ {i} : Existe(j)' <=> Existe(j)
    BY <1>1, <1>2, RedAssumption DEF Existe, DTB
  <2>2. Existe(i)'
    BY <1>1, <1>2, RedAssumption DEF Existe, DTB
  <2>3. \A j \in DTB \ {i} : (Solo(j) => Solo(j)') /\ (Nada(j) => Nada(j)')
    BY <1>8, SigueSolo
  <2>4. Solo(i)'
    BY <1>3, <1>9 DEF Solo
  <2>5. ASSUME NEW j \in DTB  PROVE (IF Existe(j) THEN Solo(j) ELSE Nada(j))'
    BY <1>1, <2>1, <2>2, <2>3, <2>4 DEF Ubicados
  <2> QED  BY <1>6, <2>5 DEF Ubicados
<1>11. /\ TablaCorta' /\ MensajeBienFormado' /\ PCPConElPrimero' /\ ListasSinUso'
       /\ con'.en = "lista"
  BY <1>2, <1>3, <1>6, <1>7
  DEF LugarInv, TablaCorta, MensajeBienFormado, PCPConElPrimero, ListasSinUso
<1> QED
  BY <1>4, <1>8, <1>9, <1>10, <1>11 DEF LugarInv

(* the operator, who does not finish scripts *)
LEMMA ConsolaUbica ==
    ASSUME SafaInv, LugarInv, Consola, "finalizar" \notin Comandos
    PROVE  LugarInv' /\ EjecutarEscriptorio
<1>1. EjecutarEscriptorio
  BY DEF Consola, FinalizarBusca, FinalizarEspera, FinalizarDTB, LugarInv
<1>2. id \in DTB
  BY <1>1, RedAssumption DEF EjecutarEscriptorio, SafaInv, SafaTypeOK, DTB
<1> QED
  BY <1>1, <1>2, EjecutarUbica

(* The CPUs and the DAM move no DTB of SAFA; a CPU only takes messages of    *)
(* those SAFA sent.                                                          *)
LEMMA OtrosNoMueven ==
    ASSUME SafaInv, LugarInv, UNCHANGED safa,
           \/ UNCHANGED safaACpu
           \/ \E c \in CPUS : Hay(safaACpu, c) /\ safaACpu' = Recibir(safaACpu, c)
    PROVE  LugarInv' /\ \A j \in DTB : MismoLugar(j)
<1>1. UNCHANGED <<cola, id, tabla, con, dtbConEqGrandeAbierto, com, plp, pcp>>
  BY DEF safa, datosDTB, hilos
<1>2. MensajeBienFormado'
  <2>1. CASE UNCHANGED safaACpu
    BY <2>1 DEF LugarInv, MensajeBienFormado
  <2>2. ASSUME NEW c \in CPUS, Hay(safaACpu, c), safaACpu' = Recibir(safaACpu, c)
        PROVE  MensajeBienFormado'
    <3>1. safaACpu \in [CPUS -> Seq(MensajeDTB)] /\ safaACpu[c] \in Seq(MensajeDTB)
      BY DEF SafaInv, RedTypeOK
    <3>2. safaACpu'[c] = Tail(safaACpu[c]) /\ \A d \in CPUS \ {c} : safaACpu'[d] = safaACpu[d]
      BY <2>2, <3>1 DEF Recibir
    <3>3. ASSUME NEW k \in DOMAIN safaACpu'[c]
          PROVE  k + 1 \in DOMAIN safaACpu[c] /\ safaACpu'[c][k] = safaACpu[c][k + 1]
      BY <2>2, <3>1, <3>2 DEF Hay
    <3>4. \A k \in DOMAIN safaACpu'[c] :
             Len(safaACpu'[c][k].archivos) = safaACpu'[c][k].cantidad
      BY <3>3 DEF LugarInv, MensajeBienFormado
    <3> QED
      BY <3>2, <3>4 DEF LugarInv, MensajeBienFormado
  <2> QED  BY <2>1, <2>2
<1> QED
  BY <1>1, <1>2, NadieSeMueve DEF EnPLPde, EnHiloCPU

-----------------------------------------------------------------------------
(* The inductive invariant of the places *)

LEMMA InvLugarPartes ==
    InvLugar <=> InvDummy /\ LugarInv
<1>1. SinRepetidos(cola) <=> \A q \in Colas : SinRepetir(cola[q])
  BY DEF SinRepetidos
<1>2. ASSUME InvDummy
      PROVE  (\A i \in DTB : IF Existe(i) THEN Solo(i) ELSE Nada(i)) <=>
                /\ \A i \in 1 .. id - 1 : EnUno(i)
                /\ \A i \in DTB : ~ Existe(i) => Ninguno(i)
  <2>1. \A i : i \in 1 .. id - 1 <=> i \in DTB /\ Existe(i)
    BY <1>2, RedAssumption DEF InvDummy, TypeOK, SafaTypeOK, DTB, Existe
  <2> QED  BY <2>1, SoloEsUno
<1> QED
  BY <1>1, <1>2 DEF InvLugar, LugarInv, Ubicados, EnUnSoloLugar, EnUno

LEMMA InvLugarInit ==
    Init => InvLugar
<1> SUFFICES ASSUME Init PROVE LugarInv
  BY InvDummyInit, InvLugarPartes
<1>1. /\ cola = [q \in Colas |-> <<>>] /\ id = 1 /\ tabla = [i \in DTB |-> <<>>]
      /\ dtbConEqGrandeAbierto = <<>>
      /\ com = [c \in CPUS |-> [en |-> "fuera", dtb |-> NULO]]
      /\ plp.en = "pausa" /\ pcp.en = "pausa" /\ con.en = "lista"
      /\ safaACpu = [c \in CPUS |-> <<>>]
  BY DEF Init, SafaInit, RedInit
<1>2. Ubicados
  <2>1. SinRepetidos(cola)
    BY <1>1 DEF SinRepetidos, SinRepetir
  <2>2. \A i \in DTB : ~ Existe(i)
    BY <1>1 DEF Existe
  <2>3. \A i \in DTB : Nada(i)
    BY <1>1 DEF Nada, En, ToSet, EnHiloCPU, EnPLPde, EnPCPde
  <2> QED  BY <2>1, <2>2, <2>3 DEF Ubicados
<1>3. PCPConElPrimero /\ ListasSinUso /\ TablaCorta /\ MensajeBienFormado
  BY <1>1 DEF PCPConElPrimero, ListasSinUso, TablaCorta, MensajeBienFormado, Colas
<1> QED  BY <1>1, <1>2, <1>3 DEF LugarInv

(* A step of the system keeps every DTB in its place. *)
LEMMA LugarInvNext ==
    ASSUME SafaInv, LugarInv, [Next]_vars,
           ALGORITMO # "VRR", "finalizar" \notin Comandos
    PROVE  LugarInv'
<1>1. CASE PasoSafa
  BY <1>1, ConexionNoMueve, ConsolaUbica, HiloDMAUbica, HiloPLPUbica, HiloPCPUbica,
     HiloCPUUbica DEF PasoSafa
<1>2. ASSUME NEW c \in CPUS, PasoCPU(c), UNCHANGED safa  PROVE LugarInv'
  <2>1. \/ UNCHANGED safaACpu
        \/ Hay(safaACpu, c) /\ safaACpu' = Recibir(safaACpu, c)
    BY <1>2 DEF PasoCPU, RecibirDTB, DesalojarDummy, DesalojarDTB
  <2> QED  BY <1>2, <2>1, OtrosNoMueven
<1>3. ASSUME NEW c \in CPUS, SentenciaCPU(c), UNCHANGED safa  PROVE LugarInv'
  <2>1. UNCHANGED safaACpu
    BY <1>3 DEF SentenciaCPU, Concentrar, AbortarSentencia, RetenerRecurso, LiberarRecurso,
                EsperarAFM9, Abrir, Crear, Borrar, red
  <2> QED  BY <1>3, <2>1, OtrosNoMueven
<1>4. CASE PasoDAM /\ UNCHANGED safa
  <2>1. UNCHANGED safaACpu
    BY <1>4 DEF PasoDAM, CargarEnFM9, InformarASafa, Atiende, OperacionAbrirPath,
                OperacionCrearArchivo, OperacionIncompleta, red
  <2> QED  BY <1>4, <2>1, OtrosNoMueven
<1>5. CASE UNCHANGED vars
  <2>1. UNCHANGED safa /\ UNCHANGED safaACpu
    BY <1>5 DEF vars, red
  <2> QED  BY <2>1, OtrosNoMueven
<1> QED
  BY <1>1, <1>2, <1>3, <1>4, <1>5 DEF Next

LEMMA InvLugarNext ==
    ASSUME ALGORITMO # "VRR", "finalizar" \notin Comandos
    PROVE  InvLugar /\ [Next]_vars => InvLugar'
<1> SUFFICES ASSUME InvLugar, [Next]_vars PROVE InvLugar'
  OBVIOUS
<1>1. InvDummy /\ LugarInv /\ SafaInv
  BY InvLugarPartes DEF InvDummy, TypeOK, SafaInv
<1>2. InvDummy' /\ LugarInv'
  BY <1>1, InvDummyNext, LugarInvNext
<1>3. (InvLugar <=> InvDummy /\ LugarInv)'
  BY InvLugarPartes, PTL
<1> QED  BY <1>2, <1>3

(* Every DTB is where one thread of SAFA, and only one, will find it, as      *)
(* long as the operator does not finish scripts and the algorithm is not VRR. *)
THEOREM InvarianteDelLugar ==
    ASSUME ALGORITMO # "VRR", "finalizar" \notin Comandos
    PROVE  Spec => []InvLugar
<1> QED
  BY InvLugarInit, InvLugarNext, PTL DEF Spec

(* Every DTB the operator submitted is in exactly one place: although the     *)
(* threads take it out of a list and put it in another with nothing locked in *)
(* between (funcionesSafa.c:422-436, 1135-1140).                              *)
THEOREM CadaDTBEnUnLugar ==
    ASSUME ALGORITMO # "VRR", "finalizar" \notin Comandos
    PROVE  Spec => []EnUnSoloLugar
<1>1. InvLugar => EnUnSoloLugar
  BY DEF InvLugar
<1> QED
  BY <1>1, InvarianteDelLugar, PTL

(* planificar reads the head of "listos", sends it and then removes the head  *)
(* (funcionesSafa.c:1135): it is the same DTB.                                *)
THEOREM SeQuitaElDespachado ==
    ASSUME ALGORITMO # "VRR", "finalizar" \notin Comandos
    PROVE  Spec => []QuitaElDespachado
<1>1. InvLugar => QuitaElDespachado
  BY DEF InvLugar, PCPConElPrimero, QuitaElDespachado
<1> QED
  BY <1>1, InvarianteDelLugar, PTL

(* A DTB message carries the files it announces, although                     *)
(* prot_enviar_SAFA_CPU_DTB empties the list it is going through.             *)
THEOREM MensajesBienFormados ==
    ASSUME ALGORITMO # "VRR", "finalizar" \notin Comandos
    PROVE  Spec => []MensajeBienFormado
<1>1. InvLugar => MensajeBienFormado
  BY DEF InvLugar
<1> QED
  BY <1>1, InvarianteDelLugar, PTL

(* Two threads that serve CPUs never write hayDummy at once, nor one of them  *)
(* and the PLP (funcionesSafa.c:428, 1040): there is one dummy, and it is in  *)
(* the hands of one thread.                                                   *)
THEOREM ContadorNoCorre ==
    ASSUME ALGORITMO # "VRR", "finalizar" \notin Comandos
    PROVE  Spec => []ContadorSinCarrera
<1>1. InvLugar => \A c, d \in CPUS : EscribeHayDummy(c) /\ EscribeHayDummy(d) => c = d
  <2> SUFFICES ASSUME InvLugar, NEW c \in CPUS, NEW d \in CPUS,
                      EscribeHayDummy(c), EscribeHayDummy(d)
               PROVE  c = d
    OBVIOUS
  <2>1. com[c].dtb \in DTB /\ com[d].dtb \in DTB
    BY DEF InvLugar, InvDummy, TypeOK, SafaTypeOK, ComOK, EscribeHayDummy
  <2>2. com[c].dtb = com[d].dtb
    BY <2>1 DEF InvLugar, InvDummy, DummyUnico, Dummies, EscribeHayDummy
  <2>3. EnHiloCPU(com[c].dtb, c) /\ EnHiloCPU(com[c].dtb, d)
    BY <2>2 DEF EnHiloCPU, EscribeHayDummy
  <2>4. SoloEnHilo(com[c].dtb, c)
    BY <2>1, <2>3, InvLugarPartes, EstaSolo DEF LugarInv
  <2> QED  BY <2>3, <2>4 DEF SoloEnHilo
<1>2. InvLugar /\ PLPSinCarrera => ContadorSinCarrera
  BY <1>1 DEF ContadorSinCarrera
<1> QED
  BY <1>2, InvarianteDelLugar, PLPNoCorre, PTL

-----------------------------------------------------------------------------
(* One turn at a time.  A CPU whose turn is one sentence is free again after  *)
(* it, and what a step does to one CPU says nothing of the others.            *)

(* UnaVuelta, UnPedido and BanderaAlDia, of one CPU *)
VueltaDe(c) ==
    /\ Len(safaACpu[c]) <= 1 /\ Len(cpuASafa[c]) <= 1
    /\ c \in ToSet(cpu_libres) =>
         ~ Hay(safaACpu, c) /\ ~ Corre(c) /\ ~ Hay(cpuASafa, c) /\ ~ Ocupado(c)
    /\ Hay(safaACpu, c) => ~ Corre(c) /\ ~ Hay(cpuASafa, c) /\ ~ Ocupado(c)
    /\ Corre(c) => ~ Hay(cpuASafa, c) /\ ~ Ocupado(c)
    /\ Hay(cpuASafa, c) => ~ Ocupado(c)

PedidoDe(c) ==
    /\ Len(cpuADam[c]) <= 1 /\ Len(damACpu[c]) <= 1
    /\ Hay(damACpu, c) => EsperaAlDAM(c)
    /\ Hay(cpuADam, c) => /\ EsperaAlDAM(c)
                          /\ ~ Hay(damACpu, c)
                          /\ Head(cpuADam[c]).id = cpu[c].dtb

BanderaDe(c) ==
    /\ \A k \in DOMAIN safaACpu[c] : safaACpu[c][k].ini = iniGDT[safaACpu[c][k].id]
    /\ cpu[c].en \in {"lee", "esperaDAM"} => iniGDT[cpu[c].dtb] = 1
    /\ com[c].en \in {"bloquea", "termina"} /\ com[c].dtb # NULO =>
         iniGDT[com[c].dtb] = 1
    /\ \A k \in DOMAIN cpuASafa[c] :
         cpuASafa[c][k].tipo # "BloquearDTB" => iniGDT[cpuASafa[c][k].id] = 1

(* a DTB that is not in its first turn, nor waiting for it *)
EnReposo(i) == \/ ~ Existe(i)
               \/ \E q \in {"nuevos", "bloqueados", "terminados"} : En(i, q)

(* where SAFA has the DTB of a turn of CPU c *)
EnManos(i, c) == EnHiloCPU(i, c) \/ En(i, "ejecutando") \/ Saliendo(i)

LEMMA TurnoPartes ==
    /\ UnaVuelta <=> \A c \in CPUS : VueltaDe(c)
    /\ UnPedido <=> \A c \in CPUS : PedidoDe(c)
    /\ BanderaAlDia <=> /\ \A c \in CPUS : BanderaDe(c)
                        /\ \A i \in DTB : EnReposo(i) => iniGDT[i] = 1
    /\ UnTurno <=> \A i \in DTB : \A c \in CPUS : Lleva(c, i) =>
                      (\A d \in CPUS : Lleva(d, i) => c = d) /\ EnManos(i, c)
<1>1. UnaVuelta <=> \A c \in CPUS : VueltaDe(c)
  BY DEF UnaVuelta, VueltaDe
<1>2. UnPedido <=> \A c \in CPUS : PedidoDe(c)
  BY DEF UnPedido, PedidoDe
<1>3. BanderaAlDia <=> /\ \A c \in CPUS : BanderaDe(c)
                       /\ \A i \in DTB : EnReposo(i) => iniGDT[i] = 1
  BY DEF BanderaAlDia, BanderaDe, EnReposo
<1>4. UnTurno <=> \A i \in DTB : \A c \in CPUS : Lleva(c, i) =>
                     (\A d \in CPUS : Lleva(d, i) => c = d) /\ EnManos(i, c)
  BY DEF UnTurno, EnManos
<1> QED  BY <1>1, <1>2, <1>3, <1>4

(* the step does not touch CPU d, nor what goes to it or comes from it *)
MismaCPU(d) == /\ safaACpu'[d] = safaACpu[d] /\ cpuASafa'[d] = cpuASafa[d]
               /\ cpuADam'[d] = cpuADam[d] /\ damACpu'[d] = damACpu[d]
               /\ cpu'[d] = cpu[d] /\ com'[d] = com[d]
               /\ d \in ToSet(cpu_libres') <=> d \in ToSet(cpu_libres)

LEMMA OtraCPU ==
    ASSUME NEW d, MismaCPU(d)
    PROVE  /\ VueltaDe(d) => VueltaDe(d)'
           /\ PedidoDe(d) => PedidoDe(d)'
           /\ UNCHANGED iniGDT /\ BanderaDe(d) => BanderaDe(d)'
           /\ \A i : /\ Lleva(d, i)' <=> Lleva(d, i)
                     /\ Trae(cpuADam, d, i)' <=> Trae(cpuADam, d, i)
                     /\ PorBloquearEn(d, i)' <=> PorBloquearEn(d, i)
<1>1. VueltaDe(d) => VueltaDe(d)'
  BY DEF MismaCPU, VueltaDe, Hay, Corre, Ocupado
<1>2. PedidoDe(d) => PedidoDe(d)'
  BY DEF MismaCPU, PedidoDe, Hay, EsperaAlDAM
<1>3. UNCHANGED iniGDT /\ BanderaDe(d) => BanderaDe(d)'
  BY DEF MismaCPU, BanderaDe
<1>4. \A i : Lleva(d, i)' <=> Lleva(d, i)
  BY DEF MismaCPU, Lleva, Trae, Corre, EnHiloCPU
<1>5. \A i : Trae(cpuADam, d, i)' <=> Trae(cpuADam, d, i)
  BY DEF MismaCPU, Trae
<1>6. \A i : PorBloquearEn(d, i)' <=> PorBloquearEn(d, i)
  BY DEF MismaCPU, PorBloquearEn
<1> QED  BY <1>1, <1>2, <1>3, <1>4, <1>5, <1>6

(* the step takes CPU d from a stage of its turn to the next, or ends it *)
Avanza(d) ==
    /\ VueltaDe(d)' /\ PedidoDe(d)' /\ BanderaDe(d)'
    /\ \A i \in DTB :
         /\ Lleva(d, i)' => Lleva(d, i)
         /\ Trae(cpuADam, d, i)' => Trae(cpuADam, d, i)
         /\ PorBloquearEn(d, i) => PorBloquearEn(d, i)' \/ En(i, "bloqueados")'

LEMMA PasanTodas ==
    ASSUME UnTurnoPorVez, UNCHANGED <<iniGDT, damASafa>>,
           \A d \in CPUS : MismaCPU(d) \/ Avanza(d),
           LibresDistintas',
           \A i \in DTB : \A d \in CPUS : Lleva(d, i)' /\ EnManos(i, d) => EnManos(i, d)',
           \A i \in DTB : EnElDAM(i)' => EnElDAM(i),
           \A i \in DTB : En(i, "bloqueados") => En(i, "bloqueados")',
           \A i \in DTB : EnReposo(i)' => EnReposo(i) \/ iniGDT[i] = 1
    PROVE  UnTurnoPorVez'
<1>1. \A d \in CPUS : VueltaDe(d)' /\ PedidoDe(d)' /\ BanderaDe(d)'
  BY OtraCPU, TurnoPartes DEF UnTurnoPorVez, Avanza
<1>2. \A d \in CPUS : \A i \in DTB :
        /\ Lleva(d, i)' => Lleva(d, i)
        /\ Trae(cpuADam, d, i)' => Trae(cpuADam, d, i)
        /\ PorBloquearEn(d, i) => PorBloquearEn(d, i)' \/ En(i, "bloqueados")'
  BY OtraCPU DEF Avanza
<1>3. UnaVuelta' /\ UnPedido'
  BY <1>1 DEF UnaVuelta, VueltaDe, UnPedido, PedidoDe
<1>4. \A i \in DTB : EnReposo(i)' => iniGDT'[i] = 1
  BY TurnoPartes DEF UnTurnoPorVez
<1>5. BanderaAlDia'
  BY <1>1, <1>4 DEF BanderaAlDia, BanderaDe, EnReposo
<1>6. ASSUME NEW i \in DTB, NEW c \in CPUS, Lleva(c, i)'
      PROVE  (\A d \in CPUS : Lleva(d, i)' => c = d) /\ EnManos(i, c)'
  BY <1>2, <1>6, TurnoPartes DEF UnTurnoPorVez
<1>7. UnTurno'
  BY <1>6 DEF UnTurno, EnManos
<1>8. UnaRespuesta'
  <2>1. \A i \in DTB : Respondido(i)' <=> Respondido(i)
    BY DEF Respondido
  <2>2. \A i \in DTB : Pendiente(i)' => Pendiente(i)
    BY <1>2 DEF Pendiente
  <2>3. \A i \in DTB : PorBloquear(i) => PorBloquear(i)' \/ En(i, "bloqueados")'
    BY <1>2 DEF PorBloquear
  <2> QED
    BY <2>1, <2>2, <2>3 DEF UnTurnoPorVez, UnaRespuesta
<1> QED
  BY <1>3, <1>5, <1>7, <1>8 DEF UnTurnoPorVez

(* A DTB in a turn is nowhere where the schedulers or the DAM look for it. *)
LEMMA ConTurno ==
    ASSUME SafaInv, LugarInv, NEW i \in DTB, NEW c, c \in CPUS, EnManos(i, c)
    PROVE  /\ Existe(i) /\ ~ EnPLPde(i)
           /\ \A q \in Colas \ {"ejecutando", "listos"} : ~ En(i, q)
           /\ En(i, "listos") => pcp.en = "quita" /\ pcp.dtb = i
<1>1. Ubicados /\ "ejecutando" \in Colas /\ "listos" \in Colas
  BY DEF LugarInv, Colas
<1>2. CASE EnHiloCPU(i, c)
  BY <1>1, <1>2, EstaSolo DEF SoloEnHilo
<1>3. CASE En(i, "ejecutando")
  BY <1>1, <1>3, EstaSolo DEF SoloEnCola
<1>4. CASE Saliendo(i) /\ pcp.en = "quita"
  <2>1. cola["listos"] # <<>> /\ Head(cola["listos"]) = i
    BY <1>4 DEF LugarInv, PCPConElPrimero, Saliendo
  <2>2. En(i, "listos")
    BY <1>1, <2>1, CabezaEsta DEF SafaInv, SafaTypeOK
  <2>3. SoloEnCola(i, "listos") /\ Existe(i)
    BY <1>1, <2>2, EstaSolo
  <2> QED
    BY <1>1, <1>4, <2>3 DEF SoloEnCola, Saliendo
<1>5. CASE EnPCPde(i)
  BY <1>1, <1>5, EstaSolo DEF SoloEnPCP
<1> QED
  BY <1>2, <1>3, <1>4, <1>5 DEF EnManos, Saliendo, EnPCPde

(* SAFA keeps having the DTB of a turn. *)
LEMMA ManosSiguen ==
    ASSUME NEW i, MismoLugar(i), Saliendo(i) => Saliendo(i)'
    PROVE  \A d \in CPUS : EnManos(i, d) => EnManos(i, d)'
  BY DEF EnManos, MismoLugar, Colas

LEMMA ReposoSigue ==
    ASSUME UNCHANGED id, NEW i, MismoLugar(i)
    PROVE  /\ EnReposo(i)' <=> EnReposo(i)
           /\ En(i, "bloqueados") => En(i, "bloqueados")'
<1>1. {"nuevos", "bloqueados", "terminados"} \subseteq Colas
  BY DEF Colas
<1> QED
  BY <1>1 DEF EnReposo, MismoLugar, Existe

-----------------------------------------------------------------------------
(* Connections with one message *)

LEMMA ListaDeUno ==
    ASSUME NEW S, NEW s \in Seq(S), s # <<>>, Len(s) <= 1
    PROVE  /\ s = <<Head(s)>> /\ DOMAIN s = {1} /\ s[1] = Head(s) /\ Head(s) \in S
           /\ Tail(s) = <<>>
<1>1. Len(s) = 1 /\ s[1] \in S /\ Head(s) = s[1]
  OBVIOUS
<1>2. DOMAIN s = {1}
  BY <1>1
<1>3. s = <<s[1]>>
  BY <1>1
<1>4. Tail(s) = <<>>
  <2>1. Tail(s) \in Seq(S) /\ Len(Tail(s)) = 0
    BY <1>1
  <2> QED  BY <2>1, EmptySeq
<1> QED  BY <1>1, <1>2, <1>3, <1>4

LEMMA RecibeUno ==
    ASSUME NEW S, NEW f \in [CPUS -> Seq(S)], NEW c \in CPUS, Hay(f, c), Len(f[c]) <= 1,
           NEW g, g = Recibir(f, c)
    PROVE  /\ f[c] = <<Head(f[c])>> /\ DOMAIN f[c] = {1} /\ f[c][1] = Head(f[c])
           /\ Head(f[c]) \in S
           /\ g[c] = <<>> /\ DOMAIN g[c] = {} /\ Len(g[c]) = 0
           /\ \A d \in CPUS \ {c} : g[d] = f[d]
<1>1. f[c] \in Seq(S) /\ f[c] # <<>>
  BY DEF Hay
<1>2. /\ f[c] = <<Head(f[c])>> /\ DOMAIN f[c] = {1} /\ f[c][1] = Head(f[c])
      /\ Head(f[c]) \in S /\ Tail(f[c]) = <<>>
  BY <1>1, ListaDeUno
<1>3. g[c] = Tail(f[c]) /\ \A d \in CPUS \ {c} : g[d] = f[d]
  BY DEF Recibir
<1>4. g[c] = <<>>
  BY <1>2, <1>3
<1>5. DOMAIN <<>> = {} /\ Len(<<>>) = 0
  OBVIOUS
<1> QED
  BY <1>2, <1>3, <1>4, <1>5

LEMMA EnviaUno ==
    ASSUME NEW S, NEW f \in [CPUS -> Seq(S)], NEW c \in CPUS, ~ Hay(f, c), NEW m,
           NEW g, g = Enviar(f, c, m)
    PROVE  /\ f[c] = <<>> /\ DOMAIN f[c] = {}
           /\ g[c] = <<m>> /\ DOMAIN g[c] = {1} /\ g[c][1] = m /\ Head(g[c]) = m
           /\ Len(g[c]) = 1 /\ g[c] # <<>>
           /\ \A d \in CPUS \ {c} : g[d] = f[d]
<1>1. f[c] = <<>>
  BY DEF Hay
<1>2. g[c] = Append(<<>>, m) /\ \A d \in CPUS \ {c} : g[d] = f[d]
  BY <1>1 DEF Enviar
<1>3. Append(<<>>, m) = <<m>> /\ DOMAIN <<m>> = {1} /\ <<m>>[1] = m /\ Head(<<m>>) = m
      /\ Len(<<m>>) = 1 /\ <<m>> # <<>>
  OBVIOUS
<1> QED
  BY <1>1, <1>2, <1>3

(* Every message on its way is about a DTB. *)
LEMMA MensajesConDTB ==
    ASSUME RedTypeOK, NEW d \in CPUS
    PROVE  /\ \A k \in DOMAIN safaACpu[d] : safaACpu[d][k].id \in DTB
           /\ \A k \in DOMAIN cpuASafa[d] : cpuASafa[d][k].id \in DTB
           /\ \A k \in DOMAIN cpuADam[d] : cpuADam[d][k].id \in DTB
<1>1. ASSUME NEW S, NEW s \in Seq(S), NEW k \in DOMAIN s  PROVE s[k] \in S
  BY <1>1
<1>2. /\ safaACpu[d] \in Seq(MensajeDTB) /\ cpuASafa[d] \in Seq(MensajeCPU)
      /\ cpuADam[d] \in Seq(PedidoDAM)
  BY DEF RedTypeOK
<1>3. /\ \A k \in DOMAIN safaACpu[d] : safaACpu[d][k] \in MensajeDTB
      /\ \A k \in DOMAIN cpuASafa[d] : cpuASafa[d][k] \in MensajeCPU
      /\ \A k \in DOMAIN cpuADam[d] : cpuADam[d][k] \in PedidoDAM
  BY <1>1, <1>2
<1> QED
  BY <1>3 DEF MensajeDTB, MensajeCPU, PedidoDAM

LEMMA ConQuantumUno ==
    ASSUME CpuTypeOK, QUANTUM = 1, NEW c \in CPUS, cpu[c].en \in {"lee", "esperaDAM"},
           Sigue(c)
    PROVE  cpu' = [cpu EXCEPT ![c] = Libre]
<1>1. cpu[c].resto \in 0 .. 1 /\ cpu[c].resto >= 1
  BY DEF CpuTypeOK, EstadoCPU
<1> QED
  BY <1>1 DEF Sigue

-----------------------------------------------------------------------------
(* The schedulers and the operator *)

EnMarcha == /\ SafaInv /\ CpuTypeOK /\ DamTypeOK
            /\ LugarInv
            /\ UnTurnoPorVez

(* A step of SAFA that no CPU sees. *)
LEMMA CPUsQuietas ==
    ASSUME UnTurnoPorVez, UNCHANGED <<red, cpu, com, cpu_libres, iniGDT, dam>>,
           \A i \in DTB : \A d \in CPUS : EnManos(i, d) => EnManos(i, d)',
           \A i \in DTB : En(i, "bloqueados") => En(i, "bloqueados")',
           \A i \in DTB : EnReposo(i)' => EnReposo(i) \/ iniGDT[i] = 1
    PROVE  UnTurnoPorVez'
<1>1. UNCHANGED <<safaACpu, cpuASafa, cpuADam, damACpu, damASafa>>
  BY DEF red
<1>2. \A d \in CPUS : MismaCPU(d)
  BY <1>1 DEF MismaCPU
<1>3. LibresDistintas'
  BY DEF UnTurnoPorVez, LibresDistintas
<1>4. \A i \in DTB : EnElDAM(i)' => EnElDAM(i)
  BY DEF EnElDAM
<1> QED
  BY <1>1, <1>2, <1>3, <1>4, PasanTodas

(* the long-term scheduler: the DTB it makes the dummy is in no turn *)
LEMMA HiloPLPTurno ==
    ASSUME EnMarcha, HiloPLP, ~ Caer, UNCHANGED <<cpu, dam>>
    PROVE  UnTurnoPorVez'
<1>1. /\ SafaInv /\ LugarInv /\ UnTurnoPorVez
      /\ UNCHANGED <<red, com, cpu_libres, pcp, id>>
  BY DEF EnMarcha, HiloPLP, PLPDespierta, PLPGrado, PLPDecide, PLPToma, PLPAgrega, cpus, datosDTB
<1>2. \A i : Saliendo(i) => Saliendo(i)'
  BY <1>1 DEF Saliendo
<1>3. "nuevos" \in Colas /\ "listos" \in Colas /\ "bloqueados" \in Colas
      /\ "terminados" \in Colas
  BY DEF Colas
<1>4. CASE PLPDespierta \/ PLPGrado \/ PLPDecide
  <2>1. /\ UNCHANGED <<cola, iniGDT>> /\ plp.en # "agrega" /\ plp'.en # "agrega"
    BY <1>4 DEF PLPDespierta, PLPGrado, PLPDecide, datosDTB, EnMarcha, SafaInv, SafaTypeOK,
                EnPLP
  <2>2. \A i : MismoLugar(i)
    BY <1>1, <2>1 DEF MismoLugar, En, EnHiloCPU, EnPLPde, EnPCPde
  <2> QED
    BY <1>1, <1>2, <2>1, <2>2, ManosSiguen, ReposoSigue, CPUsQuietas
<1>5. CASE PLPAgrega
  <2>1. PICK i \in DTB : i = plp.dtb /\ UNCHANGED iniGDT
    BY <1>1, <1>5 DEF PLPAgrega, SafaInv, SafaTypeOK, datosDTB
  <2>2. /\ \A j \in DTB \ {i} : MismoLugar(j)
        /\ SoloEnPLP(i) /\ SoloEnCola(i, "listos")'
    BY <1>1, <1>5, <2>1, PLPAgregaUbica
  <2>3. \A d \in CPUS : ~ EnManos(i, d)
    BY <1>1, <2>1, <2>2, ConTurno DEF SoloEnPLP
  <2>4. ~ En(i, "bloqueados") /\ (EnReposo(i)' => EnReposo(i))
    BY <1>1, <1>3, <2>2 DEF SoloEnPLP, SoloEnCola, EnReposo, Existe
  <2> QED
    BY <1>1, <1>2, <2>1, <2>2, <2>3, <2>4, ManosSiguen, ReposoSigue, CPUsQuietas
<1>6. CASE PLPToma
  <2>1. PICK i \in DTB : /\ cola["nuevos"] # <<>> /\ i = Head(cola["nuevos"])
                         /\ iniGDT' = [iniGDT EXCEPT ![i] = 0]
    <3>1. cola["nuevos"] # <<>>
      BY <1>6 DEF PLPToma
    <3>2. Head(cola["nuevos"]) \in DTB
      BY <1>1, <1>3, <3>1, CabezaOK DEF SafaInv, SafaTypeOK
    <3>3. iniGDT' = [iniGDT EXCEPT ![Head(cola["nuevos"])] = 0]
      BY <1>6 DEF PLPToma
    <3> QED  BY <3>1, <3>2, <3>3
  <2>2. /\ \A j \in DTB \ {i} : MismoLugar(j)
        /\ SoloEnCola(i, "nuevos") /\ SoloEnPLP(i)'
    BY <1>1, <1>6, <2>1, PLPTomaUbica
  <2>3. \A d \in CPUS : ~ EnManos(i, d)
    BY <1>1, <1>3, <2>2, ConTurno DEF SoloEnCola
  <2>4. \A d \in CPUS : ~ Lleva(d, i)
    BY <1>1, <2>3, TurnoPartes DEF UnTurnoPorVez
  <2>5. /\ iniGDT \in [DTB -> {0, 1}] /\ iniGDT'[i] = 0
        /\ \A j \in DTB \ {i} : iniGDT'[j] = iniGDT[j]
    BY <1>1, <2>1 DEF SafaInv, SafaTypeOK
  <2>6. UNCHANGED <<safaACpu, cpuASafa, cpuADam, damACpu, damASafa>>
    BY <1>1 DEF red
  <2>7. UnaVuelta' /\ UnPedido' /\ LibresDistintas'
    BY <1>1, <2>6 DEF UnTurnoPorVez, UnaVuelta, UnPedido, LibresDistintas, Hay, Corre, Ocupado,
                      EsperaAlDAM
  <2>8. UnTurno'
    <3>1. \A j \in DTB : \A d \in CPUS : Lleva(d, j)' <=> Lleva(d, j)
      BY <1>1, <2>6 DEF Lleva, Trae, Corre, EnHiloCPU
    <3>2. \A j \in DTB \ {i} : \A d \in CPUS : EnManos(j, d) => EnManos(j, d)'
      BY <1>2, <2>2, ManosSiguen
    <3> QED
      BY <1>1, <2>4, <3>1, <3>2, TurnoPartes DEF UnTurnoPorVez, UnTurno, EnManos
  <2>9. UnaRespuesta'
    <3>1. ~ En(i, "bloqueados")
      BY <1>3, <2>2 DEF SoloEnCola
    <3>2. \A j \in DTB : En(j, "bloqueados") => En(j, "bloqueados")'
      BY <1>3, <2>2, <3>1 DEF MismoLugar
    <3>3. \A j \in DTB : PorBloquear(j)' <=> PorBloquear(j)
      BY <1>1, <2>6 DEF PorBloquear, PorBloquearEn
    <3> QED
      BY <1>1, <2>6, <3>2, <3>3 DEF UnTurnoPorVez, UnaRespuesta, EnElDAM, Respondido, Pendiente,
                                   Trae
  <2>10. BanderaAlDia'
    <3>1. ASSUME NEW d \in CPUS  PROVE BanderaDe(d)'
      <4>1. BanderaDe(d)
        BY <1>1, TurnoPartes DEF UnTurnoPorVez
      <4>2. \A k \in DOMAIN safaACpu[d] : safaACpu[d][k].id \in DTB \ {i}
        BY <1>1, <2>4, MensajesConDTB DEF Lleva, Trae, SafaInv
      <4>3. cpu[d].en \in {"lee", "esperaDAM"} => cpu[d].dtb \in DTB \ {i}
        BY <2>4 DEF Lleva, Corre, EnMarcha, CpuTypeOK
      <4>4. com[d].en \in {"bloquea", "termina"} /\ com[d].dtb # NULO =>
               com[d].dtb \in DTB \ {i}
        BY <1>1, <2>4 DEF Lleva, EnHiloCPU, SafaInv, SafaTypeOK, ComOK, EnHilo
      <4>5. \A k \in DOMAIN cpuASafa[d] : cpuASafa[d][k].id \in DTB \ {i}
        BY <1>1, <2>4, MensajesConDTB DEF Lleva, Trae, SafaInv
      <4> QED
        BY <1>1, <2>5, <2>6, <4>1, <4>2, <4>3, <4>4, <4>5 DEF BanderaDe
    <3>2. ASSUME NEW j \in DTB, EnReposo(j)'  PROVE iniGDT'[j] = 1
      <4>1. j # i
        BY <1>1, <1>3, <2>2, <3>2 DEF SoloEnPLP, SoloEnCola, EnReposo, Existe, LugarInv,
                                    Ubicados, Nada
      <4>2. EnReposo(j)
        BY <1>1, <2>2, <3>2, <4>1, ReposoSigue
      <4> QED
        BY <1>1, <2>5, <4>1, <4>2, TurnoPartes DEF UnTurnoPorVez
    <3> QED  BY <3>1, <3>2 DEF BanderaAlDia, BanderaDe, EnReposo
  <2> QED  BY <2>7, <2>8, <2>9, <2>10 DEF UnTurnoPorVez
<1> QED
  BY <1>4, <1>5, <1>6 DEF HiloPLP

(* planificar: the first free CPU has nothing pending, and the DTB that goes  *)
(* to it is in no turn                                                        *)
LEMMA PCPDespachaTurno ==
    ASSUME EnMarcha, PCPDespacha, ~ Caer, UNCHANGED <<cpu, dam>>
    PROVE  UnTurnoPorVez'
<1>1. SafaInv /\ LugarInv /\ UnTurnoPorVez /\ "listos" \in Colas
  BY DEF EnMarcha, Colas
<1>2. PICK i \in DTB : /\ i = pcp.dtb /\ pcp.en = "despacha" /\ En(i, "listos")
  <2>1. pcp.en = "despacha" /\ cola["listos"] # <<>> /\ Head(cola["listos"]) = pcp.dtb
    BY <1>1 DEF PCPDespacha, LugarInv, PCPConElPrimero
  <2>2. pcp.dtb \in DTB /\ En(pcp.dtb, "listos")
    BY <1>1, <2>1, CabezaOK, CabezaEsta DEF SafaInv, SafaTypeOK, Colas
  <2> QED  BY <2>1, <2>2
<1>3. PICK c \in CPUS : c = Head(cpu_libres)
  BY <1>1, <1>2 DEF SafaInv, SafaTypeOK, DespachaConCPU
<1> DEFINE m == [id |-> i, ini |-> iniGDT[i], cantidad |-> Len(tabla[i]),
                 archivos |-> SubSeq(tabla[i], 1, Enviados(Len(tabla[i])))]
<1>4. /\ cpu_libres' = Tail(cpu_libres)
      /\ safaACpu' = Enviar(safaACpu, c, m)
      /\ pcp' = [pcp EXCEPT !.en = "quita"]
      /\ UNCHANGED <<id, iniGDT, cola, com, plp, cpuASafa, cpuADam, damACpu, damASafa>>
  BY <1>2, <1>3 DEF PCPDespacha
<1>5. /\ m.id = i /\ m.ini = iniGDT[i]
  OBVIOUS
<1> HIDE DEF m
<1>6. pcp'.en = "quita" /\ pcp'.dtb = i
  BY <1>1, <1>2, <1>4 DEF SafaInv, SafaTypeOK, EnPCP
<1>7. /\ c \in ToSet(cpu_libres) /\ c \notin ToSet(cpu_libres')
      /\ \A d \in CPUS \ {c} : d \in ToSet(cpu_libres') <=> d \in ToSet(cpu_libres)
      /\ LibresDistintas'
  <2>1. /\ cpu_libres \in Seq(CPUS) /\ cpu_libres # <<>> /\ Len(cpu_libres) \in Nat
        /\ DOMAIN cpu_libres = 1 .. Len(cpu_libres)
        /\ DOMAIN cpu_libres' = 1 .. Len(cpu_libres) - 1
        /\ 1 \in DOMAIN cpu_libres /\ cpu_libres[1] = c
        /\ \A k \in DOMAIN cpu_libres' : cpu_libres'[k] = cpu_libres[k + 1]
    BY <1>1, <1>2, <1>3, <1>4 DEF SafaInv, SafaTypeOK, DespachaConCPU
  <2>2. \A k \in DOMAIN cpu_libres : cpu_libres[k] = c => k = 1
    BY <1>1, <2>1 DEF UnTurnoPorVez, LibresDistintas
  <2>3. c \in ToSet(cpu_libres) /\ c \notin ToSet(cpu_libres')
    BY <2>1, <2>2 DEF ToSet
  <2>4. ASSUME NEW d \in CPUS \ {c}  PROVE d \in ToSet(cpu_libres') <=> d \in ToSet(cpu_libres)
    <3>1. ASSUME NEW k \in DOMAIN cpu_libres', cpu_libres'[k] = d
          PROVE  k + 1 \in DOMAIN cpu_libres /\ cpu_libres[k + 1] = d
      BY <2>1, <3>1
    <3>2. ASSUME NEW k \in DOMAIN cpu_libres, cpu_libres[k] = d
          PROVE  k - 1 \in DOMAIN cpu_libres' /\ cpu_libres'[k - 1] = d
      BY <2>1, <3>2
    <3> QED  BY <3>1, <3>2 DEF ToSet
  <2>5. LibresDistintas'
    <3> SUFFICES ASSUME NEW j \in DOMAIN cpu_libres', NEW k \in DOMAIN cpu_libres',
                        cpu_libres'[j] = cpu_libres'[k]
                 PROVE  j = k
      BY DEF LibresDistintas
    <3>1. j + 1 = k + 1
      BY <1>1, <2>1 DEF UnTurnoPorVez, LibresDistintas
    <3> QED  BY <2>1, <3>1
  <2> QED  BY <2>3, <2>4, <2>5
<1>8. VueltaDe(c) /\ PedidoDe(c) /\ BanderaDe(c)
  BY <1>1, TurnoPartes DEF UnTurnoPorVez
<1>9. ~ Hay(safaACpu, c) /\ ~ Corre(c) /\ ~ Hay(cpuASafa, c) /\ ~ Ocupado(c)
  BY <1>7, <1>8 DEF VueltaDe
<1>10. /\ safaACpu'[c] = <<m>> /\ Len(safaACpu'[c]) = 1 /\ DOMAIN safaACpu'[c] = {1}
       /\ safaACpu'[c][1] = m /\ safaACpu[c] = <<>>
       /\ \A d \in CPUS \ {c} : safaACpu'[d] = safaACpu[d]
  <2>1. safaACpu \in [CPUS -> Seq(MensajeDTB)]
    BY <1>1 DEF SafaInv, RedTypeOK
  <2> QED  BY <2>1, <1>4, <1>9, EnviaUno
<1>11. \A d \in CPUS \ {c} : MismaCPU(d)
  BY <1>4, <1>7, <1>10 DEF MismaCPU
<1>12. VueltaDe(c)' /\ PedidoDe(c)' /\ BanderaDe(c)'
  <2>1. VueltaDe(c)'
    BY <1>4, <1>7, <1>8, <1>9, <1>10 DEF VueltaDe, Hay, Corre, Ocupado
  <2>2. PedidoDe(c)'
    BY <1>4, <1>8 DEF PedidoDe, Hay, EsperaAlDAM
  <2>3. BanderaDe(c)'
    BY <1>4, <1>5, <1>8, <1>10 DEF BanderaDe
  <2> QED  BY <2>1, <2>2, <2>3
<1>13. UnaVuelta' /\ UnPedido'
  <2>1. \A d \in CPUS : VueltaDe(d)' /\ PedidoDe(d)'
    BY <1>1, <1>11, <1>12, OtraCPU, TurnoPartes DEF UnTurnoPorVez
  <2> QED  BY <2>1 DEF UnaVuelta, VueltaDe, UnPedido, PedidoDe
<1>14. UnTurno'
  <2>1. \A d \in CPUS : ~ Lleva(d, i)
    <3>1. \A d \in CPUS : ~ EnManos(i, d)
      BY <1>1, <1>2, ConTurno
    <3> QED  BY <1>1, <3>1, TurnoPartes DEF UnTurnoPorVez
  <2>2. \A d \in CPUS : \A j \in DTB : Lleva(d, j)' <=> Lleva(d, j) \/ (d = c /\ j = i)
    <3>1. \A d \in CPUS \ {c} : \A j \in DTB : Lleva(d, j)' <=> Lleva(d, j)
      BY <1>11, OtraCPU
    <3>2. \A j \in DTB : Lleva(c, j)' <=> Lleva(c, j) \/ j = i
      BY <1>4, <1>5, <1>10 DEF Lleva, Trae, Corre, EnHiloCPU
    <3> QED  BY <3>1, <3>2
  <2>3. \A j \in DTB : \A d \in CPUS : EnManos(j, d) => EnManos(j, d)'
    BY <1>2, <1>4, <1>6 DEF EnManos, Saliendo, EnHiloCPU, En
  <2>4. EnManos(i, c)'
    BY <1>6 DEF EnManos, Saliendo
  <2> QED
    BY <1>1, <2>1, <2>2, <2>3, <2>4, TurnoPartes DEF UnTurnoPorVez, UnTurno, EnManos
<1>15. UnaRespuesta'
  BY <1>1, <1>4 DEF UnTurnoPorVez, UnaRespuesta, EnElDAM, Respondido, Pendiente, Trae,
                   PorBloquear, PorBloquearEn, En
<1>16. BanderaAlDia'
  <2>1. \A d \in CPUS : BanderaDe(d)'
    BY <1>1, <1>4, <1>11, <1>12, OtraCPU, TurnoPartes DEF UnTurnoPorVez
  <2>2. \A j \in DTB : EnReposo(j)' => iniGDT'[j] = 1
    BY <1>1, <1>4, TurnoPartes DEF UnTurnoPorVez, EnReposo, En, Existe
  <2> QED  BY <2>1, <2>2 DEF BanderaAlDia, BanderaDe, EnReposo
<1> QED
  BY <1>7, <1>13, <1>14, <1>15, <1>16 DEF UnTurnoPorVez

LEMMA HiloPCPTurno ==
    ASSUME EnMarcha, HiloPCP, ~ Caer, UNCHANGED <<cpu, dam>>
    PROVE  UnTurnoPorVez'
<1>1. SafaInv /\ LugarInv /\ UnTurnoPorVez
  BY DEF EnMarcha
<1>2. "listos" \in Colas /\ "ejecutando" \in Colas /\ "bloqueados" \in Colas
  BY DEF Colas
<1>3. CASE PCPDespacha
  BY <1>3, PCPDespachaTurno
<1>4. CASE PCPDespierta \/ PCPRevisa \/ PCPElige \/ PCPBusca
  <2>1. /\ UNCHANGED <<red, com, cpu_libres, iniGDT, cola, id, plp>>
        /\ pcp.en \notin {"quita", "agrega"} /\ pcp'.en # "agrega"
    <3>1. UNCHANGED <<red, com, cpu_libres, iniGDT, cola, id, plp>>
      BY <1>4 DEF PCPDespierta, PCPRevisa, PCPElige, PCPBusca, cpus, datosDTB
    <3>2. pcp.en \notin {"quita", "agrega"} /\ pcp'.en # "agrega"
      BY <1>1, <1>4 DEF PCPDespierta, PCPRevisa, PCPElige, PCPBusca, SafaInv, SafaTypeOK, EnPCP
    <3> QED  BY <3>1, <3>2
  <2>2. \A i : MismoLugar(i) /\ ~ Saliendo(i)
    BY <2>1 DEF MismoLugar, En, EnHiloCPU, EnPLPde, EnPCPde, Saliendo
  <2> QED
    BY <1>1, <2>1, <2>2, ManosSiguen, ReposoSigue, CPUsQuietas
<1>5. CASE PCPQuita
  <2>1. PICK i \in DTB : i = pcp.dtb /\ pcp.en = "quita"
    BY <1>1, <1>5 DEF PCPQuita, SafaInv, SafaTypeOK
  <2>2. /\ \A j \in DTB \ {i} : MismoLugar(j)
        /\ SoloEnCola(i, "listos") /\ SoloEnPCP(i)'
    BY <1>1, <1>5, <2>1, PCPQuitaUbica
  <2>3. UNCHANGED <<red, com, cpu_libres, iniGDT, id>>
    BY <1>5 DEF PCPQuita, cpus, datosDTB
  <2>4. \A j : Saliendo(j) <=> j = i
    BY <2>1 DEF Saliendo
  <2>5. \A d \in CPUS : EnManos(i, d)'
    BY <2>2 DEF SoloEnPCP, EnPCPde, EnManos, Saliendo
  <2>6. ~ En(i, "bloqueados") /\ ~ EnReposo(i)'
    <3>1. Existe(i)' /\ {"nuevos", "bloqueados", "terminados"} \subseteq Colas
      BY <1>1, <1>2, <2>2, <2>3, EstaSolo DEF LugarInv, SoloEnCola, Existe, Colas
    <3> QED  BY <1>2, <2>2, <3>1 DEF SoloEnCola, SoloEnPCP, EnReposo
  <2> QED
    BY <1>1, <2>2, <2>3, <2>4, <2>5, <2>6, ManosSiguen, ReposoSigue, CPUsQuietas
<1>6. CASE PCPAgrega
  <2>1. PICK i \in DTB : i = pcp.dtb /\ pcp.en = "agrega"
    BY <1>1, <1>6 DEF PCPAgrega, SafaInv, SafaTypeOK
  <2>2. /\ \A j \in DTB \ {i} : MismoLugar(j)
        /\ SoloEnPCP(i) /\ SoloEnCola(i, "ejecutando")'
    BY <1>1, <1>6, <2>1, PCPAgregaUbica
  <2>3. UNCHANGED <<red, com, cpu_libres, iniGDT, id>>
    BY <1>6 DEF PCPAgrega, cpus, datosDTB
  <2>4. \A j : Saliendo(j) <=> j = i
    BY <2>1 DEF Saliendo
  <2>5. \A d \in CPUS : EnManos(i, d)'
    BY <1>2, <2>2 DEF SoloEnCola, EnManos
  <2>6. ~ En(i, "bloqueados") /\ ~ EnReposo(i)'
    <3>1. Existe(i)' /\ {"nuevos", "bloqueados", "terminados"} \subseteq Colas \ {"ejecutando"}
      BY <1>1, <1>2, <2>2, <2>3, EstaSolo DEF LugarInv, SoloEnPCP, Existe, Colas
    <3> QED  BY <1>2, <2>2, <3>1 DEF SoloEnCola, SoloEnPCP, EnReposo
  <2> QED
    BY <1>1, <2>2, <2>3, <2>4, <2>5, <2>6, ManosSiguen, ReposoSigue, CPUsQuietas
<1> QED
  BY <1>3, <1>4, <1>5, <1>6 DEF HiloPCP

(* the operator submits a script *)
LEMMA EjecutarTurno ==
    ASSUME EnMarcha, EjecutarEscriptorio, UNCHANGED <<cpu, dam>>
    PROVE  UnTurnoPorVez'
<1>1. SafaInv /\ LugarInv /\ UnTurnoPorVez /\ UNCHANGED <<red, com, cpu_libres, iniGDT, pcp>>
  BY DEF EnMarcha, EjecutarEscriptorio, cpus, hilos
<1>2. PICK i \in DTB : i = id
  BY RedAssumption DEF EjecutarEscriptorio, EnMarcha, SafaInv, SafaTypeOK, DTB
<1>3. /\ \A j \in DTB \ {i} : MismoLugar(j)
      /\ ~ Existe(i)
  BY <1>1, <1>2, EjecutarUbica
<1>4. Nada(i) /\ "bloqueados" \in Colas
  BY <1>1, <1>3 DEF LugarInv, Ubicados, Colas
<1>5. EnReposo(i)
  BY <1>3 DEF EnReposo
<1>6. \A d \in CPUS : ~ EnManos(i, d)
  BY <1>1, <1>3, ConTurno
<1>7. \A j \in DTB \ {i} : Existe(j)' <=> Existe(j)
  BY <1>2, RedAssumption DEF EjecutarEscriptorio, Existe, DTB
<1>8. ASSUME NEW j \in DTB
      PROVE  /\ \A d \in CPUS : EnManos(j, d) => EnManos(j, d)'
             /\ En(j, "bloqueados") => En(j, "bloqueados")'
             /\ EnReposo(j)' => EnReposo(j)
  <2>1. CASE j = i
    BY <1>4, <1>5, <1>6, <2>1 DEF Nada
  <2>2. CASE j # i
    <3>1. MismoLugar(j) /\ (Saliendo(j) => Saliendo(j)')
      BY <1>1, <1>3, <2>2 DEF Saliendo
    <3>2. EnReposo(j)' => EnReposo(j)
      <4>1. {"nuevos", "bloqueados", "terminados"} \subseteq Colas
        BY DEF Colas
      <4> QED  BY <1>7, <2>2, <3>1, <4>1 DEF EnReposo, MismoLugar
    <3> QED
      BY <1>4, <3>1, <3>2, ManosSiguen DEF MismoLugar
  <2> QED  BY <2>1, <2>2
<1> QED
  BY <1>1, <1>8, CPUsQuietas

-----------------------------------------------------------------------------
(* The threads of SAFA that serve the CPUs *)

(* A CPU that was not free joins the free ones. *)
LEMMA UnaLibreMas ==
    ASSUME SafaTypeOK, LibresDistintas, NEW c \in CPUS, c \notin ToSet(cpu_libres),
           cpu_libres' = Append(cpu_libres, c)
    PROVE  /\ LibresDistintas'
           /\ \A d : d \in ToSet(cpu_libres') <=> d \in ToSet(cpu_libres) \/ d = c
<1>1. cpu_libres \in Seq(CPUS)
  BY DEF SafaTypeOK
<1>2. \A d : d \in ToSet(cpu_libres') <=> d \in ToSet(cpu_libres) \/ d = c
  BY <1>1, AgregarALista
<1>3. /\ Len(cpu_libres) \in Nat /\ DOMAIN cpu_libres = 1 .. Len(cpu_libres)
      /\ DOMAIN cpu_libres' = 1 .. Len(cpu_libres) + 1
      /\ \A k \in DOMAIN cpu_libres : cpu_libres'[k] = cpu_libres[k]
      /\ cpu_libres'[Len(cpu_libres) + 1] = c
  BY <1>1
<1>4. \A k \in DOMAIN cpu_libres : cpu_libres[k] # c
  BY DEF ToSet
<1>5. ASSUME NEW j \in DOMAIN cpu_libres', NEW k \in DOMAIN cpu_libres',
             cpu_libres'[j] = cpu_libres'[k]
      PROVE  j = k
  <2>1. \/ j \in DOMAIN cpu_libres /\ k \in DOMAIN cpu_libres
        \/ j = Len(cpu_libres) + 1 /\ k = Len(cpu_libres) + 1
    BY <1>3, <1>4, <1>5
  <2> QED  BY <1>3, <1>5, <2>1 DEF LibresDistintas
<1> QED  BY <1>2, <1>5 DEF LibresDistintas

(* connections *)
LEMMA ConexionTurno ==
    ASSUME EnMarcha, Conexion, UNCHANGED <<cpu, dam>>
    PROVE  UnTurnoPorVez'
<1>1. SafaInv /\ LugarInv /\ UnTurnoPorVez
  BY DEF EnMarcha
<1>2. \A j \in DTB : MismoLugar(j)
  BY <1>1, ConexionNoMueve
<1>3. UNCHANGED <<id, iniGDT, pcp, red>>
  BY DEF Conexion, AceptarDAM, ArrancarHiloDMA, AceptarCPU, ConectarCPU, PasarSafaOperativo,
         datosDTB
<1>4. \A j \in DTB :
        /\ \A d \in CPUS : EnManos(j, d) => EnManos(j, d)'
        /\ En(j, "bloqueados") => En(j, "bloqueados")'
        /\ EnReposo(j)' => EnReposo(j)
  BY <1>2, <1>3, ManosSiguen, ReposoSigue DEF Saliendo
<1>5. CASE AceptarDAM \/ ArrancarHiloDMA
  <2>1. UNCHANGED <<com, cpu_libres>>
    BY <1>5 DEF AceptarDAM, ArrancarHiloDMA, cpus
  <2> QED  BY <1>1, <1>3, <1>4, <2>1, CPUsQuietas
<1>6. ASSUME NEW c \in CPUS, AceptarCPU(c) \/ ConectarCPU(c) \/ PasarSafaOperativo(c)
      PROVE  UnTurnoPorVez'
  <2>1. UNCHANGED <<safaACpu, cpuASafa, cpuADam, damACpu, damASafa>>
    BY <1>3 DEF red
  <2>2. VueltaDe(c) /\ PedidoDe(c) /\ BanderaDe(c)
    BY <1>1, TurnoPartes DEF UnTurnoPorVez
  <2>3. PICK e \in {"conecta", "verifica", "espera"} :
           /\ com' = [com EXCEPT ![c].en = e]
           /\ com[c].en \in {"fuera", "conecta", "verifica"}
           /\ \/ UNCHANGED cpu_libres /\ (Ocupado(c) <=> e = "conecta")
              \/ cpu_libres' = Append(cpu_libres, c) /\ Ocupado(c) /\ e = "verifica"
    BY <1>6 DEF AceptarCPU, ConectarCPU, PasarSafaOperativo, Ocupado, cpus
  <2>4. /\ com'[c].en = e /\ com'[c].dtb = com[c].dtb
        /\ \A d \in CPUS \ {c} : com'[d] = com[d]
    BY <1>1, <2>3, HiloSigue DEF SafaInv, SafaTypeOK
  <2>5. /\ LibresDistintas'
        /\ \A d \in CPUS \ {c} : d \in ToSet(cpu_libres') <=> d \in ToSet(cpu_libres)
        /\ c \in ToSet(cpu_libres') =>
             ~ Hay(safaACpu, c) /\ ~ Corre(c) /\ ~ Hay(cpuASafa, c) /\ e # "conecta"
    <3>1. CASE UNCHANGED cpu_libres /\ (Ocupado(c) <=> e = "conecta")
      BY <1>1, <2>2, <3>1 DEF VueltaDe, UnTurnoPorVez, LibresDistintas
    <3>2. CASE cpu_libres' = Append(cpu_libres, c) /\ Ocupado(c) /\ e = "verifica"
      <4>1. c \notin ToSet(cpu_libres)
        BY <2>2, <3>2 DEF VueltaDe
      <4> QED
        BY <1>1, <2>2, <3>2, <4>1, UnaLibreMas DEF VueltaDe, UnTurnoPorVez, SafaInv
    <3> QED  BY <2>3, <3>1, <3>2
  <2>6. Ocupado(c)' <=> e = "conecta"
    BY <2>3, <2>4 DEF Ocupado
  <2>7. Ocupado(c)' => Ocupado(c)
    BY <2>3, <2>6
  <2>8. VueltaDe(c)'
    BY <2>1, <2>2, <2>5, <2>6, <2>7 DEF VueltaDe, Hay, Corre
  <2>9. PedidoDe(c)' /\ BanderaDe(c)'
    BY <1>3, <2>1, <2>2, <2>3, <2>4 DEF PedidoDe, Hay, EsperaAlDAM, BanderaDe
  <2>10. ASSUME NEW i \in DTB
         PROVE  /\ Lleva(c, i)' => Lleva(c, i)
                /\ Trae(cpuADam, c, i)' => Trae(cpuADam, c, i)
                /\ PorBloquearEn(c, i) => PorBloquearEn(c, i)'
    BY <2>1, <2>3, <2>4 DEF Lleva, Trae, Corre, EnHiloCPU, PorBloquearEn
  <2>11. \A d \in CPUS : MismaCPU(d) \/ Avanza(d)
    BY <2>1, <2>4, <2>5, <2>8, <2>9, <2>10 DEF MismaCPU, Avanza
  <2>12. \A i \in DTB : EnElDAM(i)' => EnElDAM(i)
    BY DEF EnElDAM
  <2> QED
    BY <1>1, <1>3, <1>4, <2>1, <2>5, <2>11, <2>12, PasanTodas
<1> QED
  BY <1>5, <1>6 DEF Conexion

(* The thread of a CPU hears of the turn of its CPU, and of no other thing. *)
LEMMA RecibeAviso ==
    ASSUME EnMarcha, NEW c \in CPUS, NEW tipos, Recibe(c, tipos),
           NEW i \in DTB, i = Head(cpuASafa[c]).id
    PROVE  /\ com[c].en = "espera" /\ Head(cpuASafa[c]).tipo \in tipos
           /\ DOMAIN cpuASafa[c] = {1} /\ cpuASafa[c][1] = Head(cpuASafa[c])
           /\ Head(cpuASafa[c]) \in MensajeCPU
           /\ cpuASafa'[c] = <<>> /\ DOMAIN cpuASafa'[c] = {} /\ Len(cpuASafa'[c]) = 0
           /\ \A d \in CPUS \ {c} : cpuASafa'[d] = cpuASafa[d]
           /\ UNCHANGED <<safaACpu, cpuADam, damACpu, damASafa>>
           /\ ~ Hay(safaACpu, c) /\ ~ Corre(c) /\ c \notin ToSet(cpu_libres)
           /\ Lleva(c, i) /\ \A d \in CPUS : Lleva(d, i) => d = c
           /\ Head(cpuASafa[c]).tipo # "BloquearDTB" => iniGDT[i] = 1
<1>1. VueltaDe(c) /\ BanderaDe(c)
  BY TurnoPartes DEF EnMarcha, UnTurnoPorVez
<1>2. cpuASafa \in [CPUS -> Seq(MensajeCPU)] /\ Hay(cpuASafa, c) /\ Len(cpuASafa[c]) <= 1
      /\ cpuASafa' = Recibir(cpuASafa, c)
  BY <1>1 DEF EnMarcha, SafaInv, RedTypeOK, VueltaDe, Recibe
<1>3. /\ DOMAIN cpuASafa[c] = {1} /\ cpuASafa[c][1] = Head(cpuASafa[c])
      /\ Head(cpuASafa[c]) \in MensajeCPU
      /\ cpuASafa'[c] = <<>> /\ DOMAIN cpuASafa'[c] = {} /\ Len(cpuASafa'[c]) = 0
      /\ \A d \in CPUS \ {c} : cpuASafa'[d] = cpuASafa[d]
  BY <1>2, RecibeUno
<1>4. Lleva(c, i)
  BY <1>3 DEF Lleva, Trae
<1>5. \A d \in CPUS : Lleva(d, i) => d = c
  BY <1>4, TurnoPartes DEF EnMarcha, UnTurnoPorVez
<1>6. Head(cpuASafa[c]).tipo # "BloquearDTB" => iniGDT[i] = 1
  BY <1>1, <1>3 DEF BanderaDe
<1> QED
  BY <1>1, <1>2, <1>3, <1>4, <1>5, <1>6 DEF Recibe, VueltaDe

(* The thread takes the DTB of the turn out of "ejecutando". *)
LEMMA TomaTurno ==
    ASSUME EnMarcha, NEW c \in CPUS, NEW i \in DTB, NEW tipos, Recibe(c, tipos),
           i = Head(cpuASafa[c]).id, En(i, "ejecutando"),
           NEW e \in {"anota", "termina"},
           tipos = {IF e = "anota" THEN "BloquearDTB" ELSE "AbortarDTB"},
           cola' = Sacar("ejecutando", i),
           com' = [com EXCEPT ![c] = [en |-> e, dtb |-> i]],
           UNCHANGED <<id, iniGDT, tabla, con, dtbConEqGrandeAbierto, plp, pcp, cpu_libres,
                       cpu, dam>>
    PROVE  UnTurnoPorVez'
<1>1. SafaInv /\ LugarInv /\ UnTurnoPorVez /\ "ejecutando" \in Colas
  BY DEF EnMarcha, Colas
<1>2. /\ com[c].en = "espera" /\ Head(cpuASafa[c]).tipo \in tipos
      /\ DOMAIN cpuASafa[c] = {1} /\ cpuASafa[c][1] = Head(cpuASafa[c])
      /\ cpuASafa'[c] = <<>> /\ DOMAIN cpuASafa'[c] = {} /\ Len(cpuASafa'[c]) = 0
      /\ \A d \in CPUS \ {c} : cpuASafa'[d] = cpuASafa[d]
      /\ UNCHANGED <<safaACpu, cpuADam, damACpu, damASafa>>
      /\ ~ Hay(safaACpu, c) /\ ~ Corre(c) /\ c \notin ToSet(cpu_libres)
      /\ Lleva(c, i) /\ \A d \in CPUS : Lleva(d, i) => d = c
      /\ Head(cpuASafa[c]).tipo # "BloquearDTB" => iniGDT[i] = 1
  BY RecibeAviso
<1>3. /\ com'[c].en = e /\ com'[c].dtb = i
      /\ \A d \in CPUS \ {c} : com'[d] = com[d]
  BY <1>1 DEF SafaInv, SafaTypeOK, ComOK
<1>4. /\ \A j \in DTB \ {i} : MismoLugar(j)
      /\ SoloEnCola(i, "ejecutando") /\ SoloEnHilo(i, c)'
  BY <1>1, <1>2, TomarDeEjecutando
<1>5. VueltaDe(c) /\ PedidoDe(c) /\ BanderaDe(c)
  BY <1>1, TurnoPartes DEF UnTurnoPorVez
<1>6. VueltaDe(c)'
  BY <1>2, <1>5 DEF VueltaDe, Hay, Corre
<1>7. PedidoDe(c)'
  BY <1>2, <1>5 DEF PedidoDe, Hay, EsperaAlDAM
<1>8. BanderaDe(c)'
  <2>1. e = "termina" => iniGDT[i] = 1
    BY <1>2
  <2> QED  BY <1>2, <1>3, <1>5, <2>1 DEF BanderaDe
<1>9. ASSUME NEW j \in DTB
      PROVE  /\ Lleva(c, j)' => Lleva(c, j)
             /\ Trae(cpuADam, c, j)' => Trae(cpuADam, c, j)
             /\ PorBloquearEn(c, j) => PorBloquearEn(c, j)'
  <2>1. Lleva(c, j)' => j = i
    BY <1>2, <1>3 DEF Lleva, Trae, Corre, EnHiloCPU, Hay
  <2>2. Trae(cpuADam, c, j)' => Trae(cpuADam, c, j)
    BY <1>2 DEF Trae
  <2>3. CASE e = "anota"
    <3>1. PorBloquearEn(c, j) => j = i
      BY <1>2 DEF PorBloquearEn, Corre
    <3>2. PorBloquearEn(c, i)'
      BY <1>3, <2>3 DEF PorBloquearEn
    <3> QED  BY <1>2, <2>1, <2>2, <3>1, <3>2
  <2>4. CASE e = "termina"
    <3>1. ~ PorBloquearEn(c, j)
      BY <1>2, <2>4 DEF PorBloquearEn, Corre
    <3> QED  BY <1>2, <2>1, <2>2, <3>1
  <2> QED  BY <2>3, <2>4
<1>10. \A d \in CPUS : MismaCPU(d) \/ Avanza(d)
  BY <1>2, <1>3, <1>6, <1>7, <1>8, <1>9 DEF MismaCPU, Avanza
<1>11. \A d \in CPUS : Lleva(d, i)' => EnManos(i, d)'
  <2>1. \A d \in CPUS : Lleva(d, i)' => Lleva(d, i)
    BY <1>10, OtraCPU DEF Avanza
  <2>2. EnManos(i, c)'
    BY <1>4 DEF SoloEnHilo, EnManos
  <2> QED  BY <1>2, <2>1, <2>2
<1>12. \A j \in DTB \ {i} : /\ \A d \in CPUS : EnManos(j, d) => EnManos(j, d)'
                            /\ En(j, "bloqueados") => En(j, "bloqueados")'
                            /\ EnReposo(j)' => EnReposo(j)
  BY <1>4, ManosSiguen, ReposoSigue DEF Saliendo
<1>13. ~ En(i, "bloqueados") /\ ~ EnReposo(i)'
  <2>1. Existe(i)' /\ {"nuevos", "bloqueados", "terminados"} \subseteq Colas \ {"ejecutando"}
    BY <1>1, <1>4, EstaSolo DEF LugarInv, SoloEnCola, Existe, Colas
  <2> QED  BY <1>4, <2>1 DEF SoloEnCola, SoloEnHilo, EnReposo
<1>14. LibresDistintas' /\ \A j \in DTB : EnElDAM(j)' => EnElDAM(j)
  BY <1>1 DEF UnTurnoPorVez, LibresDistintas, EnElDAM
<1> QED
  BY <1>1, <1>2, <1>10, <1>11, <1>12, <1>13, <1>14, PasanTodas

(* It hears of a DTB that is not there, or of a resource: the turn is over,   *)
(* and no DTB moves.                                                         *)
LEMMA PierdeTurno ==
    ASSUME EnMarcha, NEW c \in CPUS, NEW i \in DTB, NEW tipos, Recibe(c, tipos),
           i = Head(cpuASafa[c]).id, "BloquearDTB" \notin tipos,
           com'[c].en \in {"termina", "recibeRecurso"},
           com'[c].en = "termina" => com'[c].dtb = NULO,
           \A d \in CPUS \ {c} : com'[d] = com[d],
           UNCHANGED <<cola, id, iniGDT, plp, pcp, cpu_libres, cpu, dam>>
    PROVE  UnTurnoPorVez'
<1>1. SafaInv /\ LugarInv /\ UnTurnoPorVez
  BY DEF EnMarcha
<1>2. /\ com[c].en = "espera" /\ Head(cpuASafa[c]).tipo \in tipos
      /\ DOMAIN cpuASafa[c] = {1} /\ cpuASafa[c][1] = Head(cpuASafa[c])
      /\ cpuASafa'[c] = <<>> /\ DOMAIN cpuASafa'[c] = {} /\ Len(cpuASafa'[c]) = 0
      /\ \A d \in CPUS \ {c} : cpuASafa'[d] = cpuASafa[d]
      /\ UNCHANGED <<safaACpu, cpuADam, damACpu, damASafa>>
      /\ ~ Hay(safaACpu, c) /\ ~ Corre(c) /\ c \notin ToSet(cpu_libres)
  BY RecibeAviso
<1>3. VueltaDe(c) /\ PedidoDe(c) /\ BanderaDe(c)
  BY <1>1, TurnoPartes DEF UnTurnoPorVez
<1>4. VueltaDe(c)'
  BY <1>2, <1>3 DEF VueltaDe, Hay, Corre
<1>5. PedidoDe(c)'
  BY <1>2, <1>3 DEF PedidoDe, Hay, EsperaAlDAM
<1>6. BanderaDe(c)'
  BY <1>2, <1>3 DEF BanderaDe
<1>7. ASSUME NEW j \in DTB
      PROVE  ~ EnHiloCPU(j, c)' /\ ~ EnHiloCPU(j, c)
  BY <1>2, DTBNoNulo DEF EnHiloCPU
<1>8. ASSUME NEW j \in DTB
      PROVE  /\ Lleva(c, j)' => Lleva(c, j)
             /\ Trae(cpuADam, c, j)' => Trae(cpuADam, c, j)
             /\ PorBloquearEn(c, j) => PorBloquearEn(c, j)'
  <2>1. ~ Lleva(c, j)'
    BY <1>2, <1>7 DEF Lleva, Trae, Corre, Hay
  <2>2. Trae(cpuADam, c, j)' => Trae(cpuADam, c, j)
    BY <1>2 DEF Trae
  <2>3. ~ PorBloquearEn(c, j)
    BY <1>2 DEF PorBloquearEn, Corre
  <2> QED  BY <2>1, <2>2, <2>3
<1>9. \A d \in CPUS : MismaCPU(d) \/ Avanza(d)
  BY <1>2, <1>4, <1>5, <1>6, <1>8 DEF MismaCPU, Avanza
<1>10. \A j \in DTB : \A d \in CPUS : EnHiloCPU(j, d)' <=> EnHiloCPU(j, d)
  BY <1>7 DEF EnHiloCPU
<1>11. \A j \in DTB : /\ \A d \in CPUS : EnManos(j, d) => EnManos(j, d)'
                      /\ En(j, "bloqueados") => En(j, "bloqueados")'
                      /\ EnReposo(j)' => EnReposo(j)
  BY <1>10 DEF EnManos, Saliendo, En, EnReposo, Existe
<1>12. LibresDistintas' /\ \A j \in DTB : EnElDAM(j)' => EnElDAM(j)
  BY <1>1 DEF UnTurnoPorVez, LibresDistintas, EnElDAM
<1> QED
  BY <1>1, <1>2, <1>9, <1>11, <1>12, PasanTodas

(* The thread leaves the DTB in "bloqueados" or in "terminados". *)
LEMMA DejaTurno ==
    ASSUME EnMarcha, NEW c \in CPUS, AgregarBloqueado(c) \/ AgregarTerminado(c),
           UNCHANGED <<cpu, dam>>
    PROVE  UnTurnoPorVez'
<1>1. SafaInv /\ LugarInv /\ UnTurnoPorVez /\ ComOK(com)
  BY DEF EnMarcha, SafaInv, SafaTypeOK
<1>2. PICK q \in {"bloqueados", "terminados"} :
         /\ com[c].en = IF q = "bloqueados" THEN "bloquea" ELSE "termina"
         /\ cola' = Agregar(cola, q, com[c].dtb)
         /\ com' = [com EXCEPT ![c].en = "libera"]
         /\ UNCHANGED <<id, iniGDT, tabla, con, dtbConEqGrandeAbierto, plp, pcp, cpu_libres, red>>
  BY DEF AgregarBloqueado, AgregarTerminado, cpus, datosDTB
<1>3. UNCHANGED <<safaACpu, cpuASafa, cpuADam, damACpu, damASafa>>
  BY <1>2 DEF red
<1>4. /\ com'[c].en = "libera" /\ com'[c].dtb = com[c].dtb
      /\ \A d \in CPUS \ {c} : com'[d] = com[d]
  BY <1>1, <1>2, HiloSigue
<1>5. q \in Colas \ {"listos", "auxVirtualRR"} /\ "bloqueados" \in Colas
  BY DEF Colas
<1>6. com[c].dtb \in DTB \cup {NULO} /\ (q = "bloqueados" => com[c].dtb \in DTB)
  BY <1>1, <1>2 DEF ComOK, EnHilo
<1>7. VueltaDe(c) /\ PedidoDe(c) /\ BanderaDe(c)
  BY <1>1, TurnoPartes DEF UnTurnoPorVez
<1>8. VueltaDe(c)' /\ PedidoDe(c)' /\ BanderaDe(c)'
  BY <1>2, <1>3, <1>4, <1>7 DEF VueltaDe, PedidoDe, BanderaDe, Hay, Corre, EsperaAlDAM, Ocupado
<1>9. \A j \in DTB : ~ EnHiloCPU(j, c)'
  BY <1>4 DEF EnHiloCPU
<1>10. CASE com[c].dtb \in DTB
  <2>1. PICK i \in DTB : i = com[c].dtb
    BY <1>10
  <2>2. EnHiloCPU(i, c) /\ iniGDT[i] = 1
    <3>1. EnHiloCPU(i, c)
      BY <1>2, <2>1 DEF EnHiloCPU
    <3>2. com[c].en \in {"bloquea", "termina"} /\ com[c].dtb # NULO
      BY <1>2, <2>1, DTBNoNulo
    <3> QED  BY <1>7, <2>1, <3>1, <3>2 DEF BanderaDe
  <2>3. /\ \A j \in DTB \ {i} : MismoLugar(j)
        /\ SoloEnHilo(i, c) /\ SoloEnCola(i, q)'
    BY <1>1, <1>2, <1>3, <1>5, <2>1, <2>2, DejarEnCola
  <2>4. Lleva(c, i) /\ \A d \in CPUS : Lleva(d, i) => d = c
    BY <1>1, <2>2, TurnoPartes DEF Lleva, UnTurnoPorVez
  <2>5. ASSUME NEW j \in DTB
        PROVE  /\ Lleva(c, j)' => Lleva(c, j)
               /\ Trae(cpuADam, c, j)' => Trae(cpuADam, c, j)
               /\ PorBloquearEn(c, j) => PorBloquearEn(c, j)' \/ En(j, "bloqueados")'
    <3>1. Lleva(c, j)' => Lleva(c, j)
      BY <1>3, <1>9 DEF Lleva, Trae, Corre
    <3>2. Trae(cpuADam, c, j)' => Trae(cpuADam, c, j)
      BY <1>3 DEF Trae
    <3>3. q = "bloqueados" => En(i, "bloqueados")'
      BY <1>5, <2>3 DEF SoloEnCola
    <3>4. PorBloquearEn(c, j) => PorBloquearEn(c, j)' \/ (q = "bloqueados" /\ j = i)
      BY <1>2, <1>3, <1>4, <2>1 DEF PorBloquearEn
    <3> QED  BY <3>1, <3>2, <3>3, <3>4
  <2>6. \A d \in CPUS : MismaCPU(d) \/ Avanza(d)
    BY <1>2, <1>3, <1>4, <1>8, <2>5 DEF MismaCPU, Avanza
  <2>7. \A d \in CPUS : ~ Lleva(d, i)'
    <3>1. ~ Lleva(c, i)'
      <4>1. ~ Hay(safaACpu, c) /\ ~ Corre(c) /\ ~ Hay(cpuASafa, c)
        BY <1>2, <1>7 DEF VueltaDe, Ocupado
      <4>2. safaACpu[c] = <<>> /\ cpuASafa[c] = <<>>
        BY <4>1 DEF Hay
      <4>3. DOMAIN safaACpu[c] = {} /\ DOMAIN cpuASafa[c] = {}
        BY <4>2
      <4> QED  BY <1>3, <1>9, <4>1, <4>3 DEF Lleva, Trae, Corre
    <3>2. \A d \in CPUS \ {c} : Lleva(d, i)' => Lleva(d, i)
      BY <2>6, OtraCPU DEF Avanza
    <3> QED  BY <2>4, <3>1, <3>2
  <2>8. \A j \in DTB \ {i} : /\ \A d \in CPUS : EnManos(j, d) => EnManos(j, d)'
                             /\ En(j, "bloqueados") => En(j, "bloqueados")'
                             /\ EnReposo(j)' => EnReposo(j)
    BY <1>2, <2>3, ManosSiguen, ReposoSigue DEF Saliendo
  <2>9. ~ En(i, "bloqueados")
    BY <1>5, <2>3 DEF SoloEnHilo
  <2>10. LibresDistintas' /\ \A j \in DTB : EnElDAM(j)' => EnElDAM(j)
    BY <1>1, <1>2 DEF UnTurnoPorVez, LibresDistintas, EnElDAM
  <2> QED
    BY <1>1, <1>2, <1>3, <2>2, <2>6, <2>7, <2>8, <2>9, <2>10, PasanTodas
<1>11. CASE com[c].dtb = NULO
  <2>1. q = "terminados" /\ \A j \in DTB : ~ EnHiloCPU(j, c)
    BY <1>2, <1>6, <1>11, DTBNoNulo DEF EnHiloCPU
  <2>2. \A j \in DTB : \A d \in CPUS : EnHiloCPU(j, d)' <=> EnHiloCPU(j, d)
    BY <1>4, <1>9, <2>1 DEF EnHiloCPU
  <2>3. \A j \in DTB : MismoLugar(j)
    BY <1>1, <1>2, <1>3, <1>11, <2>1, <2>2, AgregarNulo
  <2>4. ASSUME NEW j \in DTB
        PROVE  /\ Lleva(c, j)' => Lleva(c, j)
               /\ Trae(cpuADam, c, j)' => Trae(cpuADam, c, j)
               /\ PorBloquearEn(c, j) => PorBloquearEn(c, j)'
    BY <1>2, <1>3, <1>4, <1>9, <2>1 DEF Lleva, Trae, Corre, PorBloquearEn
  <2>5. \A d \in CPUS : MismaCPU(d) \/ Avanza(d)
    BY <1>2, <1>3, <1>4, <1>8, <2>4 DEF MismaCPU, Avanza
  <2>6. \A j \in DTB : /\ \A d \in CPUS : EnManos(j, d) => EnManos(j, d)'
                       /\ En(j, "bloqueados") => En(j, "bloqueados")'
                       /\ EnReposo(j)' => EnReposo(j)
    BY <1>2, <2>3, ManosSiguen, ReposoSigue DEF Saliendo
  <2>7. LibresDistintas' /\ \A j \in DTB : EnElDAM(j)' => EnElDAM(j)
    BY <1>1, <1>2 DEF UnTurnoPorVez, LibresDistintas, EnElDAM
  <2> QED
    BY <1>1, <1>2, <1>3, <2>5, <2>6, <2>7, PasanTodas
<1> QED  BY <1>6, <1>10, <1>11

(* The CPU is free again. *)
LEMMA LiberaTurno ==
    ASSUME EnMarcha, NEW c \in CPUS, LiberarCPU(c), UNCHANGED <<cpu, dam>>
    PROVE  UnTurnoPorVez'
<1>1. SafaInv /\ LugarInv /\ UnTurnoPorVez /\ ComOK(com)
  BY DEF EnMarcha, SafaInv, SafaTypeOK
<1>2. /\ com[c].en = "libera"
      /\ cpu_libres' = Append(cpu_libres, c)
      /\ com' = [com EXCEPT ![c] = [en |-> "espera", dtb |-> NULO]]
      /\ UNCHANGED <<id, iniGDT, cola, plp, pcp, red>>
  BY DEF LiberarCPU, datosDTB
<1>3. UNCHANGED <<safaACpu, cpuASafa, cpuADam, damACpu, damASafa>>
  BY <1>2 DEF red
<1>4. /\ com'[c].en = "espera" /\ com'[c].dtb = NULO
      /\ \A d \in CPUS \ {c} : com'[d] = com[d]
  BY <1>1, <1>2, HiloToma
<1>5. VueltaDe(c) /\ PedidoDe(c) /\ BanderaDe(c)
  BY <1>1, TurnoPartes DEF UnTurnoPorVez
<1>6. Ocupado(c) /\ c \notin ToSet(cpu_libres)
  BY <1>2, <1>5 DEF VueltaDe, Ocupado
<1>7. /\ LibresDistintas'
      /\ \A d : d \in ToSet(cpu_libres') <=> d \in ToSet(cpu_libres) \/ d = c
  BY <1>1, <1>2, <1>6, UnaLibreMas DEF UnTurnoPorVez, SafaInv
<1>8. VueltaDe(c)' /\ PedidoDe(c)' /\ BanderaDe(c)'
  BY <1>2, <1>3, <1>4, <1>5, <1>6
  DEF VueltaDe, PedidoDe, BanderaDe, Hay, Corre, EsperaAlDAM, Ocupado
<1>9. ASSUME NEW j \in DTB
      PROVE  /\ Lleva(c, j)' => Lleva(c, j)
             /\ Trae(cpuADam, c, j)' => Trae(cpuADam, c, j)
             /\ PorBloquearEn(c, j) => PorBloquearEn(c, j)'
             /\ ~ EnHiloCPU(j, c) /\ ~ EnHiloCPU(j, c)'
  BY <1>2, <1>3, <1>4 DEF Lleva, Trae, Corre, PorBloquearEn, EnHiloCPU
<1>10. \A d \in CPUS : MismaCPU(d) \/ Avanza(d)
  BY <1>2, <1>3, <1>4, <1>7, <1>8, <1>9 DEF MismaCPU, Avanza
<1>11. \A j \in DTB : /\ \A d \in CPUS : EnManos(j, d) => EnManos(j, d)'
                      /\ En(j, "bloqueados") => En(j, "bloqueados")'
                      /\ EnReposo(j)' => EnReposo(j)
  BY <1>2, <1>4, <1>9 DEF EnManos, EnHiloCPU, Saliendo, En, EnReposo, Existe
<1>12. \A j \in DTB : EnElDAM(j)' => EnElDAM(j)
  BY DEF EnElDAM
<1> QED
  BY <1>1, <1>2, <1>3, <1>7, <1>10, <1>11, <1>12, PasanTodas

(* The dummy stops being one: no message of it is on the way. *)
LEMMA AnotaTurno ==
    ASSUME EnMarcha, NEW c \in CPUS, AnotarDummy(c), UNCHANGED <<cpu, dam>>
    PROVE  UnTurnoPorVez'
<1>1. SafaInv /\ LugarInv /\ UnTurnoPorVez /\ ComOK(com)
  BY DEF EnMarcha, SafaInv, SafaTypeOK
<1>2. PICK i \in DTB : i = com[c].dtb /\ com[c].en = "anota"
  BY <1>1 DEF AnotarDummy, ComOK
<1>3. /\ iniGDT' = [iniGDT EXCEPT ![i] = 1]
      /\ com' = [com EXCEPT ![c].en = "bloquea"]
      /\ UNCHANGED <<id, cola, cpu_libres, plp, pcp, red>>
  BY <1>2 DEF AnotarDummy, cpus
<1>4. UNCHANGED <<safaACpu, cpuASafa, cpuADam, damACpu, damASafa>>
  BY <1>3 DEF red
<1>5. /\ com'[c].en = "bloquea" /\ com'[c].dtb = i
      /\ \A d \in CPUS \ {c} : com'[d] = com[d]
  BY <1>1, <1>2, <1>3, HiloSigue
<1>6. /\ iniGDT'[i] = 1
      /\ \A j \in DTB \ {i} : iniGDT'[j] = iniGDT[j]
      /\ \A j \in DTB : iniGDT[j] = 1 => iniGDT'[j] = 1
  BY <1>1, <1>3 DEF SafaInv, SafaTypeOK
<1>7. \A d \in CPUS : Ocupado(d)' <=> Ocupado(d)
  BY <1>2, <1>5 DEF Ocupado
<1>8. /\ \A d \in CPUS : \A j : EnHiloCPU(j, d)' <=> EnHiloCPU(j, d)
      /\ \A d \in CPUS : \A j : PorBloquearEn(d, j)' <=> PorBloquearEn(d, j)
  BY <1>2, <1>4, <1>5 DEF EnHiloCPU, PorBloquearEn
<1>9. UnaVuelta' /\ UnPedido' /\ LibresDistintas'
  BY <1>1, <1>3, <1>4, <1>7 DEF UnTurnoPorVez, UnaVuelta, UnPedido, LibresDistintas, Hay, Corre,
                               EsperaAlDAM
<1>10. UnTurno'
  BY <1>1, <1>3, <1>4, <1>8 DEF UnTurnoPorVez, UnTurno, Lleva, Trae, Corre, Saliendo, En
<1>11. UnaRespuesta'
  BY <1>1, <1>3, <1>4, <1>8 DEF UnTurnoPorVez, UnaRespuesta, EnElDAM, Respondido, Pendiente,
                                Trae, PorBloquear, En
<1>12. ASSUME NEW d \in CPUS  PROVE BanderaDe(d)'
  <2>1. BanderaDe(d) /\ VueltaDe(d)
    BY <1>1, TurnoPartes DEF UnTurnoPorVez
  <2>2. Lleva(c, i) /\ (Lleva(d, i) => d = c)
    BY <1>1, <1>2, TurnoPartes DEF Lleva, EnHiloCPU, UnTurnoPorVez
  <2>3. \A k \in DOMAIN safaACpu[d] : safaACpu[d][k].id \in DTB \ {i}
    <3>1. CASE d # c
      BY <1>1, <2>2, <3>1, MensajesConDTB DEF Lleva, Trae, SafaInv
    <3>2. CASE d = c
      <4>1. safaACpu[d] = <<>>
        BY <1>2, <2>1, <3>2 DEF VueltaDe, Ocupado, Hay
      <4>2. DOMAIN safaACpu[d] = {}
        BY <4>1
      <4> QED  BY <4>2
    <3> QED  BY <3>1, <3>2
  <2>4. \A k \in DOMAIN safaACpu'[d] : safaACpu'[d][k].ini = iniGDT'[safaACpu'[d][k].id]
    BY <1>4, <1>6, <2>1, <2>3 DEF BanderaDe
  <2>5. cpu'[d].en \in {"lee", "esperaDAM"} => iniGDT'[cpu'[d].dtb] = 1
    BY <1>6, <2>1 DEF BanderaDe, EnMarcha, CpuTypeOK
  <2>6. com'[d].en \in {"bloquea", "termina"} /\ com'[d].dtb # NULO => iniGDT'[com'[d].dtb] = 1
    BY <1>1, <1>5, <1>6, <2>1 DEF BanderaDe, ComOK, EnHilo
  <2>7. \A k \in DOMAIN cpuASafa'[d] :
          cpuASafa'[d][k].tipo # "BloquearDTB" => iniGDT'[cpuASafa'[d][k].id] = 1
    BY <1>1, <1>4, <1>6, <2>1, MensajesConDTB DEF BanderaDe, SafaInv
  <2> QED  BY <2>4, <2>5, <2>6, <2>7 DEF BanderaDe
<1>13. \A j \in DTB : EnReposo(j)' => iniGDT'[j] = 1
  BY <1>1, <1>3, <1>6, TurnoPartes DEF UnTurnoPorVez, EnReposo, En, Existe
<1>14. BanderaAlDia'
  BY <1>12, <1>13 DEF BanderaAlDia, BanderaDe, EnReposo
<1> QED
  BY <1>9, <1>10, <1>11, <1>14 DEF UnTurnoPorVez

(* the thread of CPU c *)
LEMMA HiloCPUTurno ==
    ASSUME EnMarcha, NEW c \in CPUS, HiloCPU(c), ~ Caer, UNCHANGED <<cpu, dam>>
    PROVE  UnTurnoPorVez'
<1>1. ComOK(com) /\ SafaInv
  BY DEF EnMarcha, SafaInv, SafaTypeOK
<1>2. ASSUME NEW tipos, Recibe(c, tipos)
      PROVE  Head(cpuASafa[c]).id \in DTB /\ com[c].en = "espera"
  BY <1>1, <1>2, RecibeOK DEF SafaInv, Recibe
<1>3. CASE BloquearDTB(c)
  <2>1. PICK i \in DTB : i = Head(cpuASafa[c]).id /\ Recibe(c, {"BloquearDTB"})
    BY <1>2, <1>3 DEF BloquearDTB
  <2>2. /\ En(i, "ejecutando")
        /\ cola' = Sacar("ejecutando", i)
        /\ com' = [com EXCEPT ![c] = [en |-> "anota", dtb |-> i]]
        /\ UNCHANGED <<id, iniGDT, tabla, con, dtbConEqGrandeAbierto, plp, pcp, cpu_libres>>
    BY <1>3, <2>1 DEF BloquearDTB, datosDTB, cpus
  <2> QED  BY <2>1, <2>2, TomaTurno
<1>4. CASE AbortarDTB(c)
  <2>1. PICK i \in DTB : i = Head(cpuASafa[c]).id /\ Recibe(c, {"AbortarDTB"})
    BY <1>2, <1>4 DEF AbortarDTB
  <2>2. /\ cola' = Sacar("ejecutando", i)
        /\ com' = [com EXCEPT ![c] =
                     [en |-> "termina", dtb |-> IF En(i, "ejecutando") THEN i ELSE NULO]]
        /\ UNCHANGED <<id, iniGDT, tabla, con, dtbConEqGrandeAbierto, plp, pcp, cpu_libres>>
    BY <1>4, <2>1 DEF AbortarDTB, datosDTB, cpus
  <2>3. CASE En(i, "ejecutando")
    BY <2>1, <2>2, <2>3, TomaTurno
  <2>4. CASE ~ En(i, "ejecutando")
    <3>1. UNCHANGED cola
      <4>1. cola["ejecutando"] \in Seq(DTB) /\ "ejecutando" \in Colas
            /\ cola \in [Colas -> Seq(DTB \cup {NULO})]
        BY <1>1 DEF SafaInv, SafaTypeOK, ColasOK, Colas
      <4>2. RemoveFirst(cola["ejecutando"], i) = cola["ejecutando"]
        BY <2>4, <4>1 DEF RemoveFirst, En, ToSet
      <4> QED  BY <2>2, <4>1, <4>2 DEF Sacar
    <3>2. /\ com'[c].en = "termina" /\ com'[c].dtb = NULO
          /\ \A d \in CPUS \ {c} : com'[d] = com[d]
      BY <1>1, <2>2, <2>4, HiloToma
    <3> QED
      BY <2>1, <2>2, <3>1, <3>2, PierdeTurno
  <2> QED  BY <2>3, <2>4
<1>5. CASE PedirRecurso(c)
  <2>1. PICK i \in DTB :
           i = Head(cpuASafa[c]).id /\ Recibe(c, {"RetenerRecurso", "LiberarRecurso"})
    BY <1>2, <1>5 DEF PedirRecurso
  <2>2. /\ com' = [com EXCEPT ![c].en = "recibeRecurso"]
        /\ UNCHANGED <<cola, id, iniGDT, plp, pcp, cpu_libres>>
    BY <1>5 DEF PedirRecurso, datosDTB, cpus
  <2>3. com'[c].en = "recibeRecurso" /\ \A d \in CPUS \ {c} : com'[d] = com[d]
    BY <1>1, <2>2, HiloSigue
  <2> QED
    BY <2>1, <2>2, <2>3, PierdeTurno
<1>6. CASE AnotarDummy(c)
  BY <1>6, AnotaTurno
<1>7. CASE AgregarBloqueado(c) \/ AgregarTerminado(c)
  BY <1>7, DejaTurno
<1>8. CASE LiberarCPU(c)
  BY <1>8, LiberaTurno
<1> QED
  BY <1>3, <1>4, <1>5, <1>6, <1>7, <1>8 DEF HiloCPU, CrearRecurso

-----------------------------------------------------------------------------
(* The thread of SAFA that serves the DAM *)

(* An answer is taken once, and no other is on the way for its DTB. *)
LEMMA UnaRespuestaMenos ==
    ASSUME RedTypeOK, UnaRespuesta, RecibeDAM, NEW i \in DTB, i = Head(damASafa).id
    PROVE  /\ \A j : Respondido(j)' <=> Respondido(j) /\ j # i
           /\ \A j, k \in DOMAIN damASafa' : damASafa'[j].id = damASafa'[k].id => j = k
           /\ Respondido(i)
<1>1. /\ damASafa \in Seq(RespuestaDAM) /\ damASafa # <<>> /\ damASafa' = Tail(damASafa)
  BY DEF RedTypeOK, RecibeDAM
<1>2. /\ Len(damASafa) \in Nat /\ DOMAIN damASafa = 1 .. Len(damASafa)
      /\ DOMAIN damASafa' = 1 .. Len(damASafa) - 1
      /\ 1 \in DOMAIN damASafa /\ damASafa[1].id = i
      /\ \A k \in DOMAIN damASafa' : damASafa'[k] = damASafa[k + 1]
  BY <1>1
<1>3. \A k \in DOMAIN damASafa : damASafa[k].id = i => k = 1
  BY <1>2 DEF UnaRespuesta
<1>4. ASSUME NEW j, NEW k \in DOMAIN damASafa', damASafa'[k].id = j
      PROVE  k + 1 \in DOMAIN damASafa /\ damASafa[k + 1].id = j /\ j # i
  BY <1>2, <1>3, <1>4
<1>5. ASSUME NEW j, NEW k \in DOMAIN damASafa, damASafa[k].id = j, j # i
      PROVE  k - 1 \in DOMAIN damASafa' /\ damASafa'[k - 1].id = j
  BY <1>2, <1>5
<1>6. ASSUME NEW j \in DOMAIN damASafa', NEW k \in DOMAIN damASafa',
             damASafa'[j].id = damASafa'[k].id
      PROVE  j = k
  <2>1. j + 1 = k + 1
    BY <1>2, <1>6 DEF UnaRespuesta
  <2> QED  BY <1>2, <2>1
<1>7. \A j : Respondido(j)' <=> Respondido(j) /\ j # i
  BY <1>4, <1>5 DEF Respondido
<1> QED  BY <1>2, <1>6, <1>7 DEF Respondido

LEMMA HiloDMATurno ==
    ASSUME EnMarcha, HiloDMA, ~ Caer, ALGORITMO # "VRR", UNCHANGED <<cpu, dam>>
    PROVE  UnTurnoPorVez'
<1>1. SafaInv /\ LugarInv /\ UnTurnoPorVez /\ "bloqueados" \in Colas
      /\ "listos" \in Colas /\ "terminados" \in Colas
  BY DEF EnMarcha, Colas
<1>2. PICK i \in DTB : /\ i = Head(damASafa).id /\ RecibeDAM
                       /\ UNCHANGED <<safaACpu, cpuASafa, cpuADam, damACpu>>
  <2>1. RecibeDAM
    BY DEF HiloDMA, OperacionNoFinalizada, AbrirPathFinalizadoOk, OperacionFinalizadaOk
  <2> QED
    BY <1>1, <2>1, RecibeDAMOK DEF SafaInv, RecibeDAM
<1>3. ColaListos = "listos"
  BY DEF ColaListos
<1>4. UNCHANGED <<id, iniGDT, com, plp, pcp, cpu_libres>>
  BY DEF HiloDMA, OperacionNoFinalizada, AbrirPathFinalizadoOk, OperacionFinalizadaOk, datosDTB,
         hilos, cpus
<1>5. \/ /\ \A j \in DTB : MismoLugar(j)
         /\ ~ En(i, "bloqueados")
      \/ /\ \A j \in DTB \ {i} : MismoLugar(j)
         /\ En(i, "bloqueados") /\ ~ En(i, "bloqueados")'
  <2>1. CASE En(i, "bloqueados")
    <3>1. PICK q \in {"terminados", "listos"} : cola' = Mover(i, "bloqueados", q)
      BY <1>2, <1>3, <2>1 DEF HiloDMA, OperacionNoFinalizada, AbrirPathFinalizadoOk,
                              OperacionFinalizadaOk
    <3>2. (\A j \in DTB \ {i} : MismoLugar(j)) /\ SoloEnCola(i, q)'
      BY <1>1, <1>4, <2>1, <3>1, SacarDeBloqueados
    <3> QED  BY <1>1, <2>1, <3>2 DEF SoloEnCola
  <2>2. CASE ~ En(i, "bloqueados")
    <3>1. OperacionNoFinalizada
      BY <1>2, <2>2 DEF HiloDMA, AbrirPathFinalizadoOk, OperacionFinalizadaOk
    <3>2. /\ cola' = Agregar(cola, "terminados", NULO)
          /\ UNCHANGED <<tabla, con, dtbConEqGrandeAbierto>>
      BY <1>2, <2>2, <3>1 DEF OperacionNoFinalizada, datosDTB, hilos
    <3> QED
      BY <1>1, <1>2, <1>4, <2>2, <3>2, AgregarNulo DEF EnHiloCPU
  <2> QED  BY <2>1, <2>2
<1>6. /\ \A j : Respondido(j)' <=> Respondido(j) /\ j # i
      /\ \A j, k \in DOMAIN damASafa' : damASafa'[j].id = damASafa'[k].id => j = k
      /\ Respondido(i)
  BY <1>1, <1>2, UnaRespuestaMenos DEF UnTurnoPorVez, SafaInv
<1>7. En(i, "bloqueados") => iniGDT[i] = 1 /\ \A d \in CPUS : ~ EnManos(i, d)
  BY <1>1, ConTurno, TurnoPartes DEF UnTurnoPorVez, EnReposo, Colas
<1>8. \A j \in DTB : MismoLugar(j) =>
         /\ \A d \in CPUS : EnManos(j, d) => EnManos(j, d)'
         /\ EnReposo(j)' => EnReposo(j)
         /\ En(j, "bloqueados") => En(j, "bloqueados")'
  BY <1>4, ManosSiguen, ReposoSigue DEF Saliendo
<1>9. UnaVuelta' /\ UnPedido' /\ LibresDistintas'
  BY <1>1, <1>2, <1>4 DEF UnTurnoPorVez, UnaVuelta, UnPedido, LibresDistintas, Hay, Corre,
                          Ocupado, EsperaAlDAM
<1>10. UnTurno'
  <2>1. \A j \in DTB : \A d \in CPUS : Lleva(d, j)' <=> Lleva(d, j)
    BY <1>2, <1>4 DEF Lleva, Trae, Corre, EnHiloCPU
  <2>2. \A j \in DTB : \A d \in CPUS : EnManos(j, d) => EnManos(j, d)'
    BY <1>5, <1>7, <1>8
  <2> QED
    BY <1>1, <2>1, <2>2, TurnoPartes DEF UnTurnoPorVez, UnTurno, EnManos
<1>11. UnaRespuesta'
  <2>1. \A j \in DTB : /\ EnElDAM(j)' <=> EnElDAM(j)
                       /\ Pendiente(j)' <=> Pendiente(j)
                       /\ PorBloquear(j)' <=> PorBloquear(j)
    BY <1>2, <1>4 DEF EnElDAM, Pendiente, Trae, PorBloquear, PorBloquearEn
  <2>2. \A j \in DTB \ {i} : En(j, "bloqueados") => En(j, "bloqueados")'
    BY <1>5, <1>8
  <2> QED
    BY <1>1, <1>6, <2>1, <2>2 DEF UnTurnoPorVez, UnaRespuesta
<1>12. BanderaAlDia'
  <2>1. \A d \in CPUS : MismaCPU(d)
    BY <1>2, <1>4 DEF MismaCPU
  <2>2. \A d \in CPUS : BanderaDe(d)'
    BY <1>1, <1>4, <2>1, OtraCPU, TurnoPartes DEF UnTurnoPorVez
  <2>3. \A j \in DTB : EnReposo(j)' => iniGDT'[j] = 1
    BY <1>1, <1>4, <1>5, <1>7, <1>8, TurnoPartes DEF UnTurnoPorVez
  <2> QED  BY <2>2, <2>3 DEF BanderaAlDia, BanderaDe, EnReposo
<1> QED
  BY <1>9, <1>10, <1>11, <1>12 DEF UnTurnoPorVez

-----------------------------------------------------------------------------
(* The CPUs *)

LEMMA SafaQuieta ==
    ASSUME UnTurnoPorVez, UNCHANGED safa
    PROVE  /\ UNCHANGED <<com, cpu_libres, iniGDT, id, cola, plp, pcp>>
           /\ LibresDistintas'
           /\ \A i : \A d : EnManos(i, d) => EnManos(i, d)'
           /\ \A i : En(i, "bloqueados")' <=> En(i, "bloqueados")
           /\ \A i : EnReposo(i)' => EnReposo(i)
<1>1. UNCHANGED <<com, cpu_libres, iniGDT, id, cola, plp, pcp>>
  BY DEF safa, hilos, cpus, datosDTB
<1> QED
  BY <1>1 DEF UnTurnoPorVez, LibresDistintas, EnManos, EnHiloCPU, Saliendo, En, EnReposo, Existe

(* The CPU ends its turn: it tells SAFA, or says nothing. *)
LEMMA CPUTermina ==
    ASSUME EnMarcha, NEW c \in CPUS, Corre(c), UNCHANGED <<safa, safaACpu, cpuADam, damASafa, dam>>,
           cpu'[c].en \in {"espera", "colgada"}, \A d \in CPUS \ {c} : cpu'[d] = cpu[d],
           ~ Hay(cpuADam, c), damACpu'[c] = <<>>,
           \A d \in CPUS \ {c} : damACpu'[d] = damACpu[d],
           \/ UNCHANGED cpuASafa /\ cpu[c].en = "lee"
           \/ \E t : /\ cpuASafa' = Enviar(cpuASafa, c, [tipo |-> t, id |-> cpu[c].dtb])
                     /\ IF t = "BloquearDTB" THEN TRUE ELSE cpu[c].en = "lee"
    PROVE  UnTurnoPorVez'
<1>1. SafaInv /\ LugarInv /\ UnTurnoPorVez /\ CpuTypeOK
  BY DEF EnMarcha
<1>2. /\ UNCHANGED <<com, cpu_libres, iniGDT, id, cola, plp, pcp>>
      /\ LibresDistintas'
      /\ \A i : \A d : EnManos(i, d) => EnManos(i, d)'
      /\ \A i : En(i, "bloqueados")' <=> En(i, "bloqueados")
      /\ \A i : EnReposo(i)' => EnReposo(i)
  BY <1>1, SafaQuieta
<1>3. VueltaDe(c) /\ PedidoDe(c) /\ BanderaDe(c)
  BY <1>1, TurnoPartes DEF UnTurnoPorVez
<1>4. ~ Hay(cpuASafa, c) /\ ~ Ocupado(c) /\ ~ Hay(safaACpu, c) /\ c \notin ToSet(cpu_libres)
  BY <1>3 DEF VueltaDe
<1>5. \A d \in CPUS \ {c} : cpu'[d] = cpu[d]
  OBVIOUS
<1>6. PICK i \in DTB : i = cpu[c].dtb /\ Lleva(c, i)
  BY <1>1 DEF CpuTypeOK, Corre, Lleva
<1>7. safaACpu[c] = <<>> /\ cpuASafa[c] = <<>> /\ cpuADam[c] = <<>>
      /\ DOMAIN <<>> = {} /\ Len(<<>>) = 0
  BY <1>4 DEF Hay
<1>8. ~ EnHiloCPU(i, c) /\ ~ Corre(c)' /\ \A j : ~ EnHiloCPU(j, c)
  BY <1>4, <1>5 DEF EnHiloCPU, Ocupado, Corre
<1>9. ~ EsperaAlDAM(c)' /\ ~ Hay(damACpu, c)'
  BY <1>5 DEF EsperaAlDAM, Hay
<1>10. PedidoDe(c)'
  BY <1>3, <1>7, <1>9 DEF PedidoDe, Hay
<1>11. CASE UNCHANGED cpuASafa /\ cpu[c].en = "lee"
  <2>1. VueltaDe(c)'
    BY <1>2, <1>3, <1>4, <1>8, <1>11 DEF VueltaDe, Hay, Ocupado
  <2>2. BanderaDe(c)'
    BY <1>2, <1>3, <1>5, <1>11 DEF BanderaDe
  <2>3. ASSUME NEW j \in DTB
        PROVE  /\ Lleva(c, j)' => Lleva(c, j)
               /\ Trae(cpuADam, c, j)' => Trae(cpuADam, c, j)
               /\ PorBloquearEn(c, j) => PorBloquearEn(c, j)'
    BY <1>2, <1>5, <1>8, <1>11 DEF Lleva, Trae, EnHiloCPU, PorBloquearEn
  <2>4. \A d \in CPUS : MismaCPU(d) \/ Avanza(d)
    BY <1>2, <1>5, <1>10, <1>11, <2>1, <2>2, <2>3 DEF MismaCPU, Avanza
  <2>5. \A j \in DTB : EnElDAM(j)' => EnElDAM(j)
    BY DEF EnElDAM
  <2> QED
    BY <1>1, <1>2, <2>4, <2>5, PasanTodas
<1>12. ASSUME NEW t, cpuASafa' = Enviar(cpuASafa, c, [tipo |-> t, id |-> cpu[c].dtb]),
              IF t = "BloquearDTB" THEN TRUE ELSE cpu[c].en = "lee"
       PROVE  UnTurnoPorVez'
  <2> DEFINE m == [tipo |-> t, id |-> i]
  <2>1. /\ cpuASafa'[c] = <<m>> /\ DOMAIN cpuASafa'[c] = {1} /\ cpuASafa'[c][1] = m
        /\ Len(cpuASafa'[c]) = 1 /\ cpuASafa'[c] # <<>>
        /\ \A d \in CPUS \ {c} : cpuASafa'[d] = cpuASafa[d]
    <3>1. cpuASafa \in [CPUS -> Seq(MensajeCPU)]
      BY <1>1 DEF SafaInv, RedTypeOK
    <3> HIDE DEF m
    <3>2. cpuASafa' = Enviar(cpuASafa, c, m)
      BY <1>6, <1>12 DEF m
    <3> QED  BY <1>4, <3>1, <3>2, EnviaUno
  <2>2. m.tipo = t /\ m.id = i
    OBVIOUS
  <2>3. VueltaDe(c)'
    BY <1>2, <1>3, <1>4, <1>8, <2>1 DEF VueltaDe, Hay, Ocupado
  <2>4. BanderaDe(c)'
    <3>1. m.tipo # "BloquearDTB" => iniGDT[i] = 1
      BY <1>3, <1>6, <1>12, <2>2 DEF BanderaDe
    <3> HIDE DEF m
    <3> QED  BY <1>2, <1>3, <1>5, <2>1, <2>2, <3>1 DEF BanderaDe
  <2>5. ASSUME NEW j \in DTB
        PROVE  /\ Lleva(c, j)' => Lleva(c, j)
               /\ Trae(cpuADam, c, j)' => Trae(cpuADam, c, j)
               /\ PorBloquearEn(c, j) => PorBloquearEn(c, j)'
    <3>1. Lleva(c, j)' => j = i
      <4> HIDE DEF m
      <4> QED  BY <1>2, <1>7, <1>8, <2>1, <2>2 DEF Lleva, Trae, EnHiloCPU
    <3>2. Trae(cpuADam, c, j)' => Trae(cpuADam, c, j)
      BY DEF Trae
    <3>3. PorBloquearEn(c, j) => j = i /\ t = "BloquearDTB"
      BY <1>4, <1>6, <1>7, <1>12 DEF PorBloquearEn, Ocupado
    <3>4. t = "BloquearDTB" => PorBloquearEn(c, i)'
      <4>1. t = "BloquearDTB" => m = [tipo |-> "BloquearDTB", id |-> i]
        OBVIOUS
      <4> HIDE DEF m
      <4> QED  BY <2>1, <4>1 DEF PorBloquearEn
    <3> QED  BY <1>6, <3>1, <3>2, <3>3, <3>4
  <2>6. \A d \in CPUS : MismaCPU(d) \/ Avanza(d)
    BY <1>2, <1>5, <1>10, <2>1, <2>3, <2>4, <2>5 DEF MismaCPU, Avanza
  <2>7. \A j \in DTB : EnElDAM(j)' => EnElDAM(j)
    BY DEF EnElDAM
  <2> QED
    BY <1>1, <1>2, <2>6, <2>7, PasanTodas
<1> QED  BY <1>11, <1>12

(* A CPU that does not ask the DAM has nothing on the way to it or from it. *)
LEMMA SinPedido ==
    ASSUME EnMarcha, NEW c \in CPUS, ~ EsperaAlDAM(c)
    PROVE  ~ Hay(cpuADam, c) /\ damACpu[c] = <<>>
  BY TurnoPartes DEF EnMarcha, UnTurnoPorVez, PedidoDe, Hay

(* The DAM has acknowledged: the CPU hears it once. *)
LEMMA RecibeAcuse ==
    ASSUME EnMarcha, NEW c \in CPUS, Hay(damACpu, c), damACpu' = Recibir(damACpu, c)
    PROVE  /\ ~ Hay(cpuADam, c) /\ damACpu'[c] = <<>>
           /\ \A d \in CPUS \ {c} : damACpu'[d] = damACpu[d]
<1>1. PedidoDe(c)
  BY TurnoPartes DEF EnMarcha, UnTurnoPorVez
<1>2. damACpu \in [CPUS -> Seq({"Ejecutandose"})]
  BY DEF EnMarcha, SafaInv, RedTypeOK
<1>3. ~ Hay(cpuADam, c) /\ Len(damACpu[c]) <= 1
  BY <1>1 DEF PedidoDe
<1> QED
  BY <1>2, <1>3, RecibeUno

(* the sentences and the answers that end a turn *)
LEMMA AcabaTurno ==
    ASSUME EnMarcha, QUANTUM = 1, NEW c \in CPUS, UNCHANGED <<safa, dam>>,
           \/ DesalojarDummy(c) \/ DesalojarDTB(c) \/ Concentrar(c) \/ AbortarSentencia(c)
           \/ RetenerRecurso(c) \/ LiberarRecurso(c) \/ EsperarAFM9(c)
    PROVE  UnTurnoPorVez'
<1>1. CpuTypeOK
  BY DEF EnMarcha
<1>2. ASSUME cpu' = [cpu EXCEPT ![c] = Libre] \/ Pasar(c, "colgada")
      PROVE  cpu'[c].en \in {"espera", "colgada"} /\ \A d \in CPUS \ {c} : cpu'[d] = cpu[d]
  BY <1>1, <1>2 DEF Libre, Pasar, CpuTypeOK, EstadoCPU
<1>3. CASE DesalojarDummy(c) \/ DesalojarDTB(c)
  <2>1. /\ cpu[c].en \in {"dummy", "esperaDAM"} /\ Hay(damACpu, c)
        /\ damACpu' = Recibir(damACpu, c)
        /\ cpuASafa' = Enviar(cpuASafa, c, [tipo |-> "BloquearDTB", id |-> cpu[c].dtb])
        /\ UNCHANGED <<safaACpu, cpuADam, damASafa>>
    BY <1>3 DEF DesalojarDummy, DesalojarDTB, AvisarSAFA
  <2>2. cpu' = [cpu EXCEPT ![c] = Libre]
    BY <1>1, <1>3, ConQuantumUno DEF DesalojarDummy, DesalojarDTB
  <2>3. /\ ~ Hay(cpuADam, c) /\ damACpu'[c] = <<>>
        /\ \A d \in CPUS \ {c} : damACpu'[d] = damACpu[d]
    BY <2>1, RecibeAcuse
  <2>4. Corre(c)
    BY <2>1 DEF Corre
  <2> QED
    BY <1>2, <2>1, <2>2, <2>3, <2>4, CPUTermina
<1>4. CASE \/ Concentrar(c) \/ AbortarSentencia(c) \/ RetenerRecurso(c)
           \/ LiberarRecurso(c) \/ EsperarAFM9(c)
  <2>1. cpu[c].en = "lee" /\ UNCHANGED <<safaACpu, cpuADam, damACpu, damASafa>>
    BY <1>4 DEF Concentrar, AbortarSentencia, RetenerRecurso, LiberarRecurso, EsperarAFM9, Lee, red
  <2>2. cpu' = [cpu EXCEPT ![c] = Libre] \/ Pasar(c, "colgada")
    BY <1>1, <1>4, <2>1, ConQuantumUno DEF Concentrar, AbortarSentencia, LiberarRecurso,
                                           RetenerRecurso, EsperarAFM9
  <2>3. Corre(c) /\ ~ Hay(cpuADam, c) /\ damACpu[c] = <<>>
    BY <2>1, SinPedido DEF Corre, EsperaAlDAM
  <2>4. damACpu'[c] = <<>> /\ \A d \in CPUS \ {c} : damACpu'[d] = damACpu[d]
    BY <2>1, <2>3
  <2>5. \/ UNCHANGED cpuASafa
        \/ \E t : cpuASafa' = Enviar(cpuASafa, c, [tipo |-> t, id |-> cpu[c].dtb])
    <3>1. CASE Concentrar(c) \/ EsperarAFM9(c)
      BY <3>1 DEF Concentrar, EsperarAFM9, red
    <3>2. CASE AbortarSentencia(c) \/ RetenerRecurso(c) \/ LiberarRecurso(c)
      BY <3>2 DEF AbortarSentencia, RetenerRecurso, LiberarRecurso, AvisarSAFA
    <3> QED  BY <1>4, <3>1, <3>2
  <2> QED
    BY <1>2, <2>1, <2>2, <2>3, <2>4, <2>5, CPUTermina
<1> QED  BY <1>3, <1>4

(* A DTB that is about to be blocked is in a turn. *)
LEMMA PorBloquearLleva ==
    \A d \in CPUS : \A i \in DTB : PorBloquearEn(d, i) => Lleva(d, i)
<1> SUFFICES ASSUME NEW d \in CPUS, NEW i \in DTB, PorBloquearEn(d, i)  PROVE Lleva(d, i)
  OBVIOUS
<1>1. CASE \E k \in DOMAIN cpuASafa[d] : cpuASafa[d][k] = [tipo |-> "BloquearDTB", id |-> i]
  BY <1>1 DEF Lleva, Trae
<1> QED
  BY <1>1 DEF PorBloquearEn, Lleva, Corre, EnHiloCPU

(* The CPU asks the DAM for something: its DTB is not waiting for an answer. *)
LEMMA PideTurno ==
    ASSUME EnMarcha, NEW c \in CPUS, NEW i \in DTB, Lleva(c, i),
           UNCHANGED <<safa, cpuASafa, damACpu, damASafa, dam>>,
           \/ cpu[c].en = "espera" /\ Hay(safaACpu, c)
           \/ cpu[c].en = "lee",
           safaACpu'[c] = <<>>, \A d \in CPUS \ {c} : safaACpu'[d] = safaACpu[d],
           cpu'[c].en \in {"dummy", "esperaDAM"}, cpu'[c].dtb = i,
           cpu'[c].en = "esperaDAM" => iniGDT[i] = 1,
           \A d \in CPUS \ {c} : cpu'[d] = cpu[d],
           NEW m, m.id = i, cpuADam' = Enviar(cpuADam, c, m)
    PROVE  UnTurnoPorVez'
<1>1. SafaInv /\ LugarInv /\ UnTurnoPorVez
  BY DEF EnMarcha
<1>2. /\ UNCHANGED <<com, cpu_libres, iniGDT, id, cola, plp, pcp>>
      /\ LibresDistintas'
      /\ \A j : \A d : EnManos(j, d) => EnManos(j, d)'
      /\ \A j : En(j, "bloqueados")' <=> En(j, "bloqueados")
      /\ \A j : EnReposo(j)' => EnReposo(j)
  BY <1>1, SafaQuieta
<1>3. VueltaDe(c) /\ PedidoDe(c) /\ BanderaDe(c)
  BY <1>1, TurnoPartes DEF UnTurnoPorVez
<1>4. ~ Hay(cpuASafa, c) /\ ~ Ocupado(c) /\ c \notin ToSet(cpu_libres)
  BY <1>3 DEF VueltaDe, Corre
<1>5. ~ EsperaAlDAM(c) /\ ~ Hay(cpuADam, c) /\ damACpu[c] = <<>>
  BY SinPedido DEF EsperaAlDAM
<1>6. /\ cpuADam[c] = <<>> /\ DOMAIN cpuADam[c] = {}
      /\ cpuADam'[c] = <<m>> /\ DOMAIN cpuADam'[c] = {1} /\ cpuADam'[c][1] = m
      /\ Head(cpuADam'[c]) = m /\ Len(cpuADam'[c]) = 1 /\ cpuADam'[c] # <<>>
      /\ \A d \in CPUS \ {c} : cpuADam'[d] = cpuADam[d]
  <2>1. cpuADam \in [CPUS -> Seq(PedidoDAM)]
    BY <1>1 DEF SafaInv, RedTypeOK
  <2> QED  BY <1>5, <2>1, EnviaUno
<1>7. \A d \in CPUS \ {c} : MismaCPU(d)
  BY <1>2, <1>6 DEF MismaCPU
<1>8. DOMAIN <<>> = {} /\ Len(<<>>) = 0
  OBVIOUS
<1>9. VueltaDe(c)' /\ PedidoDe(c)' /\ BanderaDe(c)'
  <2>1. VueltaDe(c)'
    BY <1>2, <1>3, <1>4, <1>8 DEF VueltaDe, Hay, Ocupado
  <2>2. PedidoDe(c)'
    BY <1>3, <1>5, <1>6 DEF PedidoDe, Hay, EsperaAlDAM
  <2>3. BanderaDe(c)'
    BY <1>2, <1>3, <1>8 DEF BanderaDe
  <2> QED  BY <2>1, <2>2, <2>3
<1>10. UnaVuelta' /\ UnPedido'
  <2>1. \A d \in CPUS : VueltaDe(d)' /\ PedidoDe(d)'
    BY <1>1, <1>7, <1>9, OtraCPU, TurnoPartes DEF UnTurnoPorVez
  <2> QED  BY <2>1 DEF UnaVuelta, VueltaDe, UnPedido, PedidoDe
<1>11. BanderaAlDia'
  <2>1. \A d \in CPUS : BanderaDe(d)'
    BY <1>1, <1>2, <1>7, <1>9, OtraCPU, TurnoPartes DEF UnTurnoPorVez
  <2>2. \A j \in DTB : EnReposo(j)' => iniGDT'[j] = 1
    BY <1>1, <1>2, TurnoPartes DEF UnTurnoPorVez
  <2> QED  BY <2>1, <2>2 DEF BanderaAlDia, BanderaDe, EnReposo
<1>12. \A j \in DTB : ~ EnHiloCPU(j, c) /\ ~ PorBloquearEn(c, j)
  <2>1. com[c].en \in {"verifica", "espera"}
    BY <1>4 DEF Ocupado
  <2>2. DOMAIN cpuASafa[c] = {}
    BY <1>4, <1>8 DEF Hay
  <2> QED  BY <1>5, <2>1, <2>2 DEF EnHiloCPU, PorBloquearEn, EsperaAlDAM
<1>13. UnTurno'
  <2>1. \A j \in DTB : Lleva(c, j)' => j = i
    <3>1. DOMAIN cpuASafa[c] = {}
      BY <1>4, <1>8 DEF Hay
    <3> QED  BY <1>2, <1>8, <1>12, <3>1 DEF Lleva, Trae, Corre, EnHiloCPU
  <2>2. \A j \in DTB : \A d \in CPUS : Lleva(d, j)' => Lleva(d, j)
    BY <1>7, <2>1, OtraCPU
  <2> QED
    BY <1>1, <1>2, <2>2, TurnoPartes DEF UnTurnoPorVez, UnTurno, EnManos
<1>14. UnaRespuesta'
  <2>1. (\A d \in CPUS : Lleva(d, i) => d = c) /\ EnManos(i, c)
    BY <1>1, TurnoPartes DEF UnTurnoPorVez
  <2>2. ~ PorBloquear(i)
    BY <1>12, <2>1, PorBloquearLleva DEF PorBloquear
  <2>3. ~ En(i, "bloqueados")
    BY <1>1, <2>1, ConTurno DEF Colas
  <2>4. ~ EnElDAM(i) /\ ~ Respondido(i)
    BY <1>1, <2>2, <2>3 DEF UnTurnoPorVez, UnaRespuesta
  <2>5. PorBloquear(i)'
    BY DEF PorBloquear, PorBloquearEn
  <2>6. \A j \in DTB : PorBloquear(j) => PorBloquear(j)'
    BY <1>7, <1>12, OtraCPU DEF PorBloquear
  <2>7. \A j \in DTB : Pendiente(j)' => Pendiente(j) \/ j = i
    <3>1. \A j \in DTB : Trae(cpuADam, c, j)' => j = i
      BY <1>6 DEF Trae
    <3>2. \A d \in CPUS \ {c} : \A j \in DTB : Trae(cpuADam, d, j)' => Trae(cpuADam, d, j)
      BY <1>7, OtraCPU
    <3> QED  BY <3>1, <3>2 DEF Pendiente
  <2>8. \A j : (EnElDAM(j)' <=> EnElDAM(j)) /\ (Respondido(j)' <=> Respondido(j))
    BY DEF EnElDAM, Respondido
  <2> QED
    BY <1>1, <1>2, <2>4, <2>5, <2>6, <2>7, <2>8 DEF UnTurnoPorVez, UnaRespuesta
<1> QED
  BY <1>2, <1>10, <1>11, <1>13, <1>14 DEF UnTurnoPorVez

(* A DTB message is taken once: it is whole, and its flag is the one SAFA has. *)
LEMMA RecibeMensaje ==
    ASSUME EnMarcha, NEW c \in CPUS, Hay(safaACpu, c), safaACpu' = Recibir(safaACpu, c),
           NEW m, m = Head(safaACpu[c])
    PROVE  /\ m \in MensajeDTB /\ m.id \in DTB /\ Lleva(c, m.id)
           /\ Len(m.archivos) = m.cantidad /\ m.ini = iniGDT[m.id]
           /\ DOMAIN safaACpu[c] = {1} /\ safaACpu[c][1] = m
           /\ safaACpu'[c] = <<>> /\ DOMAIN safaACpu'[c] = {} /\ Len(safaACpu'[c]) = 0
           /\ \A d \in CPUS \ {c} : safaACpu'[d] = safaACpu[d]
<1>1. VueltaDe(c) /\ BanderaDe(c)
  BY TurnoPartes DEF EnMarcha, UnTurnoPorVez
<1>2. safaACpu \in [CPUS -> Seq(MensajeDTB)] /\ Len(safaACpu[c]) <= 1
  BY <1>1 DEF EnMarcha, SafaInv, RedTypeOK, VueltaDe
<1>3. /\ DOMAIN safaACpu[c] = {1} /\ safaACpu[c][1] = m /\ m \in MensajeDTB
      /\ safaACpu'[c] = <<>> /\ DOMAIN safaACpu'[c] = {} /\ Len(safaACpu'[c]) = 0
      /\ \A d \in CPUS \ {c} : safaACpu'[d] = safaACpu[d]
  BY <1>2, RecibeUno
<1>4. Len(m.archivos) = m.cantidad /\ m.ini = iniGDT[m.id]
  BY <1>1, <1>3 DEF EnMarcha, LugarInv, MensajeBienFormado, BanderaDe
<1>5. m.id \in DTB /\ Lleva(c, m.id)
  BY <1>3 DEF MensajeDTB, Lleva, Trae
<1> QED  BY <1>3, <1>4, <1>5

(* The turn begins. *)
LEMMA EmpiezaTurno ==
    ASSUME EnMarcha, NEW c \in CPUS, RecibirDTB(c), UNCHANGED <<safa, dam>>
    PROVE  UnTurnoPorVez'
<1>1. SafaInv /\ LugarInv /\ UnTurnoPorVez /\ CpuTypeOK
  BY DEF EnMarcha
<1>2. /\ cpu[c].en = "espera" /\ Hay(safaACpu, c)
      /\ safaACpu' = Recibir(safaACpu, c)
      /\ UNCHANGED <<cpuASafa, damACpu, damASafa>>
  BY DEF RecibirDTB
<1> DEFINE m == Head(safaACpu[c])
<1>3. /\ m \in MensajeDTB /\ m.id \in DTB /\ Lleva(c, m.id)
      /\ Len(m.archivos) = m.cantidad /\ m.ini = iniGDT[m.id]
      /\ DOMAIN safaACpu[c] = {1} /\ safaACpu[c][1] = m
      /\ safaACpu'[c] = <<>> /\ DOMAIN safaACpu'[c] = {} /\ Len(safaACpu'[c]) = 0
      /\ \A d \in CPUS \ {c} : safaACpu'[d] = safaACpu[d]
  BY <1>2, RecibeMensaje
<1> DEFINE f == [en |-> "lee", dtb |-> m.id, abiertos |-> ToSet(m.archivos), resto |-> QUANTUM]
<1>4. \/ /\ m.ini = 0 /\ cpu' = [cpu EXCEPT ![c] = [f EXCEPT !.en = "dummy"]]
         /\ PedirADAM(c, "AbrirPathParaProceso", m.id, Escriptorio)
      \/ /\ m.ini = 1 /\ cpu' = [cpu EXCEPT ![c] = f]
         /\ UNCHANGED cpuADam
  <2>1. Len(m.archivos) \in Nat /\ m.cantidad \in Nat
    BY <1>3 DEF MensajeDTB
  <2>2. ~ (Len(m.archivos) < m.cantidad)
    BY <1>3, <2>1
  <2> QED  BY <2>2 DEF RecibirDTB
<1>5. PICK i \in DTB : i = m.id /\ Lleva(c, i)
  BY <1>3
<1>6. f.en = "lee" /\ f.dtb = i /\ [f EXCEPT !.en = "dummy"].en = "dummy"
      /\ [f EXCEPT !.en = "dummy"].dtb = i
  BY <1>5
<1>7. CASE m.ini = 0
  <2>1. cpu' = [cpu EXCEPT ![c] = [f EXCEPT !.en = "dummy"]]
    BY <1>4, <1>7
  <2>2. cpu'[c].en = "dummy" /\ cpu'[c].dtb = i /\ \A d \in CPUS \ {c} : cpu'[d] = cpu[d]
    <3> HIDE DEF f
    <3> QED  BY <1>1, <1>6, <2>1 DEF CpuTypeOK
  <2> DEFINE p == [tipo |-> "AbrirPathParaProceso", id |-> i, path |-> Escriptorio]
  <2>3. p.id = i /\ cpuADam' = Enviar(cpuADam, c, p)
    BY <1>4, <1>5, <1>7 DEF PedirADAM
  <2> HIDE DEF p, m, f
  <2> QED
    BY <1>2, <1>3, <1>5, <2>2, <2>3, PideTurno
<1>8. CASE m.ini = 1
  <2>1. cpu'[c].en = "lee" /\ cpu'[c].dtb = i /\ \A d \in CPUS \ {c} : cpu'[d] = cpu[d]
    <3>1. cpu' = [cpu EXCEPT ![c] = f]
      BY <1>4, <1>8
    <3> HIDE DEF f
    <3> QED  BY <1>1, <1>6, <3>1 DEF CpuTypeOK
  <2>2. iniGDT[i] = 1 /\ UNCHANGED cpuADam
    BY <1>3, <1>4, <1>5, <1>8
  <2> HIDE DEF f, m
  <2>3. /\ UNCHANGED <<com, cpu_libres, iniGDT, id, cola, plp, pcp>>
        /\ LibresDistintas'
        /\ \A j : \A d : EnManos(j, d) => EnManos(j, d)'
        /\ \A j : En(j, "bloqueados")' <=> En(j, "bloqueados")
        /\ \A j : EnReposo(j)' => EnReposo(j)
    BY <1>1, SafaQuieta
  <2>4. VueltaDe(c) /\ PedidoDe(c) /\ BanderaDe(c)
    BY <1>1, TurnoPartes DEF UnTurnoPorVez
  <2>5. ~ Hay(cpuASafa, c) /\ ~ Ocupado(c) /\ c \notin ToSet(cpu_libres)
    BY <1>2, <2>4 DEF VueltaDe
  <2>6. ~ EsperaAlDAM(c) /\ ~ Hay(cpuADam, c) /\ damACpu[c] = <<>>
    BY <1>2, SinPedido DEF EsperaAlDAM
  <2>7. VueltaDe(c)'
    BY <1>2, <1>3, <2>3, <2>4, <2>5 DEF VueltaDe, Hay, Ocupado
  <2>8. PedidoDe(c)'
    BY <1>2, <2>2, <2>4, <2>6 DEF PedidoDe, Hay
  <2>9. BanderaDe(c)'
    BY <1>2, <1>3, <2>1, <2>2, <2>3, <2>4 DEF BanderaDe
  <2>10. ASSUME NEW j \in DTB
         PROVE  /\ Lleva(c, j)' => Lleva(c, j)
                /\ Trae(cpuADam, c, j)' => Trae(cpuADam, c, j)
                /\ PorBloquearEn(c, j) => PorBloquearEn(c, j)'
    <3>1. Lleva(c, j)' => Lleva(c, j)
      BY <1>2, <1>3, <1>5, <2>1, <2>3 DEF Lleva, Trae, EnHiloCPU
    <3>2. Trae(cpuADam, c, j)' => Trae(cpuADam, c, j)
      BY <2>2 DEF Trae
    <3>3. PorBloquearEn(c, j) => PorBloquearEn(c, j)'
      BY <1>2, <2>3 DEF PorBloquearEn
    <3> QED  BY <3>1, <3>2, <3>3
  <2>11. \A d \in CPUS : MismaCPU(d) \/ Avanza(d)
    BY <1>2, <1>3, <2>1, <2>2, <2>3, <2>7, <2>8, <2>9, <2>10 DEF MismaCPU, Avanza
  <2>12. \A j \in DTB : EnElDAM(j)' => EnElDAM(j)
    BY DEF EnElDAM
  <2> QED
    BY <1>1, <1>2, <2>3, <2>11, <2>12, PasanTodas
<1> QED  BY <1>4, <1>7, <1>8

(* the sentences that ask the DAM *)
LEMMA SentenciaPide ==
    ASSUME EnMarcha, NEW c \in CPUS, NEW p \in Archivos, UNCHANGED <<safa, dam>>,
           Abrir(c, p) \/ Crear(c, p) \/ Borrar(c, p)
    PROVE  UnTurnoPorVez'
<1>1. CpuTypeOK /\ UnTurnoPorVez
  BY DEF EnMarcha
<1>2. /\ cpu[c].en = "lee" /\ Pasar(c, "esperaDAM")
      /\ UNCHANGED <<safaACpu, cpuASafa, damACpu, damASafa>>
  BY DEF Abrir, Crear, Borrar, Lee
<1>3. PICK i \in DTB : i = cpu[c].dtb /\ Lleva(c, i)
  BY <1>1, <1>2 DEF CpuTypeOK, Lleva, Corre
<1>4. PICK m : m.id = i /\ cpuADam' = Enviar(cpuADam, c, m)
  <2>1. PICK tipo \in {"AbrirPathParaProceso", "CrearLineasEnArchivo",
                       "EliminarArchivoDeDisco", "FlushDeArchivoADisco"} :
           PedirADAM(c, tipo, i, p)
    BY <1>3 DEF Abrir, Crear, Borrar
  <2>2. [tipo |-> tipo, id |-> i, path |-> p].id = i
    OBVIOUS
  <2> QED  BY <2>1, <2>2 DEF PedirADAM
<1>5. /\ cpu'[c].en = "esperaDAM" /\ cpu'[c].dtb = i
      /\ \A d \in CPUS \ {c} : cpu'[d] = cpu[d]
  BY <1>1, <1>2, <1>3 DEF Pasar, CpuTypeOK, EstadoCPU
<1>6. safaACpu[c] = <<>> /\ iniGDT[i] = 1
  BY <1>1, <1>2, <1>3, TurnoPartes DEF UnTurnoPorVez, VueltaDe, BanderaDe, Hay, Corre
<1> QED
  BY <1>2, <1>3, <1>4, <1>5, <1>6, PideTurno

LEMMA CPUTurno ==
    ASSUME EnMarcha, QUANTUM = 1, NEW c \in CPUS, PasoCPU(c) \/ SentenciaCPU(c),
           UNCHANGED <<safa, dam>>
    PROVE  UnTurnoPorVez'
  BY EmpiezaTurno, AcabaTurno, SentenciaPide DEF PasoCPU, SentenciaCPU

-----------------------------------------------------------------------------
(* The DAM *)

(* A request on its way is the one its CPU waits for. *)
LEMMA PedidoDeQuien ==
    ASSUME EnMarcha, NEW d \in CPUS, NEW i \in DTB, Trae(cpuADam, d, i)
    PROVE  /\ EsperaAlDAM(d) /\ cpu[d].dtb = i /\ Lleva(d, i) /\ Hay(cpuADam, d)
           /\ cpuADam[d][1].id = i
<1>1. PedidoDe(d)
  BY TurnoPartes DEF EnMarcha, UnTurnoPorVez
<1>2. cpuADam[d] \in Seq(PedidoDAM) /\ Len(cpuADam[d]) <= 1
  BY <1>1 DEF EnMarcha, SafaInv, RedTypeOK, PedidoDe
<1>3. PICK k \in DOMAIN cpuADam[d] : cpuADam[d][k].id = i
  BY DEF Trae
<1>4. k = 1 /\ cpuADam[d] # <<>> /\ Head(cpuADam[d]) = cpuADam[d][1]
  BY <1>2, <1>3
<1>5. EsperaAlDAM(d) /\ cpu[d].dtb = i
  BY <1>1, <1>3, <1>4 DEF PedidoDe, Hay
<1> QED
  BY <1>3, <1>4, <1>5 DEF Lleva, Corre, EsperaAlDAM, Hay

(* What the DAM does changes nothing of the turns themselves. *)
LEMMA DAMQuieto ==
    ASSUME UnTurnoPorVez, UNCHANGED <<safa, cpu, safaACpu, cpuASafa>>, UnPedido', UnaRespuesta'
    PROVE  UnTurnoPorVez'
<1>1. /\ UNCHANGED <<com, cpu_libres, iniGDT, id, cola, plp, pcp>>
      /\ LibresDistintas'
  BY SafaQuieta
<1>2. UnaVuelta' /\ BanderaAlDia'
  BY <1>1 DEF UnTurnoPorVez, UnaVuelta, Hay, Corre, Ocupado, BanderaAlDia, Existe, En
<1>3. UnTurno'
  BY <1>1 DEF UnTurnoPorVez, UnTurno, Lleva, Trae, Corre, EnHiloCPU, En, Saliendo
<1> QED
  BY <1>1, <1>2, <1>3 DEF UnTurnoPorVez

(* the DAM takes a request *)
LEMMA AtiendeTurno ==
    ASSUME EnMarcha, NEW c \in CPUS, Atiende(c), UNCHANGED <<safa, cpu>>
    PROVE  UnTurnoPorVez'
<1>1. SafaInv /\ LugarInv /\ UnTurnoPorVez
  BY DEF EnMarcha
<1>2. /\ dam.en = "select" /\ Hay(cpuADam, c) /\ cpuADam' = Recibir(cpuADam, c)
      /\ UNCHANGED <<safaACpu, cpuASafa, damASafa>>
  BY DEF Atiende, OperacionAbrirPath, OperacionCrearArchivo, OperacionIncompleta, Toma
<1>3. PedidoDe(c) /\ cpuADam \in [CPUS -> Seq(PedidoDAM)]
  BY <1>1, TurnoPartes DEF UnTurnoPorVez, SafaInv, RedTypeOK
<1>4. /\ DOMAIN cpuADam[c] = {1} /\ cpuADam[c][1] = Head(cpuADam[c])
      /\ Head(cpuADam[c]) \in PedidoDAM
      /\ cpuADam'[c] = <<>> /\ DOMAIN cpuADam'[c] = {} /\ Len(cpuADam'[c]) = 0
      /\ \A d \in CPUS \ {c} : cpuADam'[d] = cpuADam[d]
  BY <1>2, <1>3, RecibeUno DEF PedidoDe
<1>5. PICK i \in DTB : i = Head(cpuADam[c]).id /\ Trae(cpuADam, c, i)
  BY <1>4 DEF PedidoDAM, Trae
<1>6. EsperaAlDAM(c) /\ cpu[c].dtb = i /\ Lleva(c, i)
  BY <1>5, PedidoDeQuien
<1>7. /\ dam'.en \in {"carga", "informa", "colgado"}
      /\ dam'.en # "colgado" => dam'.respuesta.id = i
  <2>1. CASE dam' = [dam EXCEPT !.en = "colgado"]
    BY <2>1 DEF EnMarcha, DamTypeOK
  <2>2. ASSUME NEW e \in {"carga", "informa"}, NEW op, NEW res,
               dam' = [en |-> e, respuesta |-> Respuesta(op, res, Head(cpuADam[c]))]
        PROVE  dam'.en = e /\ dam'.respuesta.id = i
    BY <1>5, <2>2 DEF Respuesta
  <2> QED
    BY <2>1, <2>2 DEF Atiende, OperacionAbrirPath, OperacionCrearArchivo, OperacionIncompleta
<1>8. \/ UNCHANGED damACpu
      \/ damACpu' = Enviar(damACpu, c, "Ejecutandose")
  BY DEF Atiende, OperacionAbrirPath, OperacionCrearArchivo, OperacionIncompleta
<1>9. ~ Hay(damACpu, c) /\ damACpu \in [CPUS -> Seq({"Ejecutandose"})]
  BY <1>1, <1>2, <1>3 DEF PedidoDe, SafaInv, RedTypeOK
<1>10. Len(damACpu'[c]) <= 1 /\ \A d \in CPUS \ {c} : damACpu'[d] = damACpu[d]
  <2>1. CASE UNCHANGED damACpu
    BY <1>3, <2>1 DEF PedidoDe
  <2>2. CASE damACpu' = Enviar(damACpu, c, "Ejecutandose")
    <3>1. Len(damACpu'[c]) = 1 /\ \A d \in CPUS \ {c} : damACpu'[d] = damACpu[d]
      BY <1>9, <2>2, EnviaUno
    <3> QED  BY <3>1
  <2> QED  BY <1>8, <2>1, <2>2
<1>11. UnPedido'
  <2>1. PedidoDe(c)'
    BY <1>4, <1>6, <1>10 DEF PedidoDe, Hay, EsperaAlDAM
  <2>2. \A d \in CPUS \ {c} : PedidoDe(d)'
    BY <1>1, <1>4, <1>10, TurnoPartes DEF UnTurnoPorVez, PedidoDe, Hay, EsperaAlDAM
  <2> QED  BY <2>1, <2>2 DEF UnPedido, PedidoDe
<1>12. UnaRespuesta'
  <2>1. \A j \in DTB : EnElDAM(j)' => j = i
    BY <1>7 DEF EnElDAM
  <2>2. \A j \in DTB : Pendiente(j)' => Pendiente(j) /\ j # i
    <3> SUFFICES ASSUME NEW j \in DTB, NEW d \in CPUS, Trae(cpuADam, d, j)'
                 PROVE  Trae(cpuADam, d, j) /\ j # i
      BY DEF Pendiente, Trae
    <3>1. d # c /\ Trae(cpuADam, d, j)
      BY <1>4 DEF Trae
    <3>2. Lleva(d, j)
      BY <3>1, PedidoDeQuien
    <3>3. \A e \in CPUS : Lleva(e, i) => e = c
      BY <1>1, <1>6, TurnoPartes DEF UnTurnoPorVez
    <3> QED  BY <3>1, <3>2, <3>3
  <2>3. Pendiente(i)
    BY <1>5 DEF Pendiente
  <2>4. PorBloquear(i)'
    BY <1>6 DEF PorBloquear, PorBloquearEn, EsperaAlDAM
  <2>5. UNCHANGED com /\ UNCHANGED cola
    BY <1>1, SafaQuieta
  <2>6. \A j \in DTB : PorBloquear(j) => PorBloquear(j)'
    BY <1>2, <2>5 DEF PorBloquear, PorBloquearEn
  <2>7. \A j : (Respondido(j)' <=> Respondido(j)) /\ (En(j, "bloqueados")' <=> En(j, "bloqueados"))
    BY <1>2, <2>5 DEF Respondido, En
  <2> QED
    BY <1>1, <1>2, <2>1, <2>2, <2>3, <2>4, <2>6, <2>7 DEF UnTurnoPorVez, UnaRespuesta
<1> QED
  BY <1>1, <1>2, <1>11, <1>12, DAMQuieto

(* the DAM has the answer, and gives it *)
LEMMA RespondeTurno ==
    ASSUME EnMarcha, CargarEnFM9(FM9_colgado) \/ InformarASafa, UNCHANGED <<safa, cpu>>
    PROVE  UnTurnoPorVez'
<1>1. SafaInv /\ LugarInv /\ UnTurnoPorVez /\ dam.respuesta \in RespuestaDAM
  BY DEF EnMarcha, DamTypeOK
<1>2. UNCHANGED <<safaACpu, cpuASafa, cpuADam, damACpu>>
  BY DEF CargarEnFM9, InformarASafa, red
<1>3. UnPedido'
  BY <1>1, <1>2 DEF UnTurnoPorVez, UnPedido, Hay, EsperaAlDAM
<1>4. UNCHANGED com /\ UNCHANGED cola
  BY <1>1, SafaQuieta
<1>5. \A j : /\ Pendiente(j)' <=> Pendiente(j)
             /\ PorBloquear(j)' <=> PorBloquear(j)
             /\ En(j, "bloqueados")' <=> En(j, "bloqueados")
  BY <1>2, <1>4 DEF Pendiente, Trae, PorBloquear, PorBloquearEn, En
<1>6. UnaRespuesta'
  <2>1. CASE CargarEnFM9(FM9_colgado)
    <3>1. UNCHANGED damASafa
      BY <2>1 DEF CargarEnFM9, red
    <3>2. dam.en = "carga" /\ dam'.en = "informa" /\ dam'.respuesta.id = dam.respuesta.id
      BY <1>1, <2>1 DEF CargarEnFM9, RespuestaDAM
    <3>3. \A j : (EnElDAM(j)' <=> EnElDAM(j)) /\ (Respondido(j)' <=> Respondido(j))
      BY <3>1, <3>2 DEF EnElDAM, Respondido
    <3> QED
      BY <1>1, <1>5, <3>1, <3>3 DEF UnTurnoPorVez, UnaRespuesta
  <2>2. CASE InformarASafa
    <3>1. PICK i \in DTB : i = dam.respuesta.id /\ EnElDAM(i)
      BY <1>1, <2>2 DEF InformarASafa, RespuestaDAM, EnElDAM
    <3>2. damASafa \in Seq(RespuestaDAM) /\ damASafa' = Append(damASafa, dam.respuesta)
      BY <1>1, <2>2 DEF InformarASafa, SafaInv, RedTypeOK
    <3>3. /\ Len(damASafa) \in Nat /\ DOMAIN damASafa = 1 .. Len(damASafa)
          /\ DOMAIN damASafa' = 1 .. Len(damASafa) + 1
          /\ \A k \in DOMAIN damASafa : damASafa'[k] = damASafa[k]
          /\ damASafa'[Len(damASafa) + 1].id = i
      BY <3>1, <3>2
    <3>4. \A j : ~ EnElDAM(j)'
      BY <2>2 DEF InformarASafa, EnElDAM, EnMarcha, DamTypeOK
    <3>5. \A j : Respondido(j)' <=> Respondido(j) \/ j = i
      BY <3>3 DEF Respondido
    <3>6. ~ Respondido(i) /\ ~ Pendiente(i)
      BY <1>1, <3>1 DEF UnTurnoPorVez, UnaRespuesta
    <3>7. ASSUME NEW j \in DOMAIN damASafa', NEW k \in DOMAIN damASafa',
                 damASafa'[j].id = damASafa'[k].id
          PROVE  j = k
      <4>1. \A n \in DOMAIN damASafa : damASafa[n].id # i
        BY <3>6 DEF Respondido
      <4>2. \/ j \in DOMAIN damASafa /\ k \in DOMAIN damASafa
            \/ j = Len(damASafa) + 1 /\ k = Len(damASafa) + 1
        BY <3>3, <3>7, <4>1
      <4> QED  BY <1>1, <3>3, <3>7, <4>2 DEF UnTurnoPorVez, UnaRespuesta
    <3> QED
      BY <1>1, <1>5, <3>1, <3>4, <3>5, <3>6, <3>7 DEF UnTurnoPorVez, UnaRespuesta
  <2> QED  BY <2>1, <2>2
<1> QED
  BY <1>1, <1>2, <1>3, <1>6, DAMQuieto

LEMMA DAMTurno ==
    ASSUME EnMarcha, PasoDAM, UNCHANGED <<safa, cpu>>
    PROVE  UnTurnoPorVez'
  BY AtiendeTurno, RespondeTurno DEF PasoDAM

-----------------------------------------------------------------------------
(* The inductive invariant of the turns *)

LEMMA TurnoInit ==
    Init => UnTurnoPorVez
<1> SUFFICES ASSUME Init PROVE UnTurnoPorVez
  OBVIOUS
<1>1. /\ safaACpu = [c \in CPUS |-> <<>>] /\ cpuASafa = [c \in CPUS |-> <<>>]
      /\ cpuADam = [c \in CPUS |-> <<>>] /\ damACpu = [c \in CPUS |-> <<>>]
      /\ damASafa = <<>>
      /\ com = [c \in CPUS |-> [en |-> "fuera", dtb |-> NULO]]
      /\ cpu_libres = <<>> /\ iniGDT = [i \in DTB |-> 1]
      /\ cpu = [c \in CPUS |-> Libre]
      /\ dam.en = "select"
  BY DEF Init, RedInit, SafaInit, CpuInit, DamInit
<1>2. DOMAIN <<>> = {} /\ Len(<<>>) = 0 /\ ToSet(<<>>) = {} /\ Libre.en = "espera"
  BY DEF ToSet, Libre
<1>3. UnaVuelta /\ UnPedido /\ LibresDistintas
  BY <1>1, <1>2 DEF UnaVuelta, UnPedido, LibresDistintas, Hay, Corre
<1>4. \A c \in CPUS : \A i \in DTB : ~ Lleva(c, i)
  BY <1>1, <1>2 DEF Lleva, Trae, Corre, EnHiloCPU
<1>5. UnTurno
  BY <1>4 DEF UnTurno
<1>6. UnaRespuesta
  BY <1>1, <1>2 DEF UnaRespuesta, EnElDAM, Respondido, Pendiente, Trae
<1>7. BanderaAlDia
  BY <1>1, <1>2 DEF BanderaAlDia
<1> QED  BY <1>3, <1>5, <1>6, <1>7 DEF UnTurnoPorVez

(* Every step keeps the turns as long as SAFA is alive after it. *)
LEMMA TurnoNext ==
    ASSUME EnMarcha, Next, ~ caida',
           ALGORITMO # "VRR", "finalizar" \notin Comandos, QUANTUM = 1
    PROVE  UnTurnoPorVez'
<1>1. ~ Caer
  BY DEF Caer
<1>2. CASE PasoSafa /\ UNCHANGED <<cpu, FM9_colgado, dam>>
  <2>1. Consola => EjecutarEscriptorio
    BY DEF Consola, FinalizarBusca, FinalizarEspera, FinalizarDTB, EnMarcha, LugarInv
  <2> QED
    BY <1>1, <1>2, <2>1, ConexionTurno, EjecutarTurno, HiloDMATurno, HiloPLPTurno, HiloPCPTurno,
       HiloCPUTurno DEF PasoSafa
<1>3. ASSUME NEW c \in CPUS, PasoCPU(c) \/ SentenciaCPU(c), UNCHANGED <<safa, dam>>
      PROVE  UnTurnoPorVez'
  BY <1>3, CPUTurno
<1>4. CASE PasoDAM /\ UNCHANGED <<safa, cpu, FM9_colgado>>
  BY <1>4, DAMTurno
<1> QED  BY <1>2, <1>3, <1>4 DEF Next

(* Only the PLP takes scripts out of "nuevos". *)
LEMMA PLPConUnoNext ==
    ASSUME SafaInv, LugarInv, PLPConUno, Next, "finalizar" \notin Comandos
    PROVE  PLPConUno'
<1>1. ColasOK(cola)
  BY DEF SafaInv, SafaTypeOK
<1>2. CASE HiloPLP
  <2>1. plp'.en = "toma" => \/ UNCHANGED <<plp, cola>>
                            \/ PLPDecide /\ cola["nuevos"] # <<>>
    <3>1. plp \in EnPLP
      BY DEF SafaInv, SafaTypeOK
    <3> QED
      BY <1>2, <3>1 DEF HiloPLP, PLPDespierta, PLPGrado, PLPDecide, PLPToma, PLPAgrega, EnPLP,
                        Caer, hilos
  <2> QED
    BY <2>1 DEF PLPConUno, PLPDecide
<1>3. ASSUME UNCHANGED plp, UNCHANGED cola \/ cola'["nuevos"] = cola["nuevos"] \/ EjecutarEscriptorio
      PROVE  PLPConUno'
  <2>1. CASE EjecutarEscriptorio
    <3>1. cola'["nuevos"] = Append(cola["nuevos"], id) /\ cola["nuevos"] \in Seq(DTB)
      BY <1>1, <2>1 DEF EjecutarEscriptorio, Agregar, ColasOK, Colas
    <3> QED  BY <3>1 DEF PLPConUno
  <2> QED  BY <1>3, <2>1 DEF PLPConUno
<1>4. ASSUME UNCHANGED safa  PROVE PLPConUno'
  BY <1>3, <1>4 DEF safa, hilos
<1>5. CASE Conexion \/ HiloPCP \/ HiloDMA \/ \E c \in CPUS : HiloCPU(c)
  <2>1. UNCHANGED plp
    BY <1>5 DEF Conexion, AceptarDAM, ArrancarHiloDMA, AceptarCPU, ConectarCPU, PasarSafaOperativo,
       HiloPCP, PCPDespierta, PCPRevisa, PCPElige, PCPBusca, PCPDespacha, PCPQuita, PCPAgrega,
       HiloDMA, OperacionNoFinalizada, AbrirPathFinalizadoOk, OperacionFinalizadaOk,
       HiloCPU, BloquearDTB, AbortarDTB, PedirRecurso, CrearRecurso, AnotarDummy,
       AgregarBloqueado, AgregarTerminado, LiberarCPU, Caer, hilos
  <2>2. /\ \A q \in Colas \ {"nuevos"} : \A i : Agregar(cola, q, i)["nuevos"] = cola["nuevos"]
        /\ \A q \in Colas \ {"nuevos"} : \A i : Sacar(q, i)["nuevos"] = cola["nuevos"]
        /\ \A q, r \in Colas \ {"nuevos"} : \A i : Mover(i, q, r)["nuevos"] = cola["nuevos"]
    BY <1>1 DEF Agregar, Sacar, Mover, ColasOK, Colas
  <2>3. {"ejecutando", "bloqueados", "terminados", "listos", "auxVirtualRR"}
           \subseteq Colas \ {"nuevos"} /\ ColaListos \in Colas \ {"nuevos"}
    BY DEF Colas, ColaListos
  <2>4. UNCHANGED cola \/ cola'["nuevos"] = cola["nuevos"]
    <3>1. CASE Conexion
      BY <3>1 DEF Conexion, AceptarDAM, ArrancarHiloDMA, AceptarCPU, ConectarCPU,
                  PasarSafaOperativo
    <3>2. CASE HiloPCP
      BY <1>1, <2>2, <2>3, <3>2 DEF HiloPCP, PCPDespierta, PCPRevisa, PCPElige, PCPBusca,
         PCPDespacha, PCPQuita, PCPAgrega, Caer, ColasOK, Colas
    <3>3. CASE HiloDMA
      BY <2>2, <2>3, <3>3 DEF HiloDMA, OperacionNoFinalizada, AbrirPathFinalizadoOk,
         OperacionFinalizadaOk, Caer
    <3>4. CASE \E c \in CPUS : HiloCPU(c)
      BY <2>2, <2>3, <3>4 DEF HiloCPU, BloquearDTB, AbortarDTB, PedirRecurso, CrearRecurso,
         AnotarDummy, AgregarBloqueado, AgregarTerminado, LiberarCPU, Caer
    <3> QED  BY <1>5, <3>1, <3>2, <3>3, <3>4
  <2> QED  BY <1>3, <2>1, <2>4
<1>6. CASE Consola
  <2>1. EjecutarEscriptorio
    BY <1>6 DEF Consola, FinalizarBusca, FinalizarEspera, FinalizarDTB, LugarInv
  <2> QED  BY <1>3, <2>1 DEF EjecutarEscriptorio, hilos
<1> QED
  BY <1>2, <1>4, <1>5, <1>6 DEF Next, PasoSafa

LEMMA UnaCPU ==
    CpuTypeOK /\ UnTurno => UnaCPUPorDTB
<1> SUFFICES ASSUME CpuTypeOK, UnTurno,
                    NEW c \in CPUS, NEW d \in CPUS, Corre(c), Corre(d), cpu[c].dtb = cpu[d].dtb
             PROVE  c = d
  BY DEF UnaCPUPorDTB
<1>1. PICK i \in DTB : i = cpu[c].dtb
  BY DEF CpuTypeOK, Corre
<1>2. Lleva(c, i) /\ Lleva(d, i)
  BY <1>1 DEF Lleva
<1> QED  BY <1>2 DEF UnTurno

LEMMA InvTurnosInit ==
    Init => InvTurnos
<1> SUFFICES ASSUME Init PROVE InvTurnos
  OBVIOUS
<1>1. InvLugar /\ UnTurnoPorVez
  BY InvLugarInit, TurnoInit
<1>2. UnaCPUPorDTB
  BY <1>1, UnaCPU DEF InvLugar, InvDummy, TypeOK, UnTurnoPorVez
<1>3. PLPConUno
  BY DEF Init, SafaInit, PLPConUno
<1> QED  BY <1>1, <1>2, <1>3 DEF InvTurnos

LEMMA EnMarchaSi ==
    ASSUME InvTurnos, ~ caida
    PROVE  EnMarcha
  BY InvLugarPartes DEF InvTurnos, EnMarcha, InvDummy, TypeOK, SafaInv

LEMMA InvTurnosNext ==
    ASSUME ALGORITMO # "VRR", "finalizar" \notin Comandos, QUANTUM = 1
    PROVE  InvTurnos /\ [Next]_vars => InvTurnos'
<1>1. ASSUME InvTurnos, Next  PROVE InvTurnos'
  <2>1. InvLugar'
    BY <1>1, InvLugarNext DEF InvTurnos
  <2>2. EnMarcha
    BY <1>1, EnMarchaSi DEF Next
  <2>3. PLPConUno'
    BY <1>1, <2>2, PLPConUnoNext DEF EnMarcha, InvTurnos
  <2>4. ~ caida' => UnTurnoPorVez'
    BY <1>1, <2>2, TurnoNext
  <2>5. UnaCPUPorDTB'
    <3>1. CASE ~ caida'
      <4>1. CpuTypeOK' /\ UnTurno'
        BY <2>1, <2>4, <3>1 DEF InvLugar, InvDummy, TypeOK, UnTurnoPorVez
      <4>2. (CpuTypeOK /\ UnTurno => UnaCPUPorDTB)'
        BY UnaCPU, PTL
      <4> QED  BY <4>1, <4>2
    <3>2. CASE UNCHANGED cpu
      BY <1>1, <3>2 DEF InvTurnos, UnaCPUPorDTB, Corre
    <3>3. CASE UNCHANGED caida
      <4> QED  BY <1>1, <3>1, <3>3 DEF Next
    <3> QED
      BY <1>1, <3>2, <3>3 DEF Next, safa
  <2> QED  BY <2>1, <2>3, <2>4, <2>5 DEF InvTurnos
<1>2. ASSUME InvTurnos, UNCHANGED vars  PROVE InvTurnos'
  <2>1. InvLugar'
    BY <1>2, InvLugarNext DEF InvTurnos
  <2>2. UNCHANGED <<cpu, dam, cola, plp, pcp, com, cpu_libres, iniGDT, id, caida>>
    BY <1>2 DEF vars, safa, hilos, cpus, datosDTB
  <2>3. UNCHANGED <<safaACpu, cpuASafa, cpuADam, damACpu, damASafa>>
    BY <1>2 DEF vars, red
  <2>4. PLPConUno' /\ UnaCPUPorDTB'
    BY <1>2, <2>2 DEF InvTurnos, PLPConUno, UnaCPUPorDTB, Corre
  <2>5. UnTurnoPorVez => UnaVuelta' /\ LibresDistintas' /\ UnPedido' /\ BanderaAlDia'
    BY <2>2, <2>3 DEF UnTurnoPorVez, UnaVuelta, LibresDistintas, UnPedido, BanderaAlDia, Hay,
                      Corre, Ocupado, EsperaAlDAM, Existe, En
  <2>6. UnTurnoPorVez => UnTurno' /\ UnaRespuesta'
    BY <2>2, <2>3 DEF UnTurnoPorVez, UnTurno, UnaRespuesta, Lleva, Trae, Corre, EnHiloCPU, En,
                      Saliendo, EnElDAM, Respondido, Pendiente, PorBloquear, PorBloquearEn
  <2>7. UnTurnoPorVez => UnTurnoPorVez'
    BY <2>5, <2>6 DEF UnTurnoPorVez
  <2> QED  BY <1>2, <2>1, <2>2, <2>4, <2>7 DEF InvTurnos
<1> QED  BY <1>1, <1>2

(* While SAFA lives every CPU is in one stage of one turn, and what travels   *)
(* between the processes agrees with what SAFA has: as long as a turn is one  *)
(* sentence.                                                                  *)
THEOREM InvarianteDelTurno ==
    ASSUME ALGORITMO # "VRR", "finalizar" \notin Comandos, QUANTUM = 1
    PROVE  Spec => []InvTurnos
<1> QED
  BY InvTurnosInit, InvTurnosNext, PTL DEF Spec

(* No two CPUs run one script, although SAFA sends it before it takes it out  *)
(* of "listos" (funcionesSafa.c:1135) and hears of its end through another    *)
(* connection.                                                                *)
THEOREM UnaSolaCPU ==
    ASSUME ALGORITMO # "VRR", "finalizar" \notin Comandos, QUANTUM = 1
    PROVE  Spec => []UnaCPUPorDTB
<1>1. InvTurnos => UnaCPUPorDTB
  BY DEF InvTurnos
<1> QED
  BY <1>1, InvarianteDelTurno, PTL

-----------------------------------------------------------------------------
(* How SAFA dies *)

(* the three ways CaidaSoloPorAdelanto admits *)
RespuestaAdelantada ==
    damASafa # <<>> /\ damASafa' = Tail(damASafa) /\ PorBloquear(Head(damASafa).id)

AvisoAdelantado == pcp.en \in {"quita", "agrega"} /\ Informado(pcp.dtb)

YaRota == \E c \in CPUS : AbortaNulo(c) \/ PideRecurso(c)

(* A message of a CPU about a DTB that is not in "ejecutando" has overtaken    *)
(* the PCP.                                                                  *)
LEMMA AvisoAntes ==
    ASSUME EnMarcha, NEW c \in CPUS, NEW tipos, Recibe(c, tipos),
           ~ En(Head(cpuASafa[c]).id, "ejecutando")
    PROVE  AvisoAdelantado
<1>1. Head(cpuASafa[c]).id \in DTB /\ Hay(cpuASafa, c)
  BY RecibeOK DEF EnMarcha, SafaInv, Recibe
<1>2. PICK i \in DTB : i = Head(cpuASafa[c]).id
  BY <1>1
<1>3. com[c].en = "espera" /\ Lleva(c, i)
  BY <1>2, RecibeAviso
<1>4. EnManos(i, c) /\ ~ EnHiloCPU(i, c)
  BY <1>3, TurnoPartes DEF EnMarcha, UnTurnoPorVez, EnHiloCPU
<1>5. Saliendo(i)
  BY <1>2, <1>4 DEF EnManos
<1> QED
  BY <1>1, <1>2, <1>5 DEF Saliendo, AvisoAdelantado, Informado

LEMMA CaidaHiloCPU ==
    ASSUME EnMarcha, NEW c \in CPUS, HiloCPU(c), ~ caida,
           caida' \/ \E d \in CPUS : AbortaNulo(d)'
    PROVE  AvisoAdelantado \/ YaRota
<1>1. ComOK(com)
  BY DEF EnMarcha, SafaInv, SafaTypeOK
<1>2. ASSUME \A d \in CPUS \ {c} : com'[d] = com[d], ~ caida', ~ AbortaNulo(c)'
      PROVE  YaRota
  BY <1>2 DEF AbortaNulo, YaRota
<1>3. ASSUME NEW e, com' = [com EXCEPT ![c].en = e], ~ caida', e \in {"termina", "libera"} =>
               AbortaNulo(c) \/ com[c].dtb # NULO
      PROVE  YaRota
  <2>1. /\ com'[c].en = e /\ com'[c].dtb = com[c].dtb
        /\ \A d \in CPUS \ {c} : com'[d] = com[d]
    BY <1>1, <1>3, HiloSigue
  <2>2. AbortaNulo(c)' => AbortaNulo(c)
    BY <1>3, <2>1 DEF AbortaNulo
  <2> QED  BY <1>2, <1>3, <2>1, <2>2 DEF YaRota
<1>4. CASE BloquearDTB(c)
  <2>1. Recibe(c, {"BloquearDTB"})
    BY <1>4 DEF BloquearDTB
  <2>2. CASE ~ En(Head(cpuASafa[c]).id, "ejecutando")
    BY <2>1, <2>2, AvisoAntes
  <2>3. CASE En(Head(cpuASafa[c]).id, "ejecutando")
    <3>1. com' = [com EXCEPT ![c] = [en |-> "anota", dtb |-> Head(cpuASafa[c]).id]] /\ ~ caida'
      BY <1>4, <2>3 DEF BloquearDTB
    <3>2. com'[c].en = "anota" /\ \A d \in CPUS \ {c} : com'[d] = com[d]
      BY <1>1, <3>1 DEF ComOK
    <3> QED  BY <1>2, <3>1, <3>2 DEF AbortaNulo
  <2> QED  BY <2>2, <2>3
<1>5. CASE AbortarDTB(c)
  <2>1. Recibe(c, {"AbortarDTB"})
    BY <1>5 DEF AbortarDTB
  <2>2. CASE ~ En(Head(cpuASafa[c]).id, "ejecutando")
    BY <2>1, <2>2, AvisoAntes
  <2>3. CASE En(Head(cpuASafa[c]).id, "ejecutando")
    <3>1. com' = [com EXCEPT ![c] = [en |-> "termina", dtb |-> Head(cpuASafa[c]).id]] /\ ~ caida'
      BY <1>5, <2>3 DEF AbortarDTB
    <3>2. Head(cpuASafa[c]).id # NULO
      BY <2>1, RecibeOK, DTBNoNulo DEF EnMarcha, SafaInv, Recibe
    <3>3. /\ com'[c].dtb = Head(cpuASafa[c]).id
          /\ \A d \in CPUS \ {c} : com'[d] = com[d]
      BY <1>1, <3>1 DEF ComOK
    <3> QED  BY <1>2, <3>1, <3>2, <3>3 DEF AbortaNulo
  <2> QED  BY <2>2, <2>3
<1>6. CASE PedirRecurso(c) \/ CrearRecurso(c)
  BY <1>6 DEF PedirRecurso, CrearRecurso, Recibe, YaRota, PideRecurso
<1>7. CASE AnotarDummy(c)
  BY <1>3, <1>7 DEF AnotarDummy
<1>8. CASE AgregarBloqueado(c)
  <2>1. com[c].dtb # NULO
    BY <1>1, <1>8, DTBNoNulo DEF ComOK, AgregarBloqueado
  <2> QED  BY <1>3, <1>8, <2>1 DEF AgregarBloqueado
<1>9. CASE AgregarTerminado(c)
  BY <1>3, <1>9 DEF AgregarTerminado, AbortaNulo
<1>10. CASE LiberarCPU(c)
  <2>1. com' = [com EXCEPT ![c] = [en |-> "espera", dtb |-> NULO]] /\ caida' = (com[c].dtb = NULO)
        /\ com[c].en = "libera"
    BY <1>10 DEF LiberarCPU
  <2>2. com'[c].en = "espera" /\ \A d \in CPUS \ {c} : com'[d] = com[d]
    BY <1>1, <2>1, HiloToma
  <2>3. caida' => AbortaNulo(c)
    BY <2>1 DEF AbortaNulo
  <2> QED  BY <1>2, <2>2, <2>3 DEF AbortaNulo, YaRota
<1> QED
  BY <1>4, <1>5, <1>6, <1>7, <1>8, <1>9, <1>10 DEF HiloCPU

LEMMA CaidaNext ==
    ASSUME InvTurnos, Next, caida' \/ \E d \in CPUS : AbortaNulo(d)',
           ALGORITMO # "VRR", "finalizar" \notin Comandos
    PROVE  RespuestaAdelantada \/ AvisoAdelantado \/ YaRota
<1>1. EnMarcha /\ SafaInv /\ LugarInv /\ ~ caida /\ ComOK(com)
  BY EnMarchaSi DEF Next, EnMarcha, SafaInv, SafaTypeOK
<1>2. ASSUME UNCHANGED com, ~ caida'  PROVE YaRota
  BY <1>2 DEF AbortaNulo, YaRota
<1>3. ASSUME UNCHANGED safa  PROVE YaRota
  BY <1>1, <1>2, <1>3 DEF safa, hilos
<1>4. CASE Conexion
  <2>1. ~ caida'
    BY <1>1, <1>4 DEF Conexion, AceptarDAM, ArrancarHiloDMA, AceptarCPU, ConectarCPU,
                      PasarSafaOperativo
  <2>2. CASE UNCHANGED com
    BY <1>2, <2>1, <2>2
  <2>3. ASSUME NEW c \in CPUS, com'[c].en \notin {"termina", "libera"},
               \A d \in CPUS \ {c} : com'[d] = com[d]
        PROVE  YaRota
    BY <2>1, <2>3 DEF AbortaNulo, YaRota
  <2>4. CASE AceptarDAM \/ ArrancarHiloDMA
    BY <2>2, <2>4 DEF AceptarDAM, ArrancarHiloDMA
  <2>5. CASE \E c \in CPUS : AceptarCPU(c) \/ ConectarCPU(c) \/ PasarSafaOperativo(c)
    <3>1. PICK c \in CPUS : AceptarCPU(c) \/ ConectarCPU(c) \/ PasarSafaOperativo(c)
      BY <2>5
    <3>2. CASE AceptarCPU(c)
      <4>1. com' = [com EXCEPT ![c].en = "conecta"]
        BY <3>2 DEF AceptarCPU
      <4>2. com'[c].en = "conecta" /\ \A d \in CPUS \ {c} : com'[d] = com[d]
        BY <1>1, <4>1 DEF ComOK
      <4> QED  BY <2>3, <4>2
    <3>3. CASE ConectarCPU(c)
      <4>1. com' = [com EXCEPT ![c].en = "verifica"]
        BY <3>3 DEF ConectarCPU
      <4>2. com'[c].en = "verifica" /\ \A d \in CPUS \ {c} : com'[d] = com[d]
        BY <1>1, <4>1 DEF ComOK
      <4> QED  BY <2>3, <4>2
    <3>4. CASE PasarSafaOperativo(c)
      <4>1. com' = [com EXCEPT ![c].en = "espera"]
        BY <3>4 DEF PasarSafaOperativo
      <4>2. com'[c].en = "espera" /\ \A d \in CPUS \ {c} : com'[d] = com[d]
        BY <1>1, <4>1 DEF ComOK
      <4> QED  BY <2>3, <4>2
    <3> QED  BY <3>1, <3>2, <3>3, <3>4
  <2> QED
    BY <1>4, <2>4, <2>5 DEF Conexion
<1>5. CASE Consola
  <2>1. EjecutarEscriptorio
    BY <1>1, <1>5 DEF Consola, FinalizarBusca, FinalizarEspera, FinalizarDTB, LugarInv
  <2> QED  BY <1>1, <1>2, <2>1 DEF EjecutarEscriptorio, hilos
<1>6. CASE HiloDMA
  <2>1. UNCHANGED com /\ RecibeDAM
    BY <1>6 DEF HiloDMA, OperacionNoFinalizada, AbrirPathFinalizadoOk, OperacionFinalizadaOk,
                Caer, hilos
  <2>2. caida' => ~ En(Head(damASafa).id, "bloqueados")
    BY <1>1, <1>6 DEF HiloDMA, OperacionNoFinalizada, AbrirPathFinalizadoOk, OperacionFinalizadaOk
  <2>3. PICK i \in DTB : i = Head(damASafa).id /\ Respondido(i)
    <3>1. /\ damASafa \in Seq(RespuestaDAM) /\ damASafa # <<>>
      BY <1>1, <2>1 DEF SafaInv, RedTypeOK, RecibeDAM
    <3>2. Head(damASafa) \in RespuestaDAM /\ 1 \in DOMAIN damASafa /\ Head(damASafa) = damASafa[1]
      BY <3>1
    <3> QED  BY <3>2 DEF RespuestaDAM, Respondido
  <2>4. caida' => PorBloquear(i)
    BY <1>1, <2>2, <2>3 DEF EnMarcha, UnTurnoPorVez, UnaRespuesta
  <2> QED
    BY <1>2, <2>1, <2>3, <2>4 DEF RespuestaAdelantada, RecibeDAM
<1>7. CASE HiloPLP
  <2>1. UNCHANGED com
    BY <1>7 DEF HiloPLP, PLPDespierta, PLPGrado, PLPDecide, PLPToma, PLPAgrega, Caer, hilos
  <2>2. ~ caida'
    BY <1>1, <1>7 DEF HiloPLP, PLPDespierta, PLPGrado, PLPDecide, PLPToma, PLPAgrega, InvTurnos,
                      PLPConUno
  <2> QED  BY <1>2, <2>1, <2>2
<1>8. CASE HiloPCP
  <2>1. UNCHANGED com
    BY <1>8 DEF HiloPCP, PCPDespierta, PCPRevisa, PCPElige, PCPBusca, PCPDespacha, PCPQuita,
                PCPAgrega, Caer, hilos
  <2>2. pcp.en = "elige" => ListaAPlanificar # <<>>
    BY <1>1 DEF LugarInv, PCPConElPrimero, ListasSinUso, ListaAPlanificar
  <2>3. pcp.en \in {"despacha", "quita"} => cola["listos"] # <<>> /\ pcp.dtb # NULO
    <3> SUFFICES ASSUME pcp.en \in {"despacha", "quita"}
                 PROVE  cola["listos"] # <<>> /\ pcp.dtb # NULO
      OBVIOUS
    <3>1. cola["listos"] # <<>> /\ Head(cola["listos"]) = pcp.dtb
      BY <1>1 DEF LugarInv, PCPConElPrimero
    <3>2. pcp.dtb \in DTB
      BY <1>1, <3>1, CabezaOK DEF SafaInv, SafaTypeOK, Colas
    <3> QED  BY <3>1, <3>2, DTBNoNulo
  <2>4. ~ caida'
    BY <1>1, <1>8, <2>2, <2>3 DEF HiloPCP, PCPDespierta, PCPRevisa, PCPElige, PCPBusca, PCPDespacha,
                            PCPQuita, PCPAgrega
  <2> QED  BY <1>2, <2>1, <2>4
<1>9. CASE \E c \in CPUS : HiloCPU(c)
  BY <1>1, <1>9, CaidaHiloCPU
<1> QED
  BY <1>3, <1>4, <1>5, <1>6, <1>7, <1>8, <1>9 DEF Next, PasoSafa

(* SAFA dies of a NULL only when a message overtakes the bookkeeping it        *)
(* refers to, or of a resource: no other order of the steps of its threads,    *)
(* the CPUs and the DAM kills it (funcionesSafa.c:424, 482, 530, 1040, 1118).  *)
THEOREM MuereSoloPorAdelanto ==
    ASSUME ALGORITMO # "VRR", "finalizar" \notin Comandos, QUANTUM = 1
    PROVE  Spec => CaidaSoloPorAdelanto
<1>1. InvTurnos /\ [Next]_vars =>
        [caida' \/ (\E c \in CPUS : AbortaNulo(c)') =>
           \/ damASafa # <<>> /\ damASafa' = Tail(damASafa) /\ PorBloquear(Head(damASafa).id)
           \/ pcp.en \in {"quita", "agrega"} /\ Informado(pcp.dtb)
           \/ \E c \in CPUS : AbortaNulo(c) \/ PideRecurso(c)]_vars
  BY CaidaNext DEF RespuestaAdelantada, AvisoAdelantado, YaRota
<1> QED
  BY <1>1, InvarianteDelTurno, PTL DEF Spec, CaidaSoloPorAdelanto

-----------------------------------------------------------------------------
(* The life of a script *)

(* The phases of CicloPlanificacion, CPU by CPU. *)
EnCarga(i) == dam.en = "carga" /\ dam.respuesta.id = i

CorreEn(i, c) == \/ cpu[c].en = "lee" /\ cpu[c].dtb = i
                 \/ Trae(safaACpu, c, i)

AvisaAborto(i, c) ==
    \E k \in DOMAIN cpuASafa[c] : cpuASafa[c][k] = [tipo |-> "AbortarDTB", id |-> i]

AbortaEn(i, c) == \/ com[c].en = "termina" /\ com[c].dtb = i
                  \/ AvisaAborto(i, c)

Enviado(i) == pcp.en = "quita" /\ pcp.dtb = i

LEMMA FasePorCPU ==
    \A i : /\ Pide(i) <=> EnCarga(i) \/ \E c \in CPUS : Trae(cpuADam, c, i)
           /\ EnCPU(i) <=> \E c \in CPUS : CorreEn(i, c)
           /\ Aborta(i) <=> \E c \in CPUS : AbortaEn(i, c)
           /\ Contestado(i) <=> (dam.en = "informa" /\ dam.respuesta.id = i) \/ Respondido(i)
           /\ EsperaTurno(i) <=>
                (En(i, "listos") \/ En(i, "auxVirtualRR") \/ EnPLPde(i)) /\ ~ Enviado(i)
  BY DEF Pide, EnCarga, Trae, EnCPU, CorreEn, Aborta, AbortaEn, AvisaAborto, Contestado, Respondido, EsperaTurno,
         EnPLPde, Enviado

Vive(i) == Existe(i) /\ ~ En(i, "nuevos") /\ ~ En(i, "terminados")

Fases == {"sinCrear", "nuevo", "fin", "contestado", "pide", "corre", "aborta", "listo", "perdido"}

(* Phase f, and no sign of another one. *)
SoloFase(i, f) ==
    /\ f = "sinCrear"   <=> ~ Existe(i)
    /\ f = "nuevo"      <=> En(i, "nuevos")
    /\ f = "fin"        <=> En(i, "terminados")
    /\ f = "contestado" <=> Contestado(i)
    /\ f = "pide"       <=> Pide(i)
    /\ f = "corre"      <=> EnCPU(i)
    /\ f = "aborta"     <=> Aborta(i)
    /\ f = "listo"      <=> EsperaTurno(i)

FaseFijada(i) == \A f \in Fases : SoloFase(i, f) => Fase(i) = f

LEMMA FaseDe ==
    SafaTypeOK => \A i \in DTB : FaseFijada(i)
<1> SUFFICES ASSUME SafaTypeOK, NEW i \in DTB, NEW f \in Fases, SoloFase(i, f)
             PROVE  Fase(i) = f
  BY DEF FaseFijada
<1>1. i >= id <=> ~ Existe(i)
  BY RedAssumption DEF SafaTypeOK, DTB, Existe
<1>2. CASE f = "sinCrear"    BY <1>1, <1>2 DEF Fase, SoloFase
<1>3. CASE f = "nuevo"       BY <1>1, <1>3 DEF Fase, SoloFase
<1>4. CASE f = "fin"         BY <1>1, <1>4 DEF Fase, SoloFase
<1>5. CASE f = "contestado"  BY <1>1, <1>5 DEF Fase, SoloFase
<1>6. CASE f = "pide"        BY <1>1, <1>6 DEF Fase, SoloFase
<1>7. CASE f = "corre"       BY <1>1, <1>7 DEF Fase, SoloFase
<1>8. CASE f = "aborta"      BY <1>1, <1>8 DEF Fase, SoloFase
<1>9. CASE f = "listo"       BY <1>1, <1>9 DEF Fase, SoloFase
<1>10. CASE f = "perdido"    BY <1>1, <1>10 DEF Fase, SoloFase
<1> QED
  BY <1>2, <1>3, <1>4, <1>5, <1>6, <1>7, <1>8, <1>9, <1>10 DEF Fases

(* A message about a script says that no list or message says otherwise. *)
LEMMA EnTurno ==
    ASSUME EnMarcha, NEW c \in CPUS, NEW i \in DTB, Lleva(c, i)
    PROVE  /\ \A d \in CPUS : Lleva(d, i) => d = c
           /\ Vive(i) /\ ~ En(i, "bloqueados") /\ ~ EsperaTurno(i)
<1>1. EnManos(i, c) /\ \A d \in CPUS : Lleva(d, i) => d = c
  BY TurnoPartes DEF EnMarcha, UnTurnoPorVez
<1>2. /\ Existe(i) /\ ~ EnPLPde(i)
      /\ \A q \in Colas \ {"ejecutando", "listos"} : ~ En(i, q)
      /\ En(i, "listos") => Enviado(i)
  BY <1>1, ConTurno DEF EnMarcha, Enviado
<1> QED
  BY <1>1, <1>2, FasePorCPU DEF Vive, Colas

(* The DAM has something of a script only while the script waits for it. *)
LEMMA EnEspera ==
    ASSUME EnMarcha, NEW i \in DTB, Contestado(i) \/ Pide(i)
    PROVE  /\ Vive(i) /\ ~ EsperaTurno(i)
           /\ En(i, "bloqueados") => \A c \in CPUS : ~ Lleva(c, i)
           /\ \A c \in CPUS : Lleva(c, i) => PorBloquearEn(c, i)
           /\ Pide(i) => ~ Contestado(i)
<1>1. /\ EnElDAM(i) \/ Respondido(i) \/ Pendiente(i)
      /\ Pide(i) => ~ Contestado(i)
  BY FasePorCPU DEF EnMarcha, UnTurnoPorVez, UnaRespuesta, EnElDAM, Pendiente, EnCarga
<1>2. PorBloquear(i) \/ En(i, "bloqueados")
  BY <1>1 DEF EnMarcha, UnTurnoPorVez, UnaRespuesta
<1>3. CASE En(i, "bloqueados")
  <2>1. SoloEnCola(i, "bloqueados") /\ Existe(i)
    BY <1>3, EstaSolo DEF EnMarcha, LugarInv, Colas
  <2>2. ~ EsperaTurno(i) /\ Vive(i)
    BY <2>1, FasePorCPU DEF SoloEnCola, Vive, Colas
  <2>3. \A c \in CPUS : ~ Lleva(c, i)
    BY <1>3, EnTurno
  <2> QED  BY <1>1, <2>2, <2>3
<1>4. CASE PorBloquear(i)
  <2>1. PICK c \in CPUS : PorBloquearEn(c, i)
    BY <1>4 DEF PorBloquear
  <2>2. Lleva(c, i)
    BY <2>1, PorBloquearLleva
  <2>3. /\ \A d \in CPUS : Lleva(d, i) => d = c
        /\ Vive(i) /\ ~ En(i, "bloqueados") /\ ~ EsperaTurno(i)
    BY <2>2, EnTurno
  <2> QED  BY <1>1, <2>1, <2>3
<1> QED
  BY <1>2, <1>3, <1>4

(* A CPU that runs a script, or says that it ends, does not say that it waits. *)
LEMMA SinBloquear ==
    ASSUME EnMarcha, NEW c \in CPUS, NEW i \in DTB, CorreEn(i, c) \/ AbortaEn(i, c)
    PROVE  /\ Lleva(c, i) /\ ~ PorBloquearEn(c, i)
           /\ ~ (CorreEn(i, c) /\ AbortaEn(i, c))
<1>1. VueltaDe(c)
  BY TurnoPartes DEF EnMarcha, UnTurnoPorVez
<1>2. Lleva(c, i)
  BY DEF CorreEn, AbortaEn, AvisaAborto, Lleva, Trae, Corre, EnHiloCPU
<1>3. CorreEn(i, c) => Hay(safaACpu, c) \/ (Corre(c) /\ cpu[c].en = "lee")
  <2>1. DOMAIN <<>> = {}
    OBVIOUS
  <2> QED  BY <2>1 DEF CorreEn, Trae, Hay, Corre
<1>4. /\ \A k \in DOMAIN cpuASafa[c] : Hay(cpuASafa, c)
      /\ \A k, l \in DOMAIN cpuASafa[c] : k = l
  <2>1. DOMAIN <<>> = {}
    OBVIOUS
  <2>2. cpuASafa[c] \in Seq(MensajeCPU) /\ Len(cpuASafa[c]) <= 1
    BY <1>1 DEF VueltaDe, EnMarcha, SafaInv, RedTypeOK
  <2> QED  BY <2>1, <2>2 DEF Hay
<1>5. AbortaEn(i, c) => com[c].en = "termina" \/ Hay(cpuASafa, c)
  BY <1>4 DEF AbortaEn, AvisaAborto
<1>6. ~ (CorreEn(i, c) /\ AbortaEn(i, c))
  BY <1>1, <1>3, <1>5 DEF VueltaDe, Ocupado
<1>7. CorreEn(i, c) => ~ PorBloquearEn(c, i)
  BY <1>1, <1>3, <1>4 DEF VueltaDe, Ocupado, PorBloquearEn, Corre
<1>8. AbortaEn(i, c) => ~ PorBloquearEn(c, i)
  BY <1>1, <1>4, <1>5 DEF VueltaDe, Ocupado, PorBloquearEn, AbortaEn, AvisaAborto, Corre
<1> QED
  BY <1>2, <1>6, <1>7, <1>8

(* Until SAFA dies the lists and the messages agree on the phase of each script. *)
LEMMA FaseClara ==
    EnMarcha => \A i \in DTB : Fase(i) \in Fases /\ SoloFase(i, Fase(i))
<1> SUFFICES ASSUME EnMarcha, NEW i \in DTB  PROVE \E f \in Fases : SoloFase(i, f)
  BY FaseDe DEF EnMarcha, SafaInv, FaseFijada
<1>1. SafaTypeOK /\ Ubicados
  BY DEF EnMarcha, SafaInv, LugarInv
<1>2. /\ En(i, "nuevos") => Existe(i) /\ ~ En(i, "terminados")
      /\ En(i, "terminados") => Existe(i) /\ ~ En(i, "nuevos")
  BY <1>1, EstaSolo DEF SoloEnCola, Colas
<1>3. Contestado(i) => Vive(i)
  BY EnEspera
<1>4. Pide(i) => Vive(i) /\ ~ Contestado(i)
  BY EnEspera
<1>5. EnCPU(i) => Vive(i) /\ ~ Contestado(i) /\ ~ Pide(i)
  BY FasePorCPU, SinBloquear, EnTurno, EnEspera
<1>6. Aborta(i) => Vive(i) /\ ~ Contestado(i) /\ ~ Pide(i) /\ ~ EnCPU(i)
  <2> SUFFICES ASSUME NEW c \in CPUS, AbortaEn(i, c)
               PROVE  Vive(i) /\ ~ Contestado(i) /\ ~ Pide(i) /\ ~ EnCPU(i)
    BY FasePorCPU
  <2>1. Lleva(c, i) /\ ~ PorBloquearEn(c, i) /\ ~ CorreEn(i, c)
    BY SinBloquear
  <2>2. Vive(i) /\ \A d \in CPUS : Lleva(d, i) => d = c
    BY <2>1, EnTurno
  <2>3. \A d \in CPUS : CorreEn(i, d) => Lleva(d, i)
    BY SinBloquear
  <2> QED  BY <2>1, <2>2, <2>3, EnEspera, FasePorCPU
<1>7. EsperaTurno(i) => /\ Vive(i) /\ ~ Contestado(i) /\ ~ Pide(i) /\ ~ EnCPU(i) /\ ~ Aborta(i)
  <2> SUFFICES ASSUME EsperaTurno(i)
               PROVE  Vive(i) /\ ~ Contestado(i) /\ ~ Pide(i) /\ ~ EnCPU(i) /\ ~ Aborta(i)
    OBVIOUS
  <2>1. Vive(i)
    BY <1>1, EstaSolo, FasePorCPU DEF SoloEnCola, SoloEnPLP, Vive, Colas
  <2>2. ~ EnCPU(i) /\ ~ Aborta(i)
    BY FasePorCPU, SinBloquear, EnTurno
  <2> QED  BY <2>1, <2>2, EnEspera
<1> DEFINE f == IF ~ Existe(i) THEN "sinCrear" ELSE IF En(i, "nuevos") THEN "nuevo"
                ELSE IF En(i, "terminados") THEN "fin" ELSE IF Contestado(i) THEN "contestado"
                ELSE IF Pide(i) THEN "pide" ELSE IF EnCPU(i) THEN "corre"
                ELSE IF Aborta(i) THEN "aborta" ELSE IF EsperaTurno(i) THEN "listo"
                ELSE "perdido"
<1> QED
  BY <1>2, <1>3, <1>4, <1>5, <1>6, <1>7 DEF Fases, SoloFase, Vive
-----------------------------------------------------------------------------
(* What a step does to the phases *)

MismaFase(j) ==
    /\ Existe(j)' <=> Existe(j)
    /\ En(j, "nuevos")' <=> En(j, "nuevos")
    /\ En(j, "terminados")' <=> En(j, "terminados")
    /\ Contestado(j)' <=> Contestado(j)
    /\ Pide(j)' <=> Pide(j)
    /\ EnCPU(j)' <=> EnCPU(j)
    /\ Aborta(j)' <=> Aborta(j)
    /\ EsperaTurno(j)' <=> EsperaTurno(j)

LEMMA FaseDeLuego ==
    SafaTypeOK' => \A i \in DTB : FaseFijada(i)'
<1>1. (SafaTypeOK => \A i \in DTB : FaseFijada(i))'
  BY FaseDe, PTL
<1> QED
  BY <1>1

LEMMA FaseSigue ==
    ASSUME EnMarcha, SafaTypeOK', NEW j \in DTB, MismaFase(j)
    PROVE  Fase(j)' = Fase(j)
<1>1. PICK g \in Fases : g = Fase(j) /\ SoloFase(j, g)
  BY FaseClara
<1>2. SoloFase(j, g)'
  BY <1>1 DEF SoloFase, MismaFase
<1> QED
  BY <1>1, <1>2, FaseDeLuego DEF FaseFijada

LEMMA FaseLuego ==
    ASSUME InvTurnos', ~ caida'
    PROVE  \A i \in DTB : Fase(i)' \in Fases /\ SoloFase(i, Fase(i))'
<1>1. (InvTurnos /\ ~ caida => EnMarcha)'
  BY EnMarchaSi, PTL
<1>2. (EnMarcha => \A i \in DTB : Fase(i) \in Fases /\ SoloFase(i, Fase(i)))'
  BY FaseClara, PTL
<1> QED
  BY <1>1, <1>2

(* Script i passes from one phase to another, and no other one does. *)
Cambia(i, de, a) == /\ Fase(i) = de /\ Fase(i)' = a
                    /\ \A j \in DTB \ {i} : Fase(j)' = Fase(j)

PasoDelCiclo == [Ciclo!CicloNext]_(Ciclo!ciclo)

LEMMA CicloQuieto ==
    ASSUME \A j \in DTB : Fase(j)' = Fase(j), UNCHANGED Dummies
    PROVE  PasoDelCiclo
<1>1. [j \in DTB |-> Fase(j)]' = [j \in DTB |-> Fase(j)]
  OBVIOUS
<1> QED
  BY <1>1 DEF PasoDelCiclo, Ciclo!ciclo

LEMMA CicloPasa ==
    ASSUME NEW i \in DTB, NEW de, NEW a, Cambia(i, de, a)
    PROVE  Ciclo!Pasa(i, de, a)
<1>1. [j \in DTB |-> Fase(j)]' = [[j \in DTB |-> Fase(j)] EXCEPT ![i] = a]
  BY DEF Cambia
<1> QED
  BY <1>1 DEF Cambia, Ciclo!Pasa

LEMMA CicloPasos ==
    ASSUME NEW i \in DTB, NEW de, NEW a, Cambia(i, de, a), UNCHANGED Dummies,
           \/ de = "sinCrear" /\ a = "nuevo"
           \/ de = "corre" /\ (a = "pide" \/ (i \notin Dummies /\ a \in {"aborta", "perdido"}))
           \/ de = "pide" /\ a \in {"contestado", "perdido"}
           \/ de = "contestado" /\ (a = "perdido" \/ (i \notin Dummies /\ a \in {"listo", "fin"}))
           \/ de = "aborta" /\ (a = "perdido" \/ (i \notin Dummies /\ a = "fin"))
    PROVE  PasoDelCiclo
<1>1. Ciclo!Pasa(i, de, a)
  BY CicloPasa
<1>2. \/ Ciclo!Crear(i) \/ Ciclo!Correr(i) \/ Ciclo!Contestar(i) \/ Ciclo!Reanudar(i)
      \/ Ciclo!Terminar(i) \/ Ciclo!Perder(i)
  <2>1. CASE de = "sinCrear"    BY <1>1, <2>1 DEF Ciclo!Crear
  <2>2. CASE de = "corre"       BY <1>1, <2>2 DEF Ciclo!Correr
  <2>3. CASE de = "pide"        BY <1>1, <2>3 DEF Ciclo!Contestar, Ciclo!Perder
  <2>4. CASE de = "contestado"  BY <1>1, <2>4 DEF Ciclo!Reanudar, Ciclo!Terminar, Ciclo!Perder
  <2>5. CASE de = "aborta"      BY <1>1, <2>5 DEF Ciclo!Terminar, Ciclo!Perder
  <2> QED  BY <2>1, <2>2, <2>3, <2>4, <2>5
<1> QED
  BY <1>2 DEF PasoDelCiclo, Ciclo!CicloNext

(* The steps of SAFA's threads, for a script they leave where it is ... *)
LEMMA FaseEnSafa ==
    ASSUME NEW j, UNCHANGED <<id, cpu, dam, safaACpu, cpuADam>>,
           \A q \in {"nuevos", "terminados", "listos", "auxVirtualRR"} : En(j, q)' <=> En(j, q),
           EnPLPde(j)' <=> EnPLPde(j), Enviado(j)' <=> Enviado(j),
           Respondido(j)' <=> Respondido(j),
           \A c \in CPUS : AbortaEn(j, c)' <=> AbortaEn(j, c)
    PROVE  MismaFase(j)
<1>1. Aborta(j)' <=> Aborta(j)
  BY DEF Aborta, AbortaEn, AvisaAborto
<1>2. Contestado(j)' <=> Contestado(j)
  BY DEF Contestado, Respondido
<1>3. EsperaTurno(j)' <=> EsperaTurno(j)
  BY DEF EsperaTurno, EnPLPde, Enviado
<1>4. (Pide(j)' <=> Pide(j)) /\ (EnCPU(j)' <=> EnCPU(j)) /\ (Existe(j)' <=> Existe(j))
  BY DEF Pide, EnCPU, Existe
<1> QED
  BY <1>1, <1>2, <1>3, <1>4 DEF MismaFase

(* ... and the steps of the CPUs and the DAM. *)
LEMMA FaseEnRed ==
    ASSUME NEW j, UNCHANGED safa, Contestado(j)' <=> Contestado(j), EnCarga(j)' <=> EnCarga(j),
           \A c \in CPUS : /\ CorreEn(j, c)' <=> CorreEn(j, c)
                           /\ AbortaEn(j, c)' <=> AbortaEn(j, c)
                           /\ Trae(cpuADam, c, j)' <=> Trae(cpuADam, c, j)
    PROVE  MismaFase(j)
<1>1. UNCHANGED <<id, cola, plp, pcp>>
  BY DEF safa, datosDTB, hilos
<1>2. Aborta(j)' <=> Aborta(j)
  BY DEF Aborta, AbortaEn, AvisaAborto
<1>3. EnCPU(j)' <=> EnCPU(j)
  BY DEF EnCPU, CorreEn, Trae
<1>4. Pide(j)' <=> Pide(j)
  BY DEF Pide, EnCarga, Trae
<1> QED
  BY <1>1, <1>2, <1>3, <1>4 DEF MismaFase, Existe, En, EsperaTurno

LEMMA CicloSinCambio ==
    ASSUME EnMarcha, SafaTypeOK', \A j \in DTB : MismaFase(j), UNCHANGED iniGDT
    PROVE  PasoDelCiclo
<1>1. UNCHANGED Dummies
  BY DEF Dummies
<1> QED
  BY <1>1, FaseSigue, CicloQuieto

(* Nothing, or something about script i only. *)
LEMMA CicloConCambio ==
    ASSUME EnMarcha, SafaTypeOK', NEW i \in DTB, \A j \in DTB \ {i} : MismaFase(j)
    PROVE  Cambia(i, Fase(i), Fase(i)')
<1>1. \A j \in DTB \ {i} : Fase(j)' = Fase(j)
  BY FaseSigue
<1> QED
  BY <1>1 DEF Cambia

-----------------------------------------------------------------------------
(* The threads of SAFA that serve the CPUs *)

LEMMA FaseEnHilo ==
    ASSUME NEW j, UNCHANGED <<id, plp, pcp, cpu, dam, safaACpu, cpuADam, damASafa>>,
           \A q \in {"nuevos", "terminados", "listos", "auxVirtualRR"} : En(j, q)' <=> En(j, q),
           \A c \in CPUS : AbortaEn(j, c)' <=> AbortaEn(j, c)
    PROVE  MismaFase(j)
<1>1. /\ EnPLPde(j)' <=> EnPLPde(j)
      /\ Enviado(j)' <=> Enviado(j)
      /\ Respondido(j)' <=> Respondido(j)
  BY DEF EnPLPde, Enviado, Respondido
<1> QED
  BY <1>1, FaseEnSafa

(* A message a CPU thread takes is the only one of its connection. *)
LEMMA TomaAviso ==
    ASSUME EnMarcha, NEW c \in CPUS, NEW tipos, Recibe(c, tipos),
           NEW i \in DTB, i = Head(cpuASafa[c]).id
    PROVE  \A j : /\ \A d \in CPUS \ {c} : AvisaAborto(j, d)' <=> AvisaAborto(j, d)
                  /\ ~ AvisaAborto(j, c)'
                  /\ AvisaAborto(j, c) <=> Head(cpuASafa[c]).tipo = "AbortarDTB" /\ j = i
<1>1. /\ DOMAIN cpuASafa[c] = {1} /\ cpuASafa[c][1] = Head(cpuASafa[c])
      /\ Head(cpuASafa[c]) \in MensajeCPU
      /\ DOMAIN cpuASafa'[c] = {}
      /\ \A d \in CPUS \ {c} : cpuASafa'[d] = cpuASafa[d]
  BY RecibeAviso
<1>2. ASSUME NEW m \in MensajeCPU, NEW j
      PROVE  m = [tipo |-> "AbortarDTB", id |-> j] <=> m.tipo = "AbortarDTB" /\ m.id = j
  BY <1>2 DEF MensajeCPU
<1>3. ASSUME NEW j  PROVE AvisaAborto(j, c) <=> Head(cpuASafa[c]).tipo = "AbortarDTB" /\ j = i
  BY <1>1, <1>2 DEF AvisaAborto
<1> QED
  BY <1>1, <1>3 DEF AvisaAborto

(* A step of the thread of CPU c that takes part in the end of no script. *)
LEMMA HiloSinAborto ==
    ASSUME EnMarcha, SafaTypeOK', NEW c \in CPUS,
           UNCHANGED <<id, plp, pcp, cpu, dam, safaACpu, cpuADam, damASafa>>,
           \A j \in DTB : \A q \in {"nuevos", "terminados", "listos", "auxVirtualRR"} :
              En(j, q)' <=> En(j, q),
           com[c].en # "termina" \/ com[c].dtb = NULO,
           com'[c].en # "termina" \/ com'[c].dtb = NULO,
           \A d \in CPUS \ {c} : com'[d] = com[d],
           \A j \in DTB : \A d \in CPUS : AvisaAborto(j, d)' <=> AvisaAborto(j, d)
    PROVE  \A j \in DTB : MismaFase(j)
<1> SUFFICES ASSUME NEW j \in DTB  PROVE MismaFase(j)
  OBVIOUS
<1>1. j # NULO
  BY DTBNoNulo
<1>2. \A d \in CPUS : AbortaEn(j, d)' <=> AbortaEn(j, d)
  BY <1>1 DEF AbortaEn
<1> QED
  BY <1>2, FaseEnHilo

LEMMA BloquearCiclo ==
    ASSUME EnMarcha, SafaTypeOK', NEW c \in CPUS, BloquearDTB(c), UNCHANGED <<cpu, dam>>
    PROVE  PasoDelCiclo
<1>1. ComOK(com) /\ ColasOK(cola) /\ "ejecutando" \in Colas
  BY DEF EnMarcha, SafaInv, SafaTypeOK, Colas
<1>2. PICK i \in DTB : i = Head(cpuASafa[c]).id /\ Recibe(c, {"BloquearDTB"})
  BY RecibeOK DEF EnMarcha, SafaInv, BloquearDTB
<1>3. /\ com[c].en = "espera" /\ Head(cpuASafa[c]).tipo = "BloquearDTB"
      /\ UNCHANGED <<id, iniGDT, plp, pcp, safaACpu, cpuADam, damASafa>>
  BY <1>2 DEF BloquearDTB, Recibe, Caer, datosDTB, hilos
<1>4. \A j : \A d \in CPUS : AvisaAborto(j, d)' <=> AvisaAborto(j, d)
  BY <1>2, <1>3, TomaAviso
<1>5. \A q \in Colas \ {"ejecutando"} : cola'[q] = cola[q]
  BY <1>1, <1>2 DEF BloquearDTB, Caer, Sacar, ColasOK
<1>6. com'[c].en # "termina" /\ \A d \in CPUS \ {c} : com'[d] = com[d]
  <2>1. CASE Caer
    BY <1>3, <2>1 DEF Caer, hilos
  <2>2. CASE com' = [com EXCEPT ![c] = [en |-> "anota", dtb |-> i]]
    BY <1>1, <2>2 DEF ComOK
  <2> QED  BY <1>2, <2>1, <2>2 DEF BloquearDTB
<1>7. \A j : \A q \in {"nuevos", "terminados", "listos", "auxVirtualRR"} : En(j, q)' <=> En(j, q)
  BY <1>5 DEF En, Colas
<1>8. \A j \in DTB : MismaFase(j)
  BY <1>3, <1>4, <1>6, <1>7, HiloSinAborto
<1> QED
  BY <1>3, <1>8, CicloSinCambio

LEMMA RecursoCiclo ==
    ASSUME EnMarcha, SafaTypeOK', NEW c \in CPUS, PedirRecurso(c) \/ CrearRecurso(c),
           UNCHANGED <<cpu, dam>>
    PROVE  PasoDelCiclo
<1>1. ComOK(com)
  BY DEF EnMarcha, SafaInv, SafaTypeOK
<1>2. /\ com[c].en \in {"espera", "recibeRecurso"}
      /\ UNCHANGED <<id, iniGDT, cola, plp, pcp, safaACpu, cpuADam, damASafa>>
  BY DEF PedirRecurso, CrearRecurso, Recibe, Caer, datosDTB, hilos, red
<1>3. \A j : \A d \in CPUS : AvisaAborto(j, d)' <=> AvisaAborto(j, d)
  <2>1. CASE CrearRecurso(c)
    BY <2>1 DEF CrearRecurso, red, AvisaAborto
  <2>2. CASE PedirRecurso(c)
    <3>1. Recibe(c, {"RetenerRecurso", "LiberarRecurso"})
      BY <2>2 DEF PedirRecurso
    <3>2. PICK i \in DTB : i = Head(cpuASafa[c]).id
      BY <3>1, RecibeOK DEF EnMarcha, SafaInv
    <3>3. Head(cpuASafa[c]).tipo # "AbortarDTB"
      BY <3>1 DEF Recibe
    <3> QED  BY <3>1, <3>2, <3>3, TomaAviso
  <2> QED  BY <2>1, <2>2
<1>4. com'[c].en # "termina" /\ \A d \in CPUS \ {c} : com'[d] = com[d]
  <2>1. CASE Caer
    BY <1>2, <2>1 DEF Caer, hilos
  <2>2. CASE com' = [com EXCEPT ![c].en = "recibeRecurso"]
    BY <1>1, <2>2 DEF ComOK
  <2> QED  BY <2>1, <2>2 DEF PedirRecurso, CrearRecurso
<1>5. \A j : \A q \in {"nuevos", "terminados", "listos", "auxVirtualRR"} : En(j, q)' <=> En(j, q)
  BY <1>2 DEF En
<1>6. \A j \in DTB : MismaFase(j)
  BY <1>2, <1>3, <1>4, <1>5, HiloSinAborto
<1> QED
  BY <1>2, <1>6, CicloSinCambio

LEMMA DejarCiclo ==
    ASSUME EnMarcha, SafaTypeOK', NEW c \in CPUS, AgregarBloqueado(c) \/ LiberarCPU(c),
           UNCHANGED <<cpu, dam>>
    PROVE  PasoDelCiclo
<1>1. ComOK(com) /\ ColasOK(cola)
  BY DEF EnMarcha, SafaInv, SafaTypeOK
<1>2. /\ com[c].en \in {"bloquea", "libera"}
      /\ UNCHANGED <<id, iniGDT, plp, pcp, safaACpu, cpuASafa, cpuADam, damASafa>>
  BY DEF AgregarBloqueado, LiberarCPU, datosDTB, red
<1>3. \A j : \A d \in CPUS : AvisaAborto(j, d)' <=> AvisaAborto(j, d)
  BY <1>2 DEF AvisaAborto
<1>4. com'[c].en # "termina" /\ \A d \in CPUS \ {c} : com'[d] = com[d]
  <2>1. CASE com' = [com EXCEPT ![c].en = "libera"]
    BY <1>1, <2>1 DEF ComOK
  <2>2. CASE com' = [com EXCEPT ![c] = [en |-> "espera", dtb |-> NULO]]
    BY <1>1, <2>2 DEF ComOK
  <2> QED  BY <2>1, <2>2 DEF AgregarBloqueado, LiberarCPU
<1>5. \A q \in Colas \ {"bloqueados"} : cola'[q] = cola[q]
  BY <1>1 DEF AgregarBloqueado, LiberarCPU, Agregar, ColasOK, Colas
<1>6. \A j : \A q \in {"nuevos", "terminados", "listos", "auxVirtualRR"} : En(j, q)' <=> En(j, q)
  BY <1>5 DEF En, Colas
<1>7. \A j \in DTB : MismaFase(j)
  BY <1>2, <1>3, <1>4, <1>6, HiloSinAborto
<1> QED
  BY <1>2, <1>7, CicloSinCambio

(* SAFA hears that the dummy waits: its first turn is over. *)
LEMMA AnotarCiclo ==
    ASSUME EnMarcha, SafaTypeOK', NEW c \in CPUS, AnotarDummy(c), UNCHANGED <<cpu, dam>>
    PROVE  PasoDelCiclo
<1>1. ComOK(com) /\ iniGDT \in [DTB -> {0, 1}]
  BY DEF EnMarcha, SafaInv, SafaTypeOK
<1>2. PICK i \in DTB : i = com[c].dtb /\ com[c].en = "anota"
  BY <1>1 DEF AnotarDummy, ComOK
<1>3. /\ UNCHANGED <<id, cola, plp, pcp, safaACpu, cpuASafa, cpuADam, damASafa>>
      /\ iniGDT' = [iniGDT EXCEPT ![i] = 1]
      /\ com' = [com EXCEPT ![c].en = "bloquea"]
  BY <1>2 DEF AnotarDummy, red
<1>4. /\ \A j : \A d \in CPUS : AvisaAborto(j, d)' <=> AvisaAborto(j, d)
      /\ \A j : \A q \in {"nuevos", "terminados", "listos", "auxVirtualRR"} :
           En(j, q)' <=> En(j, q)
  BY <1>3 DEF AvisaAborto, En
<1>5. com'[c].en # "termina" /\ \A d \in CPUS \ {c} : com'[d] = com[d]
  BY <1>1, <1>3 DEF ComOK
<1>6. \A j \in DTB : MismaFase(j)
  BY <1>2, <1>3, <1>4, <1>5, HiloSinAborto
<1>7. CASE iniGDT[i] = 1
  <2>1. UNCHANGED iniGDT
    BY <1>1, <1>3, <1>7
  <2> QED  BY <1>6, <2>1, CicloSinCambio
<1>8. CASE iniGDT[i] = 0
  <2>1. i \in Dummies /\ \A j \in Dummies : j = i
    BY <1>8 DEF Dummies, EnMarcha, SafaInv, DummyUnico
  <2>2. Dummies' = {}
    BY <1>1, <1>3, <2>1 DEF Dummies
  <2>3. Lleva(c, i)
    BY <1>2 DEF Lleva, EnHiloCPU
  <2>4. Vive(i) /\ ~ EsperaTurno(i) /\ \A d \in CPUS : Lleva(d, i) => d = c
    BY <2>3, EnTurno
  <2>5. VueltaDe(c) /\ Ocupado(c)
    BY <1>2, TurnoPartes DEF EnMarcha, UnTurnoPorVez, Ocupado
  <2>6. ~ Hay(safaACpu, c) /\ ~ Corre(c) /\ ~ Hay(cpuASafa, c)
    BY <2>5 DEF VueltaDe
  <2>7. ~ CorreEn(i, c) /\ ~ AbortaEn(i, c)
    <3>1. DOMAIN <<>> = {}
      OBVIOUS
    <3> QED  BY <1>2, <2>6, <3>1 DEF CorreEn, AbortaEn, AvisaAborto, Trae, Hay, Corre
  <2>8. ~ EnCPU(i) /\ ~ Aborta(i)
    <3>1. \A d \in CPUS : CorreEn(i, d) \/ AbortaEn(i, d) => Lleva(d, i)
      BY SinBloquear
    <3> QED  BY <2>4, <2>7, <3>1, FasePorCPU
  <2>9. Fase(i) \in {"pide", "contestado", "perdido"}
    BY <2>4, <2>8, FaseClara DEF SoloFase, Fases, Vive
  <2>10. \A j \in DTB : Fase(j)' = Fase(j)
    BY <1>6, FaseSigue
  <2>11. [j \in DTB |-> Fase(j)]' = [j \in DTB |-> Fase(j)]
    BY <2>10
  <2>12. Ciclo!Presentar(i)
    BY <2>1, <2>2, <2>9, <2>11 DEF Ciclo!Presentar
  <2> QED  BY <2>12 DEF PasoDelCiclo, Ciclo!CicloNext
<1> QED
  BY <1>1, <1>7, <1>8

(* A step that ends a phase of script i, and nothing else of it. *)
LEMMA FasePierde ==
    ASSUME EnMarcha, SafaTypeOK', NEW i \in DTB, Vive(i), Existe(i)',
           ~ En(i, "nuevos")', ~ En(i, "terminados")', ~ Contestado(i)', ~ Pide(i)',
           ~ EnCPU(i)', ~ Aborta(i)', ~ EsperaTurno(i)'
    PROVE  Fase(i)' = "perdido"
<1>1. SoloFase(i, "perdido")'
  BY DEF SoloFase
<1> QED
  BY <1>1, FaseDeLuego DEF FaseFijada, Fases

LEMMA AbortarCiclo ==
    ASSUME EnMarcha, SafaTypeOK', NEW c \in CPUS, AbortarDTB(c), UNCHANGED <<cpu, dam>>
    PROVE  PasoDelCiclo
<1>1. ComOK(com) /\ ColasOK(cola) /\ "ejecutando" \in Colas
  BY DEF EnMarcha, SafaInv, SafaTypeOK, Colas
<1>2. PICK i \in DTB : i = Head(cpuASafa[c]).id /\ Recibe(c, {"AbortarDTB"})
  BY RecibeOK DEF EnMarcha, SafaInv, AbortarDTB
<1>3. /\ com[c].en = "espera" /\ Head(cpuASafa[c]).tipo = "AbortarDTB"
      /\ UNCHANGED <<id, iniGDT, plp, pcp, safaACpu, cpuADam, damASafa>>
      /\ com' = [com EXCEPT ![c] =
                   [en |-> "termina", dtb |-> IF En(i, "ejecutando") THEN i ELSE NULO]]
  BY <1>2 DEF AbortarDTB, Recibe, datosDTB
<1>4. \A j : /\ \A d \in CPUS \ {c} : AvisaAborto(j, d)' <=> AvisaAborto(j, d)
             /\ ~ AvisaAborto(j, c)'
             /\ AvisaAborto(j, c) <=> j = i
  BY <1>2, <1>3, TomaAviso
<1>5. \A q \in Colas \ {"ejecutando"} : cola'[q] = cola[q]
  BY <1>1 DEF AbortarDTB, Sacar, ColasOK
<1>6. \A j : \A q \in {"nuevos", "terminados", "listos", "auxVirtualRR"} : En(j, q)' <=> En(j, q)
  BY <1>5 DEF En, Colas
<1>7. /\ com'[c].en = "termina" /\ com'[c].dtb = IF En(i, "ejecutando") THEN i ELSE NULO
      /\ \A d \in CPUS \ {c} : com'[d] = com[d]
  BY <1>1, <1>3 DEF ComOK
<1>8. \A j \in DTB \ {i} : MismaFase(j)
  <2> SUFFICES ASSUME NEW j \in DTB \ {i}  PROVE MismaFase(j)
    OBVIOUS
  <2>1. j # NULO
    BY DTBNoNulo
  <2>2. \A d \in CPUS : AbortaEn(j, d)' <=> AbortaEn(j, d)
    BY <1>3, <1>4, <1>7, <2>1 DEF AbortaEn
  <2> QED  BY <1>3, <1>6, <2>2, FaseEnHilo
<1>9. CASE En(i, "ejecutando")
  <2>1. \A d \in CPUS : AbortaEn(i, d)' <=> AbortaEn(i, d)
    BY <1>3, <1>4, <1>7, <1>9 DEF AbortaEn
  <2>2. MismaFase(i)
    BY <1>3, <1>6, <2>1, FaseEnHilo
  <2> QED  BY <1>3, <1>8, <2>2, CicloSinCambio
<1>10. CASE ~ En(i, "ejecutando")
  <2>1. AbortaEn(i, c)
    BY <1>4 DEF AbortaEn
  <2>2. Fase(i) = "aborta"
    BY <2>1, FaseClara, FasePorCPU DEF SoloFase
  <2>3. Lleva(c, i)
    BY <2>1, SinBloquear
  <2>4. Vive(i) /\ \A d \in CPUS : Lleva(d, i) => d = c
    BY <2>3, EnTurno
  <2>5. ~ Contestado(i) /\ ~ Pide(i) /\ ~ EnCPU(i) /\ ~ EsperaTurno(i)
    BY <2>2, FaseClara DEF SoloFase
  <2>6. \A d \in CPUS : ~ AbortaEn(i, d)'
    <3>1. i # NULO
      BY DTBNoNulo
    <3>2. ~ AbortaEn(i, c)'
      BY <1>4, <1>7, <1>10, <3>1 DEF AbortaEn
    <3>3. \A d \in CPUS \ {c} : ~ AbortaEn(i, d)
      BY <2>4, SinBloquear
    <3> QED  BY <1>4, <1>7, <3>2, <3>3 DEF AbortaEn
  <2>7. ~ Aborta(i)'
    BY <2>6 DEF Aborta, AbortaEn, AvisaAborto
  <2>8. Fase(i)' = "perdido"
    <3>1. (Existe(i)' <=> Existe(i)) /\ (Contestado(i)' <=> Contestado(i))
          /\ (Pide(i)' <=> Pide(i)) /\ (EnCPU(i)' <=> EnCPU(i))
      BY <1>3 DEF Existe, Contestado, Pide, EnCPU
    <3>2. EsperaTurno(i)' <=> EsperaTurno(i)
      BY <1>3, <1>6 DEF EsperaTurno
    <3> QED  BY <1>6, <2>4, <2>5, <2>7, <3>1, <3>2, FasePierde DEF Vive
  <2>9. Cambia(i, "aborta", "perdido")
    BY <1>8, <2>2, <2>8, CicloConCambio
  <2>10. UNCHANGED Dummies
    BY <1>3 DEF Dummies
  <2> QED  BY <2>9, <2>10, CicloPasos
<1> QED
  BY <1>9, <1>10

LEMMA TerminadoCiclo ==
    ASSUME EnMarcha, InvTurnos', ~ caida', NEW c \in CPUS, AgregarTerminado(c),
           UNCHANGED <<cpu, dam>>
    PROVE  PasoDelCiclo
<1>1. SafaInv /\ LugarInv /\ ComOK(com) /\ SafaTypeOK'
  BY DEF EnMarcha, SafaInv, SafaTypeOK, InvTurnos, InvLugar, InvDummy, TypeOK
<1>2. /\ com[c].en = "termina"
      /\ cola' = Agregar(cola, "terminados", com[c].dtb)
      /\ com' = [com EXCEPT ![c].en = "libera"]
      /\ UNCHANGED <<id, tabla, con, dtbConEqGrandeAbierto, iniGDT, plp, pcp, safaACpu,
                     cpuASafa, cpuADam, damASafa>>
  BY DEF AgregarTerminado, datosDTB, red
<1>3. \A j : \A d \in CPUS : AvisaAborto(j, d)' <=> AvisaAborto(j, d)
  BY <1>2 DEF AvisaAborto
<1>4. com'[c].en = "libera" /\ \A d \in CPUS \ {c} : com'[d] = com[d]
  BY <1>1, <1>2 DEF ComOK
<1>5. com[c].dtb \in DTB \cup {NULO}
  BY <1>1 DEF ComOK, EnHilo
<1>6. ASSUME NEW j, MismoLugar(j)
      PROVE  /\ EnPLPde(j)' <=> EnPLPde(j)
             /\ \A q \in {"nuevos", "terminados", "listos", "auxVirtualRR"} :
                  En(j, q)' <=> En(j, q)
  BY <1>6 DEF MismoLugar, Colas
<1>7. CASE com[c].dtb = NULO
  <2>1. \A j \in DTB : \A d \in CPUS : EnHiloCPU(j, d)' <=> EnHiloCPU(j, d)
    <3>1. \A j \in DTB : j # NULO
      BY DTBNoNulo
    <3> QED  BY <1>2, <1>4, <1>7, <3>1 DEF EnHiloCPU
  <2>2. \A j \in DTB : MismoLugar(j)
    BY <1>1, <1>2, <1>7, <2>1, AgregarNulo
  <2>3. \A j \in DTB : MismaFase(j)
    BY <1>1, <1>2, <1>3, <1>4, <1>6, <1>7, <2>2, HiloSinAborto
  <2> QED  BY <1>1, <1>2, <2>3, CicloSinCambio
<1>8. CASE com[c].dtb \in DTB
  <2>1. PICK i \in DTB : i = com[c].dtb
    BY <1>8
  <2>2. EnHiloCPU(i, c) /\ AbortaEn(i, c)
    BY <1>2, <2>1 DEF EnHiloCPU, AbortaEn
  <2>3. "terminados" \in Colas \ {"listos", "auxVirtualRR"}
    BY DEF Colas
  <2>4. (\A j \in DTB \ {i} : MismoLugar(j)) /\ SoloEnCola(i, "terminados")'
    BY <1>1, <1>2, <2>1, <2>2, <2>3, DejarEnCola
  <2>5. \A j \in DTB \ {i} : MismaFase(j)
    <3> SUFFICES ASSUME NEW j \in DTB \ {i}  PROVE MismaFase(j)
      OBVIOUS
    <3>1. \A d \in CPUS : AbortaEn(j, d)' <=> AbortaEn(j, d)
      BY <1>2, <1>3, <1>4, <2>1 DEF AbortaEn
    <3> QED  BY <1>2, <1>6, <2>4, <3>1, FaseEnHilo
  <2>6. Fase(i) = "aborta"
    BY <2>2, FaseClara, FasePorCPU DEF SoloFase
  <2>7. Fase(i)' = "fin"
    <3>1. En(i, "terminados")'
      BY <2>3, <2>4 DEF SoloEnCola
    <3> QED  BY <3>1, FaseLuego DEF SoloFase
  <2>8. Cambia(i, "aborta", "fin")
    BY <1>1, <2>5, <2>6, <2>7, CicloConCambio
  <2>9. i \notin Dummies
    <3>1. BanderaDe(c) /\ i # NULO
      BY TurnoPartes, DTBNoNulo DEF EnMarcha, UnTurnoPorVez
    <3> QED  BY <1>2, <2>1, <3>1 DEF BanderaDe, Dummies
  <2>10. UNCHANGED Dummies
    BY <1>2 DEF Dummies
  <2> QED  BY <2>8, <2>9, <2>10, CicloPasos
<1> QED
  BY <1>5, <1>7, <1>8

LEMMA HiloCPUCiclo ==
    ASSUME EnMarcha, InvTurnos', NEW c \in CPUS, HiloCPU(c), ~ caida, UNCHANGED <<cpu, dam>>
    PROVE  PasoDelCiclo
<1>1. SafaTypeOK'
  BY DEF InvTurnos, InvLugar, InvDummy, TypeOK
<1>2. AgregarTerminado(c) => ~ caida'
  BY DEF AgregarTerminado
<1> QED
  BY <1>1, <1>2, BloquearCiclo, RecursoCiclo, DejarCiclo, AnotarCiclo, AbortarCiclo,
     TerminadoCiclo DEF HiloCPU

-----------------------------------------------------------------------------
(* The other threads of SAFA *)

LEMMA FaseEnHiloDMA ==
    ASSUME NEW j, MismoLugar(j), UNCHANGED <<id, cpu, dam, pcp, com, cpuASafa, safaACpu, cpuADam>>,
           Respondido(j)' <=> Respondido(j)
    PROVE  MismaFase(j)
<1>1. \A q \in {"nuevos", "terminados", "listos", "auxVirtualRR"} : En(j, q)' <=> En(j, q)
  BY DEF MismoLugar, Colas
<1>2. (EnPLPde(j)' <=> EnPLPde(j)) /\ (Enviado(j)' <=> Enviado(j))
  BY DEF MismoLugar, Enviado
<1>3. \A c \in CPUS : AbortaEn(j, c)' <=> AbortaEn(j, c)
  BY DEF AbortaEn, AvisaAborto
<1> QED
  BY <1>1, <1>2, <1>3, FaseEnSafa

(* An answer finds its script blocked and gives it back, or loses it. *)
LEMMA HiloDMACiclo ==
    ASSUME EnMarcha, InvTurnos', HiloDMA, ~ caida, ALGORITMO # "VRR", UNCHANGED <<cpu, dam>>
    PROVE  PasoDelCiclo
<1>1. SafaInv /\ LugarInv /\ Ubicados /\ SafaTypeOK' /\ "bloqueados" \in Colas
      /\ "listos" \in Colas /\ "terminados" \in Colas
  BY DEF EnMarcha, LugarInv, InvTurnos, InvLugar, InvDummy, TypeOK, Colas
<1>2. PICK i \in DTB : /\ i = Head(damASafa).id /\ RecibeDAM
                       /\ UNCHANGED <<safaACpu, cpuASafa, cpuADam, damACpu>>
  <2>1. RecibeDAM
    BY DEF HiloDMA, OperacionNoFinalizada, AbrirPathFinalizadoOk, OperacionFinalizadaOk
  <2> QED
    BY <1>1, <2>1, RecibeDAMOK DEF SafaInv, RecibeDAM
<1>3. UNCHANGED <<id, iniGDT, com, plp, pcp>>
  BY DEF HiloDMA, OperacionNoFinalizada, AbrirPathFinalizadoOk, OperacionFinalizadaOk, Caer,
         datosDTB, hilos
<1>4. Respondido(i) /\ \A j : Respondido(j)' <=> Respondido(j) /\ j # i
  BY <1>1, <1>2, UnaRespuestaMenos DEF SafaInv, EnMarcha, UnTurnoPorVez
<1>5. Contestado(i) /\ Fase(i) = "contestado"
  BY <1>4, FaseClara, FasePorCPU DEF SoloFase
<1>6. UNCHANGED Dummies
  BY <1>3 DEF Dummies
<1>7. CASE ~ En(i, "bloqueados")
  <2>1. \A j \in DTB : MismoLugar(j)
    <3>1. CASE Caer
      BY <1>1, <1>2, <3>1, CaerNoMueve
    <3>2. CASE OperacionNoFinalizada
      <4>1. /\ cola' = Agregar(cola, "terminados", NULO)
            /\ UNCHANGED <<id, tabla, con, dtbConEqGrandeAbierto, plp, pcp, safaACpu, com>>
        BY <1>2, <1>7, <3>2 DEF OperacionNoFinalizada, datosDTB, hilos
      <4>2. \A j \in DTB : \A c \in CPUS : EnHiloCPU(j, c)' <=> EnHiloCPU(j, c)
        BY <4>1 DEF EnHiloCPU
      <4> QED  BY <1>1, <4>1, <4>2, AgregarNulo
    <3> QED
      BY <1>2, <1>7, <3>1, <3>2 DEF HiloDMA, AbrirPathFinalizadoOk, OperacionFinalizadaOk
  <2>2. \A j \in DTB \ {i} : MismaFase(j)
    BY <1>2, <1>3, <1>4, <2>1, FaseEnHiloDMA
  <2>3. Vive(i) /\ ~ EsperaTurno(i)
    BY <1>5, EnEspera
  <2>4. ~ Pide(i) /\ ~ EnCPU(i) /\ ~ Aborta(i)
    BY <1>5, FaseClara DEF SoloFase
  <2>5. ~ Contestado(i)'
    <3>1. ~ EnElDAM(i)
      BY <1>4 DEF EnMarcha, UnTurnoPorVez, UnaRespuesta
    <3>2. ~ Respondido(i)'
      BY <1>4
    <3> QED  BY <3>1, <3>2 DEF Contestado, Respondido, EnElDAM
  <2>6. ~ Pide(i)' /\ ~ EnCPU(i)' /\ ~ Aborta(i)'
    BY <1>2, <1>3, <2>4 DEF Pide, EnCPU, Aborta
  <2>7. ~ EsperaTurno(i)' /\ ~ En(i, "nuevos")' /\ ~ En(i, "terminados")' /\ Existe(i)'
    <3>1. /\ EnPLPde(i)' <=> EnPLPde(i)
          /\ \A q \in {"nuevos", "terminados", "listos", "auxVirtualRR"} : En(i, q)' <=> En(i, q)
      BY <2>1 DEF MismoLugar, Colas
    <3> QED  BY <1>3, <2>3, <3>1 DEF EsperaTurno, Vive, Existe, EnPLPde
  <2>8. Fase(i)' = "perdido"
    BY <1>1, <2>3, <2>5, <2>6, <2>7, FasePierde
  <2>9. Cambia(i, "contestado", "perdido")
    BY <1>1, <1>5, <2>2, <2>8, CicloConCambio
  <2> QED  BY <1>6, <2>9, CicloPasos
<1>8. CASE En(i, "bloqueados")
  <2>1. PICK q \in {"terminados", "listos"} : cola' = Mover(i, "bloqueados", q) /\ ~ caida'
    <3>1. ~ Caer
      BY <1>2, <1>8 DEF HiloDMA, OperacionNoFinalizada, AbrirPathFinalizadoOk,
                        OperacionFinalizadaOk, Caer
    <3> QED
      BY <1>2, <1>8, <3>1 DEF HiloDMA, OperacionNoFinalizada, AbrirPathFinalizadoOk,
                              OperacionFinalizadaOk, ColaListos
  <2>2. (\A j \in DTB \ {i} : MismoLugar(j)) /\ SoloEnCola(i, q)' /\ SoloEnCola(i, "bloqueados")
    BY <1>1, <1>3, <1>8, <2>1, SacarDeBloqueados
  <2>3. \A j \in DTB \ {i} : MismaFase(j)
    BY <1>2, <1>3, <1>4, <2>2, FaseEnHiloDMA
  <2>4. i \notin Dummies
    <3>1. EnReposo(i)
      BY <1>8 DEF EnReposo
    <3> QED  BY <3>1, TurnoPartes DEF EnMarcha, UnTurnoPorVez, Dummies
  <2>5. En(i, q)' /\ ~ En(i, "listos")
    BY <1>1, <2>2 DEF SoloEnCola
  <2>6. ~ Enviado(i)'
    <3>1. ~ Enviado(i)
      BY <1>1, <2>5, CabezaEsta DEF LugarInv, PCPConElPrimero, Enviado, SafaInv, SafaTypeOK
    <3> QED  BY <1>3, <3>1 DEF Enviado
  <2>7. CASE q = "terminados"
    <3>1. Fase(i)' = "fin"
      BY <2>1, <2>5, <2>7, FaseLuego DEF SoloFase
    <3>2. Cambia(i, "contestado", "fin")
      BY <1>1, <1>5, <2>3, <3>1, CicloConCambio
    <3> QED  BY <1>6, <2>4, <3>2, CicloPasos
  <2>8. CASE q = "listos"
    <3>1. EsperaTurno(i)'
      BY <2>5, <2>6, <2>8 DEF EsperaTurno, Enviado
    <3>2. Fase(i)' = "listo"
      BY <2>1, <3>1, FaseLuego DEF SoloFase
    <3>3. Cambia(i, "contestado", "listo")
      BY <1>1, <1>5, <2>3, <3>2, CicloConCambio
    <3> QED  BY <1>6, <2>4, <3>3, CicloPasos
  <2> QED  BY <2>7, <2>8
<1> QED
  BY <1>7, <1>8
(* Somebody moves DTBs between the lists; nobody says anything. *)
LEMMA FaseEnPlanif ==
    ASSUME NEW j, MismoLugar(j), Existe(j)' <=> Existe(j), Enviado(j)' <=> Enviado(j),
           UNCHANGED <<com, cpu, dam, safaACpu, cpuASafa, cpuADam, damASafa>>
    PROVE  MismaFase(j)
<1>1. \A q \in {"nuevos", "terminados", "listos", "auxVirtualRR"} : En(j, q)' <=> En(j, q)
  BY DEF MismoLugar, Colas
<1>2. EsperaTurno(j)' <=> EsperaTurno(j)
  BY <1>1, FasePorCPU DEF MismoLugar, EsperaTurno, EnPLPde, Enviado
<1>3. /\ Contestado(j)' <=> Contestado(j)
      /\ Pide(j)' <=> Pide(j)
      /\ EnCPU(j)' <=> EnCPU(j)
      /\ Aborta(j)' <=> Aborta(j)
  BY DEF Contestado, Pide, EnCPU, Aborta
<1> QED
  BY <1>1, <1>2, <1>3 DEF MismaFase

(* What the PCP has sent is the head of "listos". *)
LEMMA EnviadoEsPrimero ==
    ASSUME EnMarcha, NEW i \in DTB, Enviado(i)
    PROVE  En(i, "listos")
<1>1. SafaTypeOK /\ PCPConElPrimero /\ "listos" \in Colas
  BY DEF EnMarcha, SafaInv, LugarInv, Colas
<1>2. cola["listos"] # <<>> /\ Head(cola["listos"]) = i
  BY <1>1 DEF PCPConElPrimero, Enviado
<1> QED
  BY <1>1, <1>2, CabezaEsta DEF SafaTypeOK

(* The PLP admits a script: its first run is the only one of the moment. *)
LEMMA AdmitirCiclo ==
    ASSUME EnMarcha, InvTurnos', ~ caida', PLPToma, cola["nuevos"] # <<>>,
           UNCHANGED <<cpu, dam>>
    PROVE  PasoDelCiclo
<1>1. SafaInv /\ LugarInv /\ SafaTypeOK' /\ "nuevos" \in Colas /\ "listos" \in Colas
  BY DEF EnMarcha, InvTurnos, InvLugar, InvDummy, TypeOK, Colas
<1>2. PICK i \in DTB : i = Head(cola["nuevos"])
  BY <1>1, CabezaOK DEF SafaInv, SafaTypeOK
<1>3. /\ plp.en = "toma" /\ iniGDT' = [iniGDT EXCEPT ![i] = 0]
      /\ UNCHANGED <<id, pcp, com, safaACpu, cpuASafa, cpuADam, damASafa>>
  BY <1>2 DEF PLPToma, red
<1>4. (\A j \in DTB \ {i} : MismoLugar(j)) /\ SoloEnCola(i, "nuevos") /\ SoloEnPLP(i)'
  <2>1. ~ Caer
    BY DEF Caer
  <2> QED  BY <1>1, <1>2, <2>1, PLPTomaUbica
<1>5. \A j \in DTB \ {i} : MismaFase(j)
  BY <1>3, <1>4, FaseEnPlanif DEF Existe, Enviado
<1>6. Fase(i) = "nuevo"
  <2>1. En(i, "nuevos")
    BY <1>1, <1>4 DEF SoloEnCola
  <2> QED  BY <2>1, FaseClara DEF SoloFase
<1>7. Fase(i)' = "listo"
  <2>1. ~ Enviado(i)'
    BY <1>1, <1>3, <1>4, EnviadoEsPrimero DEF SoloEnCola, Enviado
  <2>2. EsperaTurno(i)'
    BY <1>4, <2>1 DEF SoloEnPLP, EnPLPde, EsperaTurno, Enviado
  <2> QED  BY <2>2, FaseLuego DEF SoloFase
<1>8. Cambia(i, "nuevo", "listo")
  BY <1>1, <1>5, <1>6, <1>7, CicloConCambio
<1>9. Dummies = {} /\ Dummies' = {i}
  <2>1. hayDummy = 0
    BY <1>1, <1>3 DEF SafaInv, TomaSinDummy
  <2>2. Dummies = {}
    BY <1>1, <2>1 DEF SafaInv, DummyUnico
  <2>3. iniGDT'[i] = 0 /\ \A j \in DTB \ {i} : iniGDT'[j] = iniGDT[j]
    BY <1>1, <1>3 DEF SafaInv, SafaTypeOK
  <2> QED  BY <2>2, <2>3 DEF Dummies
<1>10. Ciclo!Admitir(i)
  BY <1>8, <1>9, CicloPasa DEF Ciclo!Admitir
<1> QED
  BY <1>10 DEF PasoDelCiclo, Ciclo!CicloNext

LEMMA HiloPLPCiclo ==
    ASSUME EnMarcha, InvTurnos, InvTurnos', HiloPLP, ~ caida, UNCHANGED <<cpu, dam>>
    PROVE  PasoDelCiclo
<1>1. /\ SafaInv /\ LugarInv /\ SafaTypeOK' /\ "listos" \in Colas
      /\ UNCHANGED <<id, pcp, com, safaACpu, cpuASafa, cpuADam, damASafa>>
  BY DEF EnMarcha, InvTurnos, InvLugar, InvDummy, TypeOK, Colas, HiloPLP, PLPDespierta, PLPGrado,
         PLPDecide, PLPToma, PLPAgrega, Caer, datosDTB, hilos, red
<1>2. CASE PLPToma
  <2>1. cola["nuevos"] # <<>> /\ ~ caida'
    BY <1>2 DEF PLPToma, InvTurnos, PLPConUno
  <2> QED  BY <1>2, <2>1, AdmitirCiclo
<1>3. CASE PLPDespierta \/ PLPGrado \/ PLPDecide
  <2>1. UNCHANGED <<cola, iniGDT>> /\ plp.en # "agrega" /\ plp'.en # "agrega"
    BY <1>1, <1>3 DEF PLPDespierta, PLPGrado, PLPDecide, datosDTB, SafaInv, SafaTypeOK, EnPLP
  <2>2. \A j \in DTB : MismoLugar(j)
    BY <1>1, <2>1 DEF MismoLugar, En, EnHiloCPU, EnPLPde, EnPCPde
  <2>3. \A j \in DTB : MismaFase(j)
    BY <1>1, <2>2, FaseEnPlanif DEF Existe, Enviado
  <2> QED  BY <1>1, <2>1, <2>3, CicloSinCambio
<1>4. CASE PLPAgrega
  <2>1. PICK i \in DTB : i = plp.dtb /\ UNCHANGED iniGDT
    BY <1>1, <1>4 DEF PLPAgrega, SafaInv, SafaTypeOK, datosDTB
  <2>2. (\A j \in DTB \ {i} : MismoLugar(j)) /\ SoloEnPLP(i) /\ SoloEnCola(i, "listos")'
    BY <1>1, <1>4, <2>1, PLPAgregaUbica
  <2>3. \A j \in DTB \ {i} : MismaFase(j)
    BY <1>1, <2>2, FaseEnPlanif DEF Existe, Enviado
  <2>4. ~ Enviado(i) /\ ~ Enviado(i)'
    BY <1>1, <2>2, EnviadoEsPrimero DEF SoloEnPLP, Enviado
  <2>5. EsperaTurno(i) /\ EsperaTurno(i)'
    BY <1>1, <2>2, <2>4 DEF SoloEnPLP, SoloEnCola, EnPLPde, EsperaTurno, Enviado
  <2>6. Fase(i) = "listo"
    BY <2>5, FaseClara DEF SoloFase
  <2>7. Fase(i)' = "listo"
    <3>1. ~ caida'
      BY <1>4 DEF PLPAgrega
    <3> QED  BY <2>5, <3>1, FaseLuego DEF SoloFase
  <2>8. \A j \in DTB : Fase(j)' = Fase(j)
    BY <1>1, <2>3, <2>6, <2>7, FaseSigue
  <2>9. UNCHANGED Dummies
    BY <2>1 DEF Dummies
  <2> QED  BY <2>8, <2>9, CicloQuieto
<1> QED
  BY <1>2, <1>3, <1>4 DEF HiloPLP

(* The operator creates a script. *)
LEMMA ConsolaCiclo ==
    ASSUME EnMarcha, InvTurnos', EjecutarEscriptorio, ~ caida, UNCHANGED <<cpu, dam>>
    PROVE  PasoDelCiclo
<1>1. /\ SafaInv /\ LugarInv /\ SafaTypeOK' /\ "nuevos" \in Colas /\ ~ caida'
      /\ UNCHANGED <<iniGDT, pcp, com, safaACpu, cpuASafa, cpuADam, damASafa>>
      /\ id' = id + 1
  BY DEF EnMarcha, InvTurnos, InvLugar, InvDummy, TypeOK, Colas, EjecutarEscriptorio, hilos, red
<1>2. PICK i \in DTB : i = id
  BY <1>1, RedAssumption DEF EjecutarEscriptorio, SafaInv, SafaTypeOK, DTB
<1>3. (\A j \in DTB \ {i} : MismoLugar(j)) /\ ~ Existe(i) /\ SoloEnCola(i, "nuevos")'
  BY <1>1, <1>2, EjecutarUbica
<1>4. \A j \in DTB \ {i} : Existe(j)' <=> Existe(j)
  BY <1>1, <1>2, RedAssumption DEF Existe, SafaInv, SafaTypeOK, DTB
<1>5. \A j \in DTB \ {i} : MismaFase(j)
  BY <1>1, <1>3, <1>4, FaseEnPlanif DEF Enviado
<1>6. Fase(i) = "sinCrear"
  BY <1>3, FaseClara DEF SoloFase
<1>7. Fase(i)' = "nuevo"
  <2>1. En(i, "nuevos")'
    BY <1>1, <1>3 DEF SoloEnCola
  <2> QED  BY <1>1, <2>1, FaseLuego DEF SoloFase
<1>8. Cambia(i, "sinCrear", "nuevo")
  BY <1>1, <1>5, <1>6, <1>7, CicloConCambio
<1>9. UNCHANGED Dummies
  BY <1>1 DEF Dummies
<1> QED
  BY <1>8, <1>9, CicloPasos

LEMMA ConexionCiclo ==
    ASSUME EnMarcha, InvTurnos', Conexion, UNCHANGED <<cpu, dam>>
    PROVE  PasoDelCiclo
<1>1. /\ SafaInv /\ LugarInv /\ SafaTypeOK' /\ ComOK(com)
      /\ UNCHANGED <<id, iniGDT, cola, plp, pcp, safaACpu, cpuASafa, cpuADam, damASafa>>
  BY DEF EnMarcha, SafaInv, SafaTypeOK, InvTurnos, InvLugar, InvDummy, TypeOK, Conexion, AceptarDAM,
         ArrancarHiloDMA, AceptarCPU, ConectarCPU, PasarSafaOperativo, datosDTB, red
<1>2. \A c \in CPUS : com'[c] = com[c] \/ (com[c].en # "termina" /\ com'[c].en # "termina")
  <2>1. CASE UNCHANGED com
    BY <2>1
  <2>2. ASSUME NEW c \in CPUS, AceptarCPU(c) \/ ConectarCPU(c) \/ PasarSafaOperativo(c)
        PROVE  /\ \A d \in CPUS \ {c} : com'[d] = com[d]
               /\ com[c].en # "termina" /\ com'[c].en # "termina"
    BY <1>1, <2>2 DEF AceptarCPU, ConectarCPU, PasarSafaOperativo, ComOK, EnHilo
  <2> QED
    BY <2>1, <2>2 DEF Conexion, AceptarDAM, ArrancarHiloDMA
<1>3. \A j \in DTB : MismoLugar(j)
  BY <1>1, ConexionNoMueve
<1>4. \A j \in DTB : MismaFase(j)
  <2> SUFFICES ASSUME NEW j \in DTB  PROVE MismaFase(j)
    OBVIOUS
  <2>1. \A q \in {"nuevos", "terminados", "listos", "auxVirtualRR"} : En(j, q)' <=> En(j, q)
    BY <1>1 DEF En
  <2>2. \A c \in CPUS : AbortaEn(j, c)' <=> AbortaEn(j, c)
    BY <1>1, <1>2 DEF AbortaEn, AvisaAborto
  <2> QED  BY <1>1, <2>1, <2>2, FaseEnHilo
<1> QED
  BY <1>1, <1>4, CicloSinCambio
(* A CPU has one script at most, and none while SAFA has it as free: the    *)
(* scripts that run are fewer than the CPUs.                                *)
LEMMA CorrenPocos ==
    ASSUME EnMarcha, NEW c \in CPUS, c \in ToSet(cpu_libres)
    PROVE  Cardinality({j \in DTB : Fase(j) = "corre"}) < Cardinality(CPUS)
<1> DEFINE S == {j \in DTB : Fase(j) = "corre"}
           f == [j \in S |-> CHOOSE d \in CPUS : CorreEn(j, d)]
<1>1. \A d \in CPUS : VueltaDe(d)
  BY TurnoPartes DEF EnMarcha, UnTurnoPorVez
<1>2. \A j \in S : \E d \in CPUS : CorreEn(j, d)
  BY FaseClara, FasePorCPU DEF SoloFase
<1>3. \A j : ~ CorreEn(j, c)
  <2>1. DOMAIN <<>> = {}
    OBVIOUS
  <2> QED  BY <1>1, <2>1 DEF VueltaDe, CorreEn, Trae, Hay, Corre
<1>4. ASSUME NEW d \in CPUS, NEW j \in DTB, NEW k \in DTB, CorreEn(j, d), CorreEn(k, d)
      PROVE  j = k
  <2>1. safaACpu[d] \in Seq(MensajeDTB)
    BY DEF EnMarcha, SafaInv, RedTypeOK
  <2>2. CASE Hay(safaACpu, d)
    <3>1. DOMAIN safaACpu[d] = {1}
      BY <1>1, <2>1, <2>2, ListaDeUno DEF VueltaDe, Hay
    <3>2. ~ Corre(d)
      BY <1>1, <2>2 DEF VueltaDe
    <3> QED  BY <1>4, <3>1, <3>2 DEF CorreEn, Trae, Corre
  <2>3. CASE ~ Hay(safaACpu, d)
    <3>1. DOMAIN safaACpu[d] = {}
      BY <2>3 DEF Hay
    <3> QED  BY <1>4, <3>1 DEF CorreEn, Trae
  <2> QED  BY <2>2, <2>3
<1>5. \A j \in S : f[j] \in CPUS /\ CorreEn(j, f[j])
  BY <1>2
<1>6. f \in [S -> CPUS \ {c}]
  BY <1>3, <1>5
<1>7. \A j, k \in S : f[j] = f[k] => j = k
  BY <1>4, <1>5
<1> HIDE DEF f
<1>8. /\ IsFiniteSet(CPUS \ {c}) /\ Cardinality(CPUS \ {c}) = Cardinality(CPUS) - 1
      /\ Cardinality(CPUS) \in Nat
  BY RedAssumption, FS_RemoveElement, FS_CardinalityType
<1>9. f \in Injection(S, CPUS \ {c})
  BY <1>6, <1>7, Fun_IsInj
<1>10. IsFiniteSet(S) /\ Cardinality(S) <= Cardinality(CPUS \ {c})
  BY <1>8, <1>9, FS_Injection
<1>11. Cardinality(S) \in Nat
  BY <1>10, FS_CardinalityType
<1> QED
  BY <1>8, <1>10, <1>11

(* The PCP sends the head of "listos" to a free CPU. *)
LEMMA DespacharCiclo ==
    ASSUME EnMarcha, InvTurnos', ~ caida', PCPDespacha, UNCHANGED <<cpu, dam>>
    PROVE  PasoDelCiclo
<1>1. SafaInv /\ LugarInv /\ UnTurnoPorVez /\ SafaTypeOK' /\ "listos" \in Colas /\ ~ Caer
  BY DEF EnMarcha, InvTurnos, InvLugar, InvDummy, TypeOK, Colas, Caer
<1>2. PICK i \in DTB : /\ i = pcp.dtb /\ pcp.en = "despacha" /\ En(i, "listos")
  <2>1. pcp.en = "despacha" /\ cola["listos"] # <<>> /\ Head(cola["listos"]) = pcp.dtb
    BY <1>1 DEF PCPDespacha, LugarInv, PCPConElPrimero
  <2>2. pcp.dtb \in DTB /\ En(pcp.dtb, "listos")
    BY <1>1, <2>1, CabezaOK, CabezaEsta DEF SafaInv, SafaTypeOK, Colas
  <2> QED  BY <2>1, <2>2
<1>3. PICK c \in CPUS : c = Head(cpu_libres) /\ c \in ToSet(cpu_libres)
  BY <1>1, <1>2 DEF SafaInv, SafaTypeOK, DespachaConCPU, ToSet
<1> DEFINE m == [id |-> i, ini |-> iniGDT[i], cantidad |-> Len(tabla[i]),
                 archivos |-> SubSeq(tabla[i], 1, Enviados(Len(tabla[i])))]
<1>4. /\ safaACpu' = Enviar(safaACpu, c, m)
      /\ pcp' = [pcp EXCEPT !.en = "quita"]
      /\ UNCHANGED <<id, iniGDT, cola, com, plp, cpuASafa, cpuADam, damASafa>>
  BY <1>1, <1>2, <1>3 DEF PCPDespacha
<1>5. m.id = i
  OBVIOUS
<1> HIDE DEF m
<1>6. pcp'.en = "quita" /\ pcp'.dtb = i
  BY <1>1, <1>2, <1>4 DEF SafaInv, SafaTypeOK, EnPCP
<1>7. /\ safaACpu'[c] = <<m>> /\ DOMAIN safaACpu'[c] = {1} /\ DOMAIN safaACpu[c] = {}
      /\ safaACpu'[c][1] = m
      /\ \A d \in CPUS \ {c} : safaACpu'[d] = safaACpu[d]
  <2>1. ~ Hay(safaACpu, c)
    BY <1>1, <1>3, TurnoPartes DEF UnTurnoPorVez, VueltaDe
  <2>2. safaACpu \in [CPUS -> Seq(MensajeDTB)]
    BY <1>1 DEF SafaInv, RedTypeOK
  <2> QED  BY <1>4, <2>1, <2>2, EnviaUno
<1>8. ASSUME NEW j \in DTB \ {i}  PROVE MismaFase(j)
  <2>1. \A d \in CPUS : Trae(safaACpu, d, j)' <=> Trae(safaACpu, d, j)
    BY <1>5, <1>7 DEF Trae
  <2>2. EnCPU(j)' <=> EnCPU(j)
    BY <2>1 DEF EnCPU, Trae
  <2>3. ~ Enviado(j) /\ ~ Enviado(j)'
    BY <1>2, <1>6 DEF Enviado
  <2>4. EsperaTurno(j)' <=> EsperaTurno(j)
    BY <1>4, <2>3 DEF EsperaTurno, En, Enviado
  <2>5. /\ Existe(j)' <=> Existe(j)
        /\ En(j, "nuevos")' <=> En(j, "nuevos")
        /\ En(j, "terminados")' <=> En(j, "terminados")
        /\ Contestado(j)' <=> Contestado(j)
        /\ Pide(j)' <=> Pide(j)
        /\ Aborta(j)' <=> Aborta(j)
    BY <1>4 DEF Existe, En, Contestado, Pide, Aborta
  <2> QED  BY <2>2, <2>4, <2>5 DEF MismaFase
<1>9. Fase(i) = "listo"
  <2>1. EsperaTurno(i)
    BY <1>2 DEF EsperaTurno
  <2> QED  BY <2>1, FaseClara DEF SoloFase
<1>10. Fase(i)' = "corre"
  <2>1. EnCPU(i)'
    BY <1>5, <1>7 DEF EnCPU
  <2> QED  BY <2>1, FaseLuego DEF SoloFase
<1>11. Cambia(i, "listo", "corre")
  BY <1>1, <1>8, <1>9, <1>10, CicloConCambio
<1>12. UNCHANGED Dummies
  BY <1>4 DEF Dummies
<1>13. Cardinality({j \in DTB : [k \in DTB |-> Fase(k)][j] = "corre"}) < Cardinality(CPUS)
  <2>1. {j \in DTB : [k \in DTB |-> Fase(k)][j] = "corre"} = {j \in DTB : Fase(j) = "corre"}
    OBVIOUS
  <2> QED  BY <1>3, <2>1, CorrenPocos
<1>14. Ciclo!Pasa(i, "listo", "corre")
  BY <1>11, CicloPasa
<1>15. Ciclo!Despachar(i)
  <2>1. \A S : Ciclo!Cardinality(S) = Cardinality(S)
    BY DEF Ciclo!Cardinality, Cardinality
  <2> QED  BY <1>12, <1>13, <1>14, <2>1 DEF Ciclo!Despachar
<1> QED
  BY <1>15 DEF PasoDelCiclo, Ciclo!CicloNext

LEMMA HiloPCPCiclo ==
    ASSUME EnMarcha, InvTurnos', HiloPCP, ~ caida, UNCHANGED <<cpu, dam>>
    PROVE  PasoDelCiclo
<1>1. SafaInv /\ LugarInv /\ SafaTypeOK' /\ "listos" \in Colas
  BY DEF EnMarcha, InvTurnos, InvLugar, InvDummy, TypeOK, Colas
<1>2. CASE Caer
  <2>1. UNCHANGED <<id, iniGDT, cola, com, plp, pcp, safaACpu, cpuASafa, cpuADam, damASafa>>
    BY <1>2 DEF Caer, datosDTB, hilos, HiloPCP, PCPDespierta, PCPRevisa, PCPElige, PCPBusca,
                PCPDespacha, PCPQuita, PCPAgrega, red
  <2>2. \A j \in DTB : MismaFase(j)
    BY <2>1, FaseEnPlanif DEF MismoLugar, En, EnHiloCPU, EnPLPde, EnPCPde, Existe, Enviado
  <2> QED  BY <1>1, <2>1, <2>2, CicloSinCambio
<1>3. CASE PCPDespacha /\ ~ Caer
  <2>1. ~ caida'
    BY <1>3 DEF PCPDespacha
  <2> QED  BY <1>3, <2>1, DespacharCiclo
<1>4. CASE (PCPDespierta \/ PCPRevisa \/ PCPElige \/ PCPBusca) /\ ~ Caer
  <2>1. UNCHANGED <<id, iniGDT, cola, com, plp, safaACpu, cpuASafa, cpuADam, damASafa>>
    BY <1>4 DEF PCPDespierta, PCPRevisa, PCPElige, PCPBusca, datosDTB, red
  <2>2. pcp.en \notin {"quita", "agrega"} /\ pcp'.en \notin {"quita", "agrega"}
    BY <1>1, <1>4 DEF PCPDespierta, PCPRevisa, PCPElige, PCPBusca, SafaInv, SafaTypeOK, EnPCP
  <2>3. \A j \in DTB : MismaFase(j)
    BY <2>1, <2>2, FaseEnPlanif DEF MismoLugar, En, EnHiloCPU, EnPLPde, EnPCPde, Existe, Enviado
  <2> QED  BY <1>1, <2>1, <2>3, CicloSinCambio
<1>5. CASE (PCPQuita /\ ~ Caer) \/ PCPAgrega
  <2>1. PICK i \in DTB : i = pcp.dtb /\ pcp.en \in {"quita", "agrega"}
    BY <1>1, <1>5 DEF PCPQuita, PCPAgrega, SafaInv, SafaTypeOK
  <2>2. /\ UNCHANGED <<id, iniGDT, com, plp, safaACpu, cpuASafa, cpuADam, damASafa>>
        /\ pcp'.en \notin {"quita"}
    BY <1>1, <1>5 DEF PCPQuita, PCPAgrega, datosDTB, red, SafaInv, SafaTypeOK, EnPCP
  <2>3. /\ \A j \in DTB \ {i} : MismoLugar(j)
        /\ \/ Enviado(i) /\ SoloEnCola(i, "listos") /\ SoloEnPCP(i)'
           \/ SoloEnPCP(i) /\ SoloEnCola(i, "ejecutando")'
    BY <1>1, <1>5, <2>1, PCPQuitaUbica, PCPAgregaUbica DEF PCPQuita, Enviado
  <2>4. \A j \in DTB \ {i} : MismaFase(j)
    BY <2>1, <2>2, <2>3, FaseEnPlanif DEF Existe, Enviado
  <2>5. ~ EsperaTurno(i) /\ ~ EsperaTurno(i)'
    BY <1>1, <2>3 DEF SoloEnPCP, SoloEnCola, EsperaTurno, Enviado, EnPLPde, Colas
  <2>6. /\ En(i, "nuevos")' <=> En(i, "nuevos")
        /\ En(i, "terminados")' <=> En(i, "terminados")
    BY <2>3 DEF SoloEnPCP, SoloEnCola, Colas
  <2>7. /\ Existe(i)' <=> Existe(i)
        /\ Contestado(i)' <=> Contestado(i)
        /\ Pide(i)' <=> Pide(i)
        /\ EnCPU(i)' <=> EnCPU(i)
        /\ Aborta(i)' <=> Aborta(i)
    BY <2>2 DEF Existe, Contestado, Pide, EnCPU, Aborta
  <2>8. MismaFase(i)
    BY <2>5, <2>6, <2>7 DEF MismaFase
  <2> QED  BY <1>1, <2>2, <2>4, <2>8, CicloSinCambio
<1> QED
  BY <1>2, <1>3, <1>4, <1>5 DEF HiloPCP
-----------------------------------------------------------------------------
(* The CPUs *)

OtrasCPUs(c) == \A d \in CPUS \ {c} :
    /\ safaACpu'[d] = safaACpu[d] /\ cpuASafa'[d] = cpuASafa[d]
    /\ cpuADam'[d] = cpuADam[d] /\ cpu'[d] = cpu[d]

LEMMA FaseEnCPU ==
    ASSUME NEW j, NEW c \in CPUS, OtrasCPUs(c), UNCHANGED <<safa, dam, damASafa>>,
           CorreEn(j, c)' <=> CorreEn(j, c), AvisaAborto(j, c)' <=> AvisaAborto(j, c),
           Trae(cpuADam, c, j)' <=> Trae(cpuADam, c, j)
    PROVE  MismaFase(j)
<1>1. \A d \in CPUS : /\ CorreEn(j, d)' <=> CorreEn(j, d)
                      /\ AvisaAborto(j, d)' <=> AvisaAborto(j, d)
                      /\ Trae(cpuADam, d, j)' <=> Trae(cpuADam, d, j)
  BY DEF OtrasCPUs, CorreEn, AvisaAborto, Trae
<1>2. UNCHANGED com
  BY DEF safa, hilos
<1>3. \A d \in CPUS : AbortaEn(j, d)' <=> AbortaEn(j, d)
  BY <1>1, <1>2 DEF AbortaEn
<1>4. Contestado(j)' <=> Contestado(j)
  BY DEF Contestado
<1>5. EnCarga(j)' <=> EnCarga(j)
  BY DEF EnCarga
<1> QED
  BY <1>1, <1>3, <1>4, <1>5, FaseEnRed

(* What a CPU that runs script i has to do with the scripts. *)
LEMMA CPUConUno ==
    ASSUME EnMarcha, NEW c \in CPUS, NEW i \in DTB, CorreEn(i, c)
    PROVE  /\ Fase(i) = "corre" /\ Vive(i)
           /\ \A j : CorreEn(j, c) <=> j = i
           /\ \A j : ~ AvisaAborto(j, c) /\ ~ Trae(cpuADam, c, j)
           /\ ~ Hay(cpuASafa, c) /\ ~ Hay(cpuADam, c)
           /\ \A d \in CPUS \ {c} : ~ CorreEn(i, d)
<1>1. VueltaDe(c) /\ PedidoDe(c)
  BY TurnoPartes DEF EnMarcha, UnTurnoPorVez
<1>2. DOMAIN <<>> = {}
  OBVIOUS
<1>3. Hay(safaACpu, c) \/ (Corre(c) /\ cpu[c].en = "lee")
  BY <1>2 DEF CorreEn, Trae, Hay, Corre
<1>4. ~ Hay(cpuASafa, c) /\ ~ Hay(cpuADam, c)
  <2>1. ~ EsperaAlDAM(c)
    BY <1>1, <1>3 DEF VueltaDe, Corre, EsperaAlDAM
  <2> QED  BY <1>1, <1>3, <2>1 DEF VueltaDe, PedidoDe
<1>5. \A j : ~ AvisaAborto(j, c) /\ ~ Trae(cpuADam, c, j)
  BY <1>2, <1>4 DEF AvisaAborto, Trae, Hay
<1>6. \A j : CorreEn(j, c) <=> j = i
  <2>1. CASE Hay(safaACpu, c)
    <3>1. safaACpu[c] \in Seq(MensajeDTB) /\ Len(safaACpu[c]) <= 1 /\ ~ Corre(c)
      BY <1>1, <2>1 DEF VueltaDe, EnMarcha, SafaInv, RedTypeOK
    <3>2. DOMAIN safaACpu[c] = {1}
      BY <2>1, <3>1, ListaDeUno DEF Hay
    <3> QED  BY <3>1, <3>2 DEF CorreEn, Trae, Corre
  <2>2. CASE ~ Hay(safaACpu, c)
    BY <1>2, <2>2 DEF CorreEn, Trae, Hay
  <2> QED  BY <2>1, <2>2
<1>7. Fase(i) = "corre"
  BY FaseClara, FasePorCPU DEF SoloFase
<1>8. Lleva(c, i)
  BY SinBloquear
<1>9. Vive(i) /\ \A d \in CPUS \ {c} : ~ CorreEn(i, d)
  BY <1>8, EnTurno, SinBloquear
<1> QED
  BY <1>4, <1>5, <1>6, <1>7, <1>9

(* A run asks the DAM for something. *)
LEMMA PideCiclo ==
    ASSUME EnMarcha, InvTurnos', ~ caida, NEW c \in CPUS, NEW i \in DTB, CorreEn(i, c),
           OtrasCPUs(c), UNCHANGED <<safa, dam, cpuASafa, damASafa>>,
           \A j : ~ CorreEn(j, c)',
           NEW m, m.id = i, cpuADam' = Enviar(cpuADam, c, m)
    PROVE  PasoDelCiclo
<1>1. SafaTypeOK' /\ ~ caida' /\ UNCHANGED iniGDT /\ cpuADam \in [CPUS -> Seq(PedidoDAM)]
  BY DEF EnMarcha, SafaInv, RedTypeOK, InvTurnos, InvLugar, InvDummy, TypeOK, safa, datosDTB
<1>2. /\ Fase(i) = "corre" /\ ~ Hay(cpuADam, c)
      /\ \A j : CorreEn(j, c) <=> j = i
      /\ \A j : ~ Trae(cpuADam, c, j)
  BY CPUConUno
<1>3. cpuADam'[c] = <<m>> /\ DOMAIN cpuADam'[c] = {1} /\ cpuADam'[c][1] = m
  BY <1>1, <1>2, EnviaUno
<1>4. \A j : Trae(cpuADam, c, j)' <=> j = i
  BY <1>3 DEF Trae
<1>5. \A j : AvisaAborto(j, c)' <=> AvisaAborto(j, c)
  BY DEF AvisaAborto
<1>6. \A j \in DTB \ {i} : MismaFase(j)
  BY <1>2, <1>4, <1>5, FaseEnCPU
<1>7. Fase(i)' = "pide"
  <2>1. Pide(i)'
    BY <1>4 DEF Pide, Trae
  <2> QED  BY <1>1, <2>1, FaseLuego DEF SoloFase
<1>8. Cambia(i, "corre", "pide")
  BY <1>1, <1>2, <1>6, <1>7, CicloConCambio
<1>9. UNCHANGED Dummies
  BY <1>1 DEF Dummies
<1> QED
  BY <1>8, <1>9, CicloPasos

(* A run that is over without having asked the DAM. *)
LEMMA AcabaCiclo ==
    ASSUME EnMarcha, InvTurnos', ~ caida, NEW c \in CPUS, NEW i \in DTB, CorreEn(i, c),
           cpu[c].en = "lee", cpu[c].dtb = i,
           OtrasCPUs(c), UNCHANGED <<safa, dam, cpuADam, damASafa>>,
           \A j : ~ CorreEn(j, c)',
           \A j : AvisaAborto(j, c)' => j = i
    PROVE  PasoDelCiclo
<1>1. SafaTypeOK' /\ ~ caida' /\ UNCHANGED <<iniGDT, id, com, cola, plp, pcp>>
  BY DEF InvTurnos, InvLugar, InvDummy, TypeOK, safa, datosDTB, hilos
<1>2. /\ Fase(i) = "corre" /\ Vive(i)
      /\ \A j : CorreEn(j, c) <=> j = i
      /\ \A j : ~ AvisaAborto(j, c)
      /\ \A d \in CPUS \ {c} : ~ CorreEn(i, d)
  BY CPUConUno
<1>3. \A j : Trae(cpuADam, c, j)' <=> Trae(cpuADam, c, j)
  BY DEF Trae
<1>4. \A j \in DTB \ {i} : MismaFase(j)
  BY <1>2, <1>3, FaseEnCPU
<1>5. i \notin Dummies
  <2>1. BanderaDe(c)
    BY TurnoPartes DEF EnMarcha, UnTurnoPorVez
  <2> QED  BY <2>1 DEF BanderaDe, Dummies
<1>6. UNCHANGED Dummies
  BY <1>1 DEF Dummies
<1>7. Fase(i)' \in {"aborta", "perdido"}
  <2>1. CASE AvisaAborto(i, c)'
    <3>1. Aborta(i)'
      BY <2>1 DEF Aborta, AvisaAborto
    <3> QED  BY <1>1, <3>1, FaseLuego DEF SoloFase
  <2>2. CASE ~ AvisaAborto(i, c)'
    <3>1. ~ Contestado(i) /\ ~ Pide(i) /\ ~ Aborta(i) /\ ~ EsperaTurno(i)
      BY <1>2, FaseClara DEF SoloFase
    <3>2. ~ EnCPU(i)'
      <4>1. \A d \in CPUS \ {c} : ~ CorreEn(i, d)'
        BY <1>2 DEF OtrasCPUs, CorreEn, Trae
      <4>2. \A d \in CPUS : ~ CorreEn(i, d)'
        BY <4>1
      <4> QED  BY <4>2 DEF EnCPU, CorreEn, Trae
    <3>3. ~ Aborta(i)'
      <4>1. \A d \in CPUS : ~ AbortaEn(i, d)
        BY <3>1, FasePorCPU
      <4>2. \A d \in CPUS : ~ AvisaAborto(i, d)'
        BY <2>2, <4>1 DEF OtrasCPUs, AbortaEn, AvisaAborto
      <4> QED  BY <1>1, <4>1, <4>2 DEF Aborta, AbortaEn, AvisaAborto
    <3>4. ~ Contestado(i)' /\ ~ Pide(i)'
      BY <3>1 DEF Contestado, Pide
    <3>5. ~ EsperaTurno(i)' /\ Existe(i)' /\ ~ En(i, "nuevos")' /\ ~ En(i, "terminados")'
      BY <1>1, <1>2, <3>1 DEF EsperaTurno, Vive, Existe, En
    <3> QED  BY <1>1, <1>2, <3>2, <3>3, <3>4, <3>5, FasePierde
  <2> QED  BY <2>1, <2>2
<1>8. Cambia(i, "corre", Fase(i)')
  BY <1>1, <1>2, <1>4, CicloConCambio
<1>9. CASE Fase(i)' = "aborta"
  <2>1. Cambia(i, "corre", "aborta")
    BY <1>8, <1>9 DEF Cambia
  <2> QED  BY <1>5, <1>6, <2>1, CicloPasos
<1>10. CASE Fase(i)' = "perdido"
  <2>1. Cambia(i, "corre", "perdido")
    BY <1>8, <1>10 DEF Cambia
  <2> QED  BY <1>5, <1>6, <2>1, CicloPasos
<1> QED
  BY <1>7, <1>9, <1>10

(* A CPU receives a script. *)
LEMMA RecibirCiclo ==
    ASSUME EnMarcha, InvTurnos', ~ caida, NEW c \in CPUS, RecibirDTB(c), UNCHANGED <<safa, dam>>
    PROVE  PasoDelCiclo
<1>1. CpuTypeOK /\ cpuADam \in [CPUS -> Seq(PedidoDAM)] /\ SafaTypeOK' /\ UNCHANGED iniGDT
  BY DEF EnMarcha, SafaInv, RedTypeOK, InvTurnos, InvLugar, InvDummy, TypeOK, safa, datosDTB
<1>2. /\ cpu[c].en = "espera" /\ Hay(safaACpu, c)
      /\ safaACpu' = Recibir(safaACpu, c)
      /\ UNCHANGED <<cpuASafa, damACpu, damASafa>>
  BY DEF RecibirDTB
<1> DEFINE m == Head(safaACpu[c])
<1>3. /\ m \in MensajeDTB /\ m.id \in DTB
      /\ Len(m.archivos) = m.cantidad
      /\ DOMAIN safaACpu[c] = {1} /\ safaACpu[c][1] = m
      /\ safaACpu'[c] = <<>> /\ DOMAIN safaACpu'[c] = {}
      /\ \A d \in CPUS \ {c} : safaACpu'[d] = safaACpu[d]
  BY <1>2, RecibeMensaje
<1> DEFINE f == [en |-> "lee", dtb |-> m.id, abiertos |-> ToSet(m.archivos), resto |-> QUANTUM]
<1>4. \/ /\ m.ini = 0 /\ cpu' = [cpu EXCEPT ![c] = [f EXCEPT !.en = "dummy"]]
         /\ PedirADAM(c, "AbrirPathParaProceso", m.id, Escriptorio)
      \/ /\ m.ini = 1 /\ cpu' = [cpu EXCEPT ![c] = f]
         /\ UNCHANGED cpuADam
  <2>1. Len(m.archivos) \in Nat /\ m.cantidad \in Nat
    BY <1>3 DEF MensajeDTB
  <2>2. ~ (Len(m.archivos) < m.cantidad)
    BY <1>3, <2>1
  <2> QED  BY <2>2 DEF RecibirDTB
<1>5. PICK i \in DTB : i = m.id
  BY <1>3
<1>6. f.en = "lee" /\ f.dtb = i /\ [f EXCEPT !.en = "dummy"].en = "dummy"
  BY <1>5
<1>7. CorreEn(i, c)
  BY <1>3, <1>5 DEF CorreEn, Trae
<1>8. CASE m.ini = 0
  <2>1. cpu' = [cpu EXCEPT ![c] = [f EXCEPT !.en = "dummy"]]
    BY <1>4, <1>8
  <2>2. cpu'[c].en = "dummy" /\ \A d \in CPUS \ {c} : cpu'[d] = cpu[d]
    <3> HIDE DEF f
    <3> QED  BY <1>1, <1>6, <2>1 DEF CpuTypeOK
  <2> DEFINE p == [tipo |-> "AbrirPathParaProceso", id |-> i, path |-> Escriptorio]
  <2>3. p.id = i /\ cpuADam' = Enviar(cpuADam, c, p)
    BY <1>4, <1>5, <1>8 DEF PedirADAM
  <2> HIDE DEF p, m, f
  <2>4. \A j : ~ CorreEn(j, c)'
    BY <1>3, <2>2 DEF CorreEn, Trae
  <2>5. OtrasCPUs(c)
    <3>1. \A d \in CPUS \ {c} : cpuADam'[d] = cpuADam[d]
      BY <1>1, <2>3 DEF Enviar
    <3> QED  BY <1>2, <1>3, <2>2, <3>1 DEF OtrasCPUs
  <2> QED
    BY <1>2, <1>7, <2>3, <2>4, <2>5, PideCiclo
<1>9. CASE m.ini = 1
  <2>1. cpu'[c].en = "lee" /\ cpu'[c].dtb = i /\ \A d \in CPUS \ {c} : cpu'[d] = cpu[d]
    <3>1. cpu' = [cpu EXCEPT ![c] = f]
      BY <1>4, <1>9
    <3> HIDE DEF f
    <3> QED  BY <1>1, <1>6, <3>1 DEF CpuTypeOK
  <2>2. UNCHANGED cpuADam
    BY <1>4, <1>9
  <2> HIDE DEF f, m
  <2>3. \A j : CorreEn(j, c)' <=> CorreEn(j, c)
    <3>1. \A j : CorreEn(j, c) <=> j = i
      BY <1>7, CPUConUno
    <3>2. \A j : CorreEn(j, c)' <=> j = i
      BY <1>3, <2>1 DEF CorreEn, Trae
    <3> QED  BY <3>1, <3>2
  <2>4. \A j : /\ AvisaAborto(j, c)' <=> AvisaAborto(j, c)
               /\ Trae(cpuADam, c, j)' <=> Trae(cpuADam, c, j)
    BY <1>2, <2>2 DEF AvisaAborto, Trae
  <2>5. OtrasCPUs(c)
    BY <1>2, <1>3, <2>1, <2>2 DEF OtrasCPUs
  <2>6. \A j \in DTB : MismaFase(j)
    BY <1>2, <2>3, <2>4, <2>5, FaseEnCPU
  <2> QED  BY <1>1, <2>6, CicloSinCambio
<1> QED
  BY <1>4, <1>8, <1>9
(* A CPU runs its only sentence, or hears that the DAM has begun. *)
LEMMA CPUCiclo ==
    ASSUME EnMarcha, InvTurnos', ~ caida, QUANTUM = 1, NEW c \in CPUS,
           PasoCPU(c) \/ SentenciaCPU(c), UNCHANGED <<safa, dam>>
    PROVE  PasoDelCiclo
<1>1. CpuTypeOK /\ SafaTypeOK' /\ UNCHANGED iniGDT
  BY DEF EnMarcha, InvTurnos, InvLugar, InvDummy, TypeOK, safa, datosDTB
<1>2. /\ cpuADam \in [CPUS -> Seq(PedidoDAM)] /\ cpuASafa \in [CPUS -> Seq(MensajeCPU)]
      /\ VueltaDe(c)
  BY TurnoPartes DEF EnMarcha, SafaInv, RedTypeOK, UnTurnoPorVez
<1>3. ASSUME Corre(c), NEW t, cpuASafa' = Enviar(cpuASafa, c, [tipo |-> t, id |-> cpu[c].dtb])
      PROVE  /\ \A d \in CPUS \ {c} : cpuASafa'[d] = cpuASafa[d]
             /\ \A j : /\ ~ AvisaAborto(j, c)
                       /\ AvisaAborto(j, c)' => t = "AbortarDTB" /\ j = cpu[c].dtb
  <2>1. ~ Hay(cpuASafa, c)
    BY <1>2, <1>3 DEF VueltaDe
  <2> DEFINE a == [tipo |-> t, id |-> cpu[c].dtb]
  <2>2. a.tipo = t /\ a.id = cpu[c].dtb /\ cpuASafa' = Enviar(cpuASafa, c, a)
    BY <1>3
  <2>3. ASSUME NEW j, a = [tipo |-> "AbortarDTB", id |-> j]
        PROVE  t = "AbortarDTB" /\ j = cpu[c].dtb
    BY <2>2, <2>3
  <2> HIDE DEF a
  <2>4. /\ cpuASafa[c] = <<>> /\ DOMAIN cpuASafa[c] = {}
        /\ DOMAIN cpuASafa'[c] = {1} /\ cpuASafa'[c][1] = a
        /\ \A d \in CPUS \ {c} : cpuASafa'[d] = cpuASafa[d]
    <3>1. cpuASafa \in [CPUS -> Seq(MensajeCPU)]
      BY <1>2
    <3> QED  BY <2>1, <2>2, <3>1, EnviaUno
  <2> QED  BY <2>3, <2>4 DEF AvisaAborto
<1>4. ASSUME cpu' = [cpu EXCEPT ![c] = Libre] \/ Pasar(c, "colgada") \/ Pasar(c, "esperaDAM")
      PROVE  /\ cpu'[c].en \in {"espera", "colgada", "esperaDAM"}
             /\ \A d \in CPUS \ {c} : cpu'[d] = cpu[d]
  BY <1>1, <1>4 DEF Libre, Pasar, CpuTypeOK, EstadoCPU
<1>5. Corre(c) => \A j : ~ Trae(safaACpu, c, j)
  <2>1. DOMAIN <<>> = {}
    OBVIOUS
  <2> QED  BY <1>2, <2>1 DEF VueltaDe, Trae, Hay
<1>6. CASE RecibirDTB(c)
  BY <1>6, RecibirCiclo
<1>7. CASE DesalojarDummy(c) \/ DesalojarDTB(c)
  <2>1. /\ cpu[c].en \in {"dummy", "esperaDAM"} /\ Corre(c)
        /\ cpuASafa' = Enviar(cpuASafa, c, [tipo |-> "BloquearDTB", id |-> cpu[c].dtb])
        /\ UNCHANGED <<safaACpu, cpuADam, damASafa>>
    BY <1>7 DEF DesalojarDummy, DesalojarDTB, AvisarSAFA, Corre
  <2>2. cpu' = [cpu EXCEPT ![c] = Libre]
    BY <1>1, <1>7, ConQuantumUno DEF DesalojarDummy, DesalojarDTB
  <2>3. cpu'[c].en # "lee" /\ \A d \in CPUS \ {c} : cpu'[d] = cpu[d]
    BY <1>4, <2>2
  <2>4. /\ \A d \in CPUS \ {c} : cpuASafa'[d] = cpuASafa[d]
        /\ \A j : ~ AvisaAborto(j, c) /\ ~ AvisaAborto(j, c)'
    <3>1. "BloquearDTB" # "AbortarDTB"
      OBVIOUS
    <3> QED  BY <1>3, <2>1, <3>1
  <2>5. \A j : /\ CorreEn(j, c)' <=> CorreEn(j, c)
               /\ Trae(cpuADam, c, j)' <=> Trae(cpuADam, c, j)
    BY <2>1, <2>3 DEF CorreEn, Trae
  <2>6. OtrasCPUs(c)
    BY <2>1, <2>3, <2>4 DEF OtrasCPUs
  <2>7. \A j \in DTB : MismaFase(j)
    BY <2>1, <2>4, <2>5, <2>6, FaseEnCPU
  <2> QED  BY <1>1, <2>7, CicloSinCambio
<1>8. CASE SentenciaCPU(c)
  <2>1. cpu[c].en = "lee" /\ Corre(c) /\ UNCHANGED <<safaACpu, damASafa>>
    BY <1>8 DEF SentenciaCPU, Concentrar, AbortarSentencia, RetenerRecurso, LiberarRecurso,
                EsperarAFM9, Abrir, Crear, Borrar, Lee, Corre, red
  <2>2. PICK i \in DTB : i = cpu[c].dtb /\ CorreEn(i, c)
    BY <1>1, <2>1 DEF CpuTypeOK, CorreEn
  <2>3. ASSUME cpu'[c].en # "lee"  PROVE \A j : ~ CorreEn(j, c)'
    <3>1. \A j : ~ Trae(safaACpu, c, j)'
      BY <1>5, <2>1 DEF Trae
    <3> QED  BY <2>3, <3>1 DEF CorreEn, Trae
  <2>4. CASE \/ Concentrar(c) \/ AbortarSentencia(c) \/ RetenerRecurso(c)
             \/ LiberarRecurso(c) \/ EsperarAFM9(c)
    <3>1. cpu' = [cpu EXCEPT ![c] = Libre] \/ Pasar(c, "colgada")
      BY <1>1, <2>1, <2>4, ConQuantumUno DEF Concentrar, AbortarSentencia, LiberarRecurso,
                                             RetenerRecurso, EsperarAFM9
    <3>2. /\ cpu'[c].en # "lee" /\ \A d \in CPUS \ {c} : cpu'[d] = cpu[d]
          /\ UNCHANGED cpuADam
      BY <1>4, <2>4, <3>1 DEF Concentrar, AbortarSentencia, LiberarRecurso, RetenerRecurso,
                              EsperarAFM9, red
    <3>3. /\ \A d \in CPUS \ {c} : cpuASafa'[d] = cpuASafa[d]
          /\ \A j : AvisaAborto(j, c)' => j = i
      <4>1. CASE Concentrar(c) \/ EsperarAFM9(c)
        <5>1. UNCHANGED cpuASafa
          BY <4>1 DEF Concentrar, EsperarAFM9, red
        <5>2. \A j : ~ AvisaAborto(j, c)
          BY <2>2, CPUConUno
        <5> QED  BY <5>1, <5>2 DEF AvisaAborto
      <4>2. CASE AbortarSentencia(c) \/ RetenerRecurso(c) \/ LiberarRecurso(c)
        <5>1. PICK t : cpuASafa' = Enviar(cpuASafa, c, [tipo |-> t, id |-> cpu[c].dtb])
          BY <4>2 DEF AbortarSentencia, RetenerRecurso, LiberarRecurso, AvisarSAFA
        <5> QED  BY <1>3, <2>1, <2>2, <5>1
      <4> QED  BY <2>4, <4>1, <4>2
    <3>4. OtrasCPUs(c)
      BY <2>1, <3>2, <3>3 DEF OtrasCPUs
    <3>5. \A j : ~ CorreEn(j, c)'
      BY <2>3, <3>2
    <3> QED
      BY <2>1, <2>2, <3>2, <3>3, <3>4, <3>5, AcabaCiclo
  <2>5. ASSUME NEW p \in Archivos, Abrir(c, p) \/ Crear(c, p) \/ Borrar(c, p)
        PROVE  PasoDelCiclo
    <3>1. Pasar(c, "esperaDAM") /\ UNCHANGED cpuASafa
      BY <2>5 DEF Abrir, Crear, Borrar
    <3>2. cpu'[c].en # "lee" /\ \A d \in CPUS \ {c} : cpu'[d] = cpu[d]
      BY <1>1, <3>1 DEF Pasar, CpuTypeOK, EstadoCPU
    <3>3. PICK m : m.id = i /\ cpuADam' = Enviar(cpuADam, c, m)
      <4>1. PICK tipo \in {"AbrirPathParaProceso", "CrearLineasEnArchivo",
                           "EliminarArchivoDeDisco", "FlushDeArchivoADisco"} :
               PedirADAM(c, tipo, i, p)
        BY <2>2, <2>5 DEF Abrir, Crear, Borrar
      <4>2. [tipo |-> tipo, id |-> i, path |-> p].id = i
        OBVIOUS
      <4> QED  BY <4>1, <4>2 DEF PedirADAM
    <3>4. OtrasCPUs(c)
      <4>1. \A d \in CPUS \ {c} : cpuADam'[d] = cpuADam[d]
        BY <1>2, <3>3 DEF Enviar
      <4> QED  BY <2>1, <3>1, <3>2, <4>1 DEF OtrasCPUs
    <3>5. \A j : ~ CorreEn(j, c)'
      BY <2>3, <3>2
    <3> QED
      BY <2>1, <2>2, <3>1, <3>3, <3>4, <3>5, PideCiclo
  <2> QED
    BY <1>8, <2>4, <2>5 DEF SentenciaCPU
<1> QED
  BY <1>6, <1>7, <1>8 DEF PasoCPU
-----------------------------------------------------------------------------
(* The DAM *)

LEMMA AtiendeCiclo ==
    ASSUME EnMarcha, InvTurnos', ~ caida, NEW c \in CPUS, Atiende(c), UNCHANGED <<safa, cpu>>
    PROVE  PasoDelCiclo
<1>1. /\ UnTurnoPorVez /\ SafaTypeOK' /\ ~ caida'
      /\ UNCHANGED <<iniGDT, id, com, cola, plp, pcp>>
  BY DEF EnMarcha, InvTurnos, InvLugar, InvDummy, TypeOK, safa, datosDTB, hilos
<1>2. /\ dam.en = "select" /\ Hay(cpuADam, c) /\ cpuADam' = Recibir(cpuADam, c)
      /\ UNCHANGED <<safaACpu, cpuASafa, damASafa>>
  BY DEF Atiende, OperacionAbrirPath, OperacionCrearArchivo, OperacionIncompleta, Toma
<1>3. PedidoDe(c) /\ cpuADam \in [CPUS -> Seq(PedidoDAM)]
  BY <1>1, TurnoPartes DEF UnTurnoPorVez, EnMarcha, SafaInv, RedTypeOK
<1>4. /\ DOMAIN cpuADam[c] = {1} /\ cpuADam[c][1] = Head(cpuADam[c])
      /\ Head(cpuADam[c]) \in PedidoDAM
      /\ DOMAIN cpuADam'[c] = {} /\ \A d \in CPUS \ {c} : cpuADam'[d] = cpuADam[d]
  BY <1>2, <1>3, RecibeUno DEF PedidoDe
<1>5. PICK i \in DTB : i = Head(cpuADam[c]).id /\ Trae(cpuADam, c, i)
  BY <1>4 DEF PedidoDAM, Trae
<1>6. /\ dam'.en \in {"carga", "informa", "colgado"}
      /\ dam'.en # "colgado" => dam'.respuesta.id = i
  <2>1. CASE dam' = [dam EXCEPT !.en = "colgado"]
    BY <2>1 DEF EnMarcha, DamTypeOK
  <2>2. ASSUME NEW e \in {"carga", "informa"}, NEW op, NEW res,
               dam' = [en |-> e, respuesta |-> Respuesta(op, res, Head(cpuADam[c]))]
        PROVE  dam'.en = e /\ dam'.respuesta.id = i
    BY <1>5, <2>2 DEF Respuesta
  <2> QED
    BY <2>1, <2>2 DEF Atiende, OperacionAbrirPath, OperacionCrearArchivo, OperacionIncompleta
<1>7. Fase(i) = "pide"
  BY <1>5, FaseClara, FasePorCPU DEF SoloFase
<1>8. \A j : /\ EnCPU(j)' <=> EnCPU(j)
             /\ Aborta(j)' <=> Aborta(j)
  BY <1>1, <1>2 DEF EnCPU, Aborta
<1>9. \A j \in DTB \ {i} : MismaFase(j)
  <2> SUFFICES ASSUME NEW j \in DTB \ {i}  PROVE MismaFase(j)
    OBVIOUS
  <2>1. \A d \in CPUS : Trae(cpuADam, d, j)' <=> Trae(cpuADam, d, j)
    BY <1>4, <1>5 DEF Trae
  <2>2. ~ EnCarga(j) /\ ~ EnCarga(j)'
    BY <1>2, <1>6 DEF EnCarga
  <2>3. Contestado(j)' <=> Contestado(j)
    BY <1>2, <1>6 DEF Contestado
  <2>4. \A d \in CPUS : /\ CorreEn(j, d)' <=> CorreEn(j, d)
                        /\ AbortaEn(j, d)' <=> AbortaEn(j, d)
    BY <1>1, <1>2 DEF CorreEn, Trae, AbortaEn, AvisaAborto
  <2> QED  BY <2>1, <2>2, <2>3, <2>4, FaseEnRed
<1>10. UNCHANGED Dummies
  BY <1>1 DEF Dummies
<1>11. CASE dam'.en = "carga"
  <2>1. Pide(i)'
    BY <1>6, <1>11 DEF Pide
  <2>2. Fase(i)' = "pide"
    BY <1>1, <2>1, FaseLuego DEF SoloFase
  <2>3. \A j \in DTB : Fase(j)' = Fase(j)
    BY <1>1, <1>7, <1>9, <2>2, FaseSigue
  <2> QED  BY <1>10, <2>3, CicloQuieto
<1>12. CASE dam'.en = "informa"
  <2>1. Contestado(i)'
    BY <1>6, <1>12 DEF Contestado
  <2>2. Fase(i)' = "contestado"
    BY <1>1, <2>1, FaseLuego DEF SoloFase
  <2>3. Cambia(i, "pide", "contestado")
    BY <1>1, <1>7, <1>9, <2>2, CicloConCambio
  <2> QED  BY <1>10, <2>3, CicloPasos
<1>13. CASE dam'.en = "colgado"
  <2>1. /\ Pide(i) /\ ~ Contestado(i) /\ ~ EnCPU(i) /\ ~ Aborta(i) /\ ~ EsperaTurno(i)
    BY <1>7, FaseClara DEF SoloFase
  <2>2. Vive(i)
    BY <2>1, EnEspera
  <2>3. ~ Pide(i)'
    <3>1. ~ EnCarga(i)'
      BY <1>13 DEF EnCarga
    <3>2. ASSUME NEW d \in CPUS, Trae(cpuADam, d, i)'  PROVE FALSE
      <4>1. d # c /\ Trae(cpuADam, d, i)
        BY <1>4, <3>2 DEF Trae
      <4>2. Lleva(d, i) /\ Lleva(c, i)
        BY <1>5, <4>1, PedidoDeQuien
      <4> QED  BY <4>1, <4>2, EnTurno
    <3> QED  BY <3>1, <3>2 DEF Pide, EnCarga, Trae
  <2>4. ~ Contestado(i)'
    BY <1>2, <1>13, <2>1 DEF Contestado
  <2>5. ~ EsperaTurno(i)' /\ Existe(i)' /\ ~ En(i, "nuevos")' /\ ~ En(i, "terminados")'
    BY <1>1, <2>1, <2>2 DEF EsperaTurno, Vive, Existe, En
  <2>6. Fase(i)' = "perdido"
    BY <1>1, <1>8, <2>1, <2>2, <2>3, <2>4, <2>5, FasePierde
  <2>7. Cambia(i, "pide", "perdido")
    BY <1>1, <1>7, <1>9, <2>6, CicloConCambio
  <2> QED  BY <1>10, <2>7, CicloPasos
<1> QED
  BY <1>6, <1>11, <1>12, <1>13

LEMMA RespondeCiclo ==
    ASSUME EnMarcha, InvTurnos', ~ caida, CargarEnFM9(FM9_colgado) \/ InformarASafa,
           UNCHANGED <<safa, cpu>>
    PROVE  PasoDelCiclo
<1>1. /\ SafaTypeOK' /\ ~ caida' /\ UNCHANGED <<iniGDT, com>>
      /\ dam.respuesta \in RespuestaDAM
  BY DEF EnMarcha, DamTypeOK, InvTurnos, InvLugar, InvDummy, TypeOK, safa, datosDTB, hilos
<1>2. UNCHANGED <<safaACpu, cpuASafa, cpuADam>>
  BY DEF CargarEnFM9, InformarASafa, red
<1>3. PICK i \in DTB : i = dam.respuesta.id
  BY <1>1 DEF RespuestaDAM
<1>4. \A j : \A d \in CPUS : /\ CorreEn(j, d)' <=> CorreEn(j, d)
                             /\ AbortaEn(j, d)' <=> AbortaEn(j, d)
                             /\ Trae(cpuADam, d, j)' <=> Trae(cpuADam, d, j)
  BY <1>1, <1>2 DEF CorreEn, Trae, AbortaEn, AvisaAborto
<1>5. CASE CargarEnFM9(FM9_colgado)
  <2>1. /\ dam.en = "carga" /\ dam'.en = "informa" /\ dam'.respuesta.id = i
        /\ UNCHANGED damASafa
    BY <1>1, <1>3, <1>5 DEF CargarEnFM9, RespuestaDAM, red
  <2>2. ASSUME NEW j \in DTB \ {i}  PROVE MismaFase(j)
    <3>1. /\ Contestado(j)' <=> Contestado(j)
          /\ EnCarga(j)' <=> EnCarga(j)
      BY <1>3, <2>1 DEF Contestado, EnCarga
    <3> QED  BY <1>4, <3>1, FaseEnRed
  <2>3. Fase(i) = "pide"
    <3>1. Pide(i)
      BY <1>3, <2>1 DEF Pide
    <3> QED  BY <3>1, FaseClara DEF SoloFase
  <2>4. Fase(i)' = "contestado"
    <3>1. Contestado(i)'
      BY <2>1 DEF Contestado
    <3> QED  BY <1>1, <3>1, FaseLuego DEF SoloFase
  <2>5. Cambia(i, "pide", "contestado")
    BY <1>1, <2>2, <2>3, <2>4, CicloConCambio
  <2>6. UNCHANGED Dummies
    BY <1>1 DEF Dummies
  <2> QED  BY <2>5, <2>6, CicloPasos
<1>6. CASE InformarASafa
  <2>1. /\ damASafa \in Seq(RespuestaDAM) /\ damASafa' = Append(damASafa, dam.respuesta)
        /\ dam.en = "informa" /\ dam'.en = "select"
    BY <1>6 DEF InformarASafa, EnMarcha, SafaInv, RedTypeOK, DamTypeOK
  <2>2. /\ Len(damASafa) \in Nat /\ DOMAIN damASafa = 1 .. Len(damASafa)
        /\ DOMAIN damASafa' = 1 .. Len(damASafa) + 1
        /\ \A k \in DOMAIN damASafa : damASafa'[k] = damASafa[k]
        /\ damASafa'[Len(damASafa) + 1].id = i
    BY <1>3, <2>1
  <2>3. \A j : Respondido(j)' <=> Respondido(j) \/ j = i
    BY <2>2 DEF Respondido
  <2>4. \A j : Contestado(j)' <=> Contestado(j)
    BY <1>3, <2>1, <2>3 DEF Contestado, Respondido
  <2>5. \A j : EnCarga(j)' <=> EnCarga(j)
    BY <2>1 DEF EnCarga
  <2>6. \A j \in DTB : MismaFase(j)
    BY <1>4, <2>4, <2>5, FaseEnRed
  <2> QED  BY <1>1, <2>6, CicloSinCambio
<1> QED
  BY <1>5, <1>6

-----------------------------------------------------------------------------
LEMMA CicloInicial ==
    Init => Ciclo!CicloInit
<1> SUFFICES ASSUME Init  PROVE Ciclo!CicloInit
  OBVIOUS
<1>1. id = 1 /\ iniGDT = [i \in DTB |-> 1] /\ ~ caida
  BY DEF Init, SafaInit
<1>2. EnMarcha
  BY <1>1, InvTurnosInit, EnMarchaSi
<1>3. \A i \in DTB : Fase(i) = "sinCrear"
  <2>1. \A i \in DTB : ~ Existe(i)
    BY <1>1 DEF DTB, Existe
  <2> QED  BY <1>2, <2>1, FaseClara DEF SoloFase
<1>4. Dummies = {}
  BY <1>1 DEF Dummies
<1> QED
  BY <1>3, <1>4 DEF Ciclo!CicloInit

(* Nothing changes the phases when nothing changes. *)
LEMMA FaseQuieta ==
    ASSUME NEW j, UNCHANGED <<id, cola, plp, pcp, com, cpu, dam, safaACpu, cpuASafa, cpuADam,
                              damASafa>>
    PROVE  Fase(j)' = Fase(j)
  BY DEF Fase, En, Contestado, Pide, EnCPU, Aborta, EsperaTurno

LEMMA PasoCiclo ==
    ASSUME ALGORITMO # "VRR", "finalizar" \notin Comandos, QUANTUM = 1
    PROVE  InvTurnos /\ InvTurnos' /\ [Next]_vars => [Ciclo!CicloNext]_(Ciclo!ciclo)
<1> SUFFICES ASSUME InvTurnos, InvTurnos', [Next]_vars  PROVE PasoDelCiclo
  BY DEF PasoDelCiclo
<1>1. CASE UNCHANGED vars
  <2>1. UNCHANGED <<id, iniGDT, cola, plp, pcp, com, cpu, dam, safaACpu, cpuASafa, cpuADam,
                    damASafa>>
    BY <1>1 DEF vars, safa, datosDTB, hilos, red
  <2>2. \A j \in DTB : Fase(j)' = Fase(j)
    <3> SUFFICES ASSUME NEW j \in DTB  PROVE Fase(j)' = Fase(j)
      OBVIOUS
    <3> QED  BY <2>1, FaseQuieta
  <2>3. UNCHANGED Dummies
    BY <2>1 DEF Dummies
  <2> QED  BY <2>2, <2>3, CicloQuieto
<1>2. CASE Next
  <2>1. ~ caida /\ EnMarcha /\ SafaInv /\ LugarInv
    BY <1>2, EnMarchaSi DEF Next, EnMarcha
  <2>2. CASE PasoSafa /\ UNCHANGED <<cpu, FM9_colgado, dam>>
    <3>1. CASE Consola
      <4>1. EjecutarEscriptorio
        BY <2>1, <3>1, ConsolaUbica
      <4> QED  BY <2>1, <2>2, <4>1, ConsolaCiclo
    <3>2. UNCHANGED <<cpu, dam>>
      BY <2>2
    <3> QED
      BY <2>1, <2>2, <3>1, <3>2, ConexionCiclo, HiloDMACiclo, HiloPLPCiclo, HiloPCPCiclo,
         HiloCPUCiclo DEF PasoSafa
  <2>3. ASSUME NEW c \in CPUS, PasoCPU(c) \/ SentenciaCPU(c), UNCHANGED <<safa, dam>>
        PROVE  PasoDelCiclo
    BY <2>1, <2>3, CPUCiclo
  <2>4. CASE PasoDAM /\ UNCHANGED <<safa, cpu, FM9_colgado>>
    BY <2>1, <2>4, AtiendeCiclo, RespondeCiclo DEF PasoDAM
  <2> QED
    BY <1>2, <2>2, <2>3, <2>4 DEF Next
<1> QED
  BY <1>1, <1>2

(* CicloCumplido: the threads, the CPUs and the DAM, interleaved as they     *)
(* may be, implement the life of a script of CicloDeScript.                  *)
THEOREM PlanificacionCumpleElCiclo ==
    ASSUME ALGORITMO # "VRR", "finalizar" \notin Comandos, QUANTUM = 1
    PROVE  Spec => CicloCumplido
<1>1. Init => Ciclo!CicloInit
  BY CicloInicial
<1>2. InvTurnos /\ InvTurnos' /\ [Next]_vars => [Ciclo!CicloNext]_(Ciclo!ciclo)
  BY PasoCiclo
<1>3. Spec => []InvTurnos
  BY InvarianteDelTurno
<1> QED
  BY <1>1, <1>2, <1>3, PTL DEF Spec, CicloCumplido, Ciclo!CicloSpec
=============================================================================
