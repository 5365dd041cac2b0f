------------------------- MODULE PlanificacionProofs -------------------------
(***************************************************************************)
(* Proofs about Planificacion for every number of CPUs and scripts, every  *)
(* degree, quantum, algorithm, repertoire of sentences and use of the      *)
(* console: the types, and that the dummy is unique.                       *)
(***************************************************************************)
EXTENDS Planificacion, SequenceTheorems, WellFoundedInduction, TLAPS

-----------------------------------------------------------------------------
(* Lists and connections *)

(* list_remove_by_condition takes out one entry, an entry that matches. *)
LEMMA SacarUno ==
    ASSUME NEW S, NEW s \in Seq(S), NEW e, \E i \in 1 .. Len(s) : s[i] = e
    PROVE  \E k \in 1 .. Len(s) :
              /\ s[k] = e
              /\ RemoveFirst(s, e) = SubSeq(s, 1, k - 1) \o SubSeq(s, k + 1, Len(s))
<1> DEFINE k == SelectInSeq(s, LAMBDA v : v = e)
           I == {i \in 1 .. Len(s) : s[i] = e}
           R == OpToRel(<, Nat)
<1>1. R = {p \in Nat \X Nat : p[1] < p[2]}
  BY DEF OpToRel
<1>2. I # {} /\ I \subseteq Nat
  OBVIOUS
<1>3. PICK m \in I : \A j \in I : <<j, m>> \notin R
  <2> HIDE DEF R, I
  <2> QED  BY <1>2, NatLessThanWellFounded, WFMin DEF R
<1>4. \A j \in I : m <= j
  <2> SUFFICES ASSUME NEW j \in I, j < m PROVE FALSE
    BY <1>2
  <2>1. /\ <<j, m>> \in Nat \X Nat
        /\ <<j, m>>[1] < <<j, m>>[2]
    BY <1>2
  <2>2. <<j, m>> \in {p \in Nat \X Nat : p[1] < p[2]}
    BY <2>1
  <2> QED  BY <1>1, <1>3, <2>2
<1>5. k = Min(I)
  BY <1>2 DEF SelectInSeq
<1>6. k \in I
  BY <1>4, <1>5 DEF Min
<1>7. RemoveFirst(s, e) = SubSeq(s, 1, k - 1) \o SubSeq(s, k + 1, Len(s))
  BY DEF RemoveFirst, RemoveAt
<1> QED
  <2> HIDE DEF k
  <2> QED  BY <1>6, <1>7

(* It keeps the type of a list. *)
LEMMA SacarDeLista ==
    ASSUME NEW S, NEW s \in Seq(S), NEW e
    PROVE  RemoveFirst(s, e) \in Seq(S)
<1>1. CASE ~ \E i \in 1 .. Len(s) : s[i] = e
  BY <1>1 DEF RemoveFirst
<1>2. CASE \E i \in 1 .. Len(s) : s[i] = e
  <2>1. PICK k \in 1 .. Len(s) :
          RemoveFirst(s, e) = SubSeq(s, 1, k - 1) \o SubSeq(s, k + 1, Len(s))
    BY <1>2, SacarUno
  <2>2. /\ SubSeq(s, 1, k - 1) \in Seq(S)
        /\ SubSeq(s, k + 1, Len(s)) \in Seq(S)
    OBVIOUS
  <2> QED
    BY <2>1, <2>2
<1> QED
  BY <1>1, <1>2

(* A receive takes a message of the connection's type and leaves the rest.  *)
LEMMA RecibirDeCanal ==
    ASSUME NEW M, NEW f \in [CPUS -> Seq(M)], NEW c \in CPUS, Hay(f, c)
    PROVE  /\ Recibir(f, c) \in [CPUS -> Seq(M)]
           /\ Head(f[c]) \in M
  BY DEF Hay, Recibir

(* A send keeps the connection's type. *)
LEMMA EnviarPorCanal ==
    ASSUME NEW M, NEW f \in [CPUS -> Seq(M)], NEW c \in CPUS, NEW m \in M
    PROVE  Enviar(f, c, m) \in [CPUS -> Seq(M)]
  BY DEF Enviar

(* list_remove_by_condition on a scheduling list keeps their types. *)
LEMMA SacarOK ==
    ASSUME ColasOK(cola), NEW q \in Colas, NEW i
    PROVE  ColasOK(Sacar(q, i))
<1>1. /\ RemoveFirst(cola[q], i) \in Seq(DTB \cup {NULO})
      /\ q # "terminados" => RemoveFirst(cola[q], i) \in Seq(DTB)
  BY SacarDeLista DEF ColasOK
<1> QED
  BY <1>1 DEF ColasOK, Sacar

(* list_add keeps their types; only "terminados" may get a NULL. *)
LEMMA AgregarOK ==
    ASSUME NEW f, ColasOK(f), NEW q \in Colas, NEW i \in DTB \cup {NULO},
           q = "terminados" \/ i \in DTB
    PROVE  ColasOK(Agregar(f, q, i))
  BY DEF ColasOK, Agregar

(* Removing the head of a non-empty list yields a DTB, except in            *)
(* "terminados".                                                            *)
LEMMA CabezaOK ==
    ASSUME ColasOK(cola), NEW q \in Colas, cola[q] # <<>>, q # "terminados"
    PROVE  /\ Head(cola[q]) \in DTB
           /\ ColasOK([cola EXCEPT ![q] = Tail(@)])
<1>1. Head(cola[q]) \in DTB /\ Tail(cola[q]) \in Seq(DTB)
  BY DEF ColasOK
<1>2. Tail(cola[q]) \in Seq(DTB \cup {NULO})
  BY DEF ColasOK
<1> QED
  BY <1>1, <1>2 DEF ColasOK

(* Membership in a list other than "terminados" makes a DTB. *)
LEMMA EnColaOK ==
    ASSUME ColasOK(cola), NEW q \in Colas \ {"terminados"}, NEW i, En(i, q)
    PROVE  i \in DTB
  BY DEF ColasOK, En, ToSet

(* A DTB that list_remove_by_condition takes and list_add puts elsewhere. *)
LEMMA MoverOK ==
    ASSUME ColasOK(cola), NEW q \in Colas, NEW r \in Colas, NEW i \in DTB
    PROVE  ColasOK(Mover(i, q, r))
  BY SacarOK, AgregarOK DEF Mover
-----------------------------------------------------------------------------
(* One lemma per thread of SAFA: its steps keep SAFA's types and the        *)
(* connections', the uniqueness of the dummy, the PLP's window, and the     *)
(* free CPU of a dispatch.  They are proved together: hayDummy is a bit     *)
(* only while the dummy is unique, and the CPU of a dispatch is a CPU only  *)
(* while one is free.                                                       *)
SafaInv == /\ SafaTypeOK /\ RedTypeOK
           /\ DummyUnico /\ TomaSinDummy /\ DespachaConCPU

(* what the threads that do not touch the flags need to say of the dummy *)
LEMMA DummyIgual ==
    ASSUME DummyUnico, TomaSinDummy, UNCHANGED <<iniGDT, hayDummy>>,
           plp'.en = "toma" => plp.en = "toma"
    PROVE  DummyUnico' /\ TomaSinDummy'
  BY DEF DummyUnico, TomaSinDummy, Dummies

(* A crash changes nothing else. *)
LEMMA CaerOK ==
    ASSUME SafaTypeOK, DummyUnico, TomaSinDummy, DespachaConCPU, Caer
    PROVE  SafaTypeOK' /\ DummyUnico' /\ TomaSinDummy' /\ DespachaConCPU'
<1>1. SafaTypeOK'
  BY DEF Caer, SafaTypeOK, estado, datosDTB, cpus, pausas, hilos
<1>2. UNCHANGED <<iniGDT, hayDummy, plp, pcp, cpu_libres>>
  BY DEF Caer, datosDTB, hilos, cpus
<1>3. DespachaConCPU'
  BY <1>2 DEF DespachaConCPU
<1> QED
  BY <1>1, <1>2, <1>3, DummyIgual

(* A message SAFA takes from a CPU is well formed. *)
LEMMA RecibeOK ==
    ASSUME RedTypeOK, NEW c \in CPUS, NEW tipos, Recibe(c, tipos)
    PROVE  RedTypeOK' /\ Head(cpuASafa[c]).id \in DTB
<1>1. /\ cpuASafa' \in [CPUS -> Seq(MensajeCPU)]
      /\ Head(cpuASafa[c]) \in MensajeCPU
  BY RecibirDeCanal DEF Recibe, RedTypeOK
<1> QED
  BY <1>1 DEF Recibe, RedTypeOK, MensajeCPU

(* A thread that serves a CPU goes to another place... *)
LEMMA ComEnOK ==
    ASSUME ComOK(com), NEW c \in CPUS,
           NEW e \in {"conecta", "verifica", "espera", "bloquea", "libera",
                      "recibeRecurso"},
           e = "bloquea" => com[c].dtb \in DTB
    PROVE  ComOK([com EXCEPT ![c].en = e])
  BY DEF ComOK, EnHilo

(* ... or takes a DTB with it, or drops it. *)
LEMMA ComOKDTB ==
    ASSUME ComOK(com), NEW c \in CPUS,
           NEW e \in {"espera", "anota", "termina"}, NEW i \in DTB \cup {NULO},
           e = "anota" => i \in DTB
    PROVE  ComOK([com EXCEPT ![c] = [en |-> e, dtb |-> i]])
  BY DEF ComOK, EnHilo

(* A CPU that becomes free joins the end of the list of free CPUs. *)
LEMMA AgregarCPU ==
    ASSUME NEW s \in Seq(CPUS), NEW c \in CPUS
    PROVE  Append(s, c) \in Seq(CPUS) /\ Append(s, c) # <<>>
  BY AppendProperties, EmptySeq

(* the listener, and the first steps of the threads it starts *)
LEMMA ConexionOK ==
    ASSUME SafaInv, Conexion
    PROVE  SafaInv'
<1>1. UNCHANGED <<red, iniGDT, hayDummy, plp>>
  BY DEF Conexion, AceptarDAM, ArrancarHiloDMA, AceptarCPU, ConectarCPU,
         PasarSafaOperativo, datosDTB
<1>2. RedTypeOK'
  BY <1>1 DEF SafaInv, RedTypeOK, red
<1>3. DummyUnico' /\ TomaSinDummy'
  BY <1>1, DummyIgual DEF SafaInv
<1>4. SUFFICES SafaTypeOK' /\ DespachaConCPU'
  BY <1>2, <1>3 DEF SafaInv
<1> USE DEF SafaInv
<1>5. CASE AceptarDAM
  <2>1. SafaTypeOK'
    BY <1>5 DEF SafaTypeOK, AceptarDAM, estado, datosDTB, cpus, pausas
  <2>2. DespachaConCPU'
    BY <1>5 DEF AceptarDAM, DespachaConCPU, cpus
  <2> QED  BY <2>1, <2>2
<1>6. CASE ArrancarHiloDMA
  <2>1. SafaTypeOK'
    BY <1>6 DEF SafaTypeOK, ArrancarHiloDMA, datosDTB, cpus, pausas
  <2>2. DespachaConCPU'
    BY <1>6 DEF ArrancarHiloDMA, DespachaConCPU, cpus
  <2> QED  BY <2>1, <2>2
<1>7. ASSUME NEW c \in CPUS, AceptarCPU(c)  PROVE SafaTypeOK' /\ DespachaConCPU'
  <2>1. ComOK(com')
    BY <1>7, ComEnOK DEF SafaTypeOK, AceptarCPU
  <2>2. SafaTypeOK'
    BY <1>7, <2>1 DEF SafaTypeOK, AceptarCPU, estado, datosDTB, cpus, pausas
  <2>3. DespachaConCPU'
    BY <1>7 DEF AceptarCPU, DespachaConCPU, cpus
  <2> QED  BY <2>2, <2>3
<1>8. ASSUME NEW c \in CPUS, ConectarCPU(c)  PROVE SafaTypeOK' /\ DespachaConCPU'
  <2>1. ComOK(com')
    BY <1>8, ComEnOK DEF SafaTypeOK, ConectarCPU
  <2>2. /\ cpu_libres' \in Seq(CPUS)
        /\ cpu_libres' # <<>>
    <3>1. cpu_libres \in Seq(CPUS) /\ cpu_libres' = Append(cpu_libres, c)
      BY <1>8 DEF SafaTypeOK, ConectarCPU
    <3> QED  BY <3>1, AgregarCPU
  <2>3. UNCHANGED <<estadoSAFA, DAM_conectado, id, iniGDT, tabla, cola,
                    hayDummy, cpu_ejecutando, dtbConEqGrandeAbierto, pausaPLP,
                    pausaPCP, hiloDMA, plp, pcp, con, caida>>
    BY <1>8 DEF ConectarCPU, estado, datosDTB, pausas
  <2>4. SafaTypeOK'
    BY <2>1, <2>2, <2>3 DEF SafaTypeOK
  <2> QED  BY <2>2, <2>4 DEF DespachaConCPU
<1>9. ASSUME NEW c \in CPUS, PasarSafaOperativo(c)
      PROVE  SafaTypeOK' /\ DespachaConCPU'
  <2>1. ComOK(com')
    BY <1>9, ComEnOK DEF SafaTypeOK, PasarSafaOperativo
  <2>2. SafaTypeOK'
    BY <1>9, <2>1 DEF SafaTypeOK, PasarSafaOperativo, datosDTB, cpus, pausas
  <2>3. DespachaConCPU'
    BY <1>9 DEF PasarSafaOperativo, DespachaConCPU, cpus
  <2> QED  BY <2>2, <2>3
<1> QED
  BY <1>5, <1>6, <1>7, <1>8, <1>9 DEF Conexion

(* the thread of CPU c: the only one that unmakes the dummy *)
LEMMA HiloCPUOK ==
    ASSUME SafaInv, NEW c \in CPUS, HiloCPU(c)
    PROVE  SafaInv'
<1> USE DEF SafaInv
<1>1. ASSUME NEW tipos, Recibe(c, tipos), Caer  PROVE SafaInv'
  BY <1>1, RecibeOK, CaerOK
<1>2. ASSUME SafaTypeOK', DespachaConCPU', RedTypeOK',
             UNCHANGED <<iniGDT, hayDummy, plp>>
      PROVE  SafaInv'
  BY <1>2, DummyIgual
<1>3. ASSUME UNCHANGED red  PROVE RedTypeOK'
  BY <1>3 DEF RedTypeOK, red
<1>4. ASSUME UNCHANGED <<cpus, pcp>>  PROVE DespachaConCPU'
  BY <1>4 DEF DespachaConCPU, cpus
<1>5. CASE BloquearDTB(c)
  <2> DEFINE i == Head(cpuASafa[c]).id
  <2>1. Recibe(c, {"BloquearDTB"})
    BY <1>5 DEF BloquearDTB
  <2>2. RedTypeOK' /\ i \in DTB
    BY <2>1, RecibeOK
  <2>3. CASE Caer
    BY <2>1, <2>3, <1>1
  <2>4. CASE cola' = Sacar("ejecutando", i)
             /\ com' = [com EXCEPT ![c] = [en |-> "anota", dtb |-> i]]
             /\ UNCHANGED <<estado, datosDTB, hayDummy, cpus,
                            dtbConEqGrandeAbierto, pausas, hiloDMA, plp, pcp,
                            con, caida>>
    <3>1. ColasOK(cola')
      BY <2>4, SacarOK DEF SafaTypeOK, Colas
    <3>2. ComOK(com')
      BY <2>4, <2>2, ComOKDTB DEF SafaTypeOK
    <3>3. SafaTypeOK'
      BY <2>4, <3>1, <3>2 DEF SafaTypeOK, estado, datosDTB, cpus, pausas
    <3> QED
      BY <2>4, <2>2, <3>3, <1>2, <1>4 DEF datosDTB
  <2> QED
    BY <1>5, <2>3, <2>4 DEF BloquearDTB
<1>6. CASE AbortarDTB(c)
  <2> DEFINE i == Head(cpuASafa[c]).id
  <2>1. RedTypeOK' /\ i \in DTB
    BY <1>6, RecibeOK DEF AbortarDTB
  <2>2. ColasOK(cola')
    BY <1>6, SacarOK DEF AbortarDTB, SafaTypeOK, Colas
  <2>3. ComOK(com')
    BY <1>6, <2>1, ComOKDTB DEF AbortarDTB, SafaTypeOK
  <2>4. SafaTypeOK'
    BY <1>6, <2>2, <2>3 DEF AbortarDTB, SafaTypeOK, estado, datosDTB, cpus,
                            pausas
  <2> QED
    BY <1>6, <2>1, <2>4, <1>2, <1>4 DEF AbortarDTB, datosDTB
<1>7. CASE PedirRecurso(c)
  <2>1. Recibe(c, {"RetenerRecurso", "LiberarRecurso"})
    BY <1>7 DEF PedirRecurso
  <2>2. CASE Caer
    BY <2>1, <2>2, <1>1
  <2>3. CASE ~ Caer
    <3>1. ComOK(com')
      BY <1>7, <2>3, ComEnOK DEF PedirRecurso, SafaTypeOK
    <3>2. SafaTypeOK'
      BY <1>7, <2>3, <3>1 DEF PedirRecurso, SafaTypeOK, estado, datosDTB,
                              cpus, pausas
    <3>3. RedTypeOK'
      BY <2>1, RecibeOK
    <3> QED
      BY <1>7, <2>3, <3>2, <3>3, <1>2, <1>4 DEF PedirRecurso, datosDTB
  <2> QED  BY <2>2, <2>3
<1>8. CASE CrearRecurso(c)
  BY <1>8, CaerOK, <1>3 DEF CrearRecurso
<1>9. CASE AnotarDummy(c)
  <2> DEFINE i == com[c].dtb
  <2>1. i \in DTB /\ ComOK(com')
    <3>1. i \in DTB
      BY <1>9 DEF AnotarDummy, SafaTypeOK, ComOK
    <3> QED
      BY <1>9, <3>1, ComEnOK DEF AnotarDummy, SafaTypeOK
  <2>2. DummyUnico' /\ hayDummy' \in {0, 1}
    <3>1. CASE iniGDT[i] = 0
      <4>1. Dummies = {i} /\ hayDummy = 1
        BY <2>1, <3>1 DEF DummyUnico, Dummies
      <4>2. iniGDT' = [iniGDT EXCEPT ![i] = 1] /\ hayDummy' = 0
        BY <1>9, <3>1, <4>1 DEF AnotarDummy
      <4>3. Dummies' = {}
        BY <4>1, <4>2 DEF Dummies, SafaTypeOK
      <4> QED  BY <4>2, <4>3 DEF DummyUnico
    <3>2. CASE iniGDT[i] # 0
      <4>1. iniGDT' = iniGDT /\ hayDummy' = hayDummy
        BY <1>9, <2>1, <3>2 DEF AnotarDummy, SafaTypeOK
      <4> QED  BY <4>1 DEF SafaTypeOK, DummyUnico, Dummies
    <3> QED  BY <3>1, <3>2
  <2>3. TomaSinDummy'
    <3>1. UNCHANGED plp
      BY <1>9 DEF AnotarDummy
    <3>2. ASSUME hayDummy = 0  PROVE hayDummy' = 0
      BY <3>2, <2>1, <1>9 DEF AnotarDummy, DummyUnico, Dummies
    <3> QED  BY <3>1, <3>2 DEF TomaSinDummy
  <2>4. iniGDT' \in [DTB -> {0, 1}]
    BY <1>9 DEF AnotarDummy, SafaTypeOK
  <2>5. SafaTypeOK'
    BY <1>9, <2>1, <2>2, <2>4 DEF AnotarDummy, SafaTypeOK, estado, cpus, pausas
  <2>6. RedTypeOK' /\ DespachaConCPU'
    BY <1>9, <1>3, <1>4 DEF AnotarDummy
  <2> QED
    BY <2>2, <2>3, <2>5, <2>6
<1>10. CASE AgregarBloqueado(c)
  <2>1. com[c].dtb \in DTB
    BY <1>10 DEF AgregarBloqueado, SafaTypeOK, ComOK
  <2>2. ColasOK(cola')
    BY <1>10, <2>1, AgregarOK DEF AgregarBloqueado, SafaTypeOK, Colas
  <2>3. ComOK(com')
    BY <1>10, ComEnOK DEF AgregarBloqueado, SafaTypeOK
  <2>4. SafaTypeOK'
    BY <1>10, <2>2, <2>3 DEF AgregarBloqueado, SafaTypeOK, estado, datosDTB,
                             cpus, pausas
  <2> QED
    BY <1>10, <2>4, <1>2, <1>3, <1>4 DEF AgregarBloqueado, datosDTB
<1>11. CASE AgregarTerminado(c)
  <2>1. com[c].dtb \in DTB \cup {NULO}
    BY DEF SafaTypeOK, ComOK, EnHilo
  <2>2. ColasOK(cola')
    BY <1>11, <2>1, AgregarOK DEF AgregarTerminado, SafaTypeOK, Colas
  <2>3. ComOK(com')
    BY <1>11, ComEnOK DEF AgregarTerminado, SafaTypeOK
  <2>4. SafaTypeOK'
    BY <1>11, <2>2, <2>3 DEF AgregarTerminado, SafaTypeOK, estado, datosDTB,
                             cpus, pausas
  <2> QED
    BY <1>11, <2>4, <1>2, <1>3, <1>4 DEF AgregarTerminado, datosDTB
<1>12. CASE LiberarCPU(c)
  <2>1. ComOK(com')
    BY <1>12, ComOKDTB DEF LiberarCPU, SafaTypeOK
  <2>2. /\ cpu_libres' \in Seq(CPUS)
        /\ cpu_libres' # <<>>
    <3>1. cpu_libres \in Seq(CPUS) /\ cpu_libres' = Append(cpu_libres, c)
      BY <1>12 DEF LiberarCPU, SafaTypeOK
    <3> QED  BY <3>1, AgregarCPU
  <2>3. caida' \in BOOLEAN
    BY <1>12 DEF LiberarCPU
  <2>4. UNCHANGED <<estadoSAFA, DAM_conectado, id, iniGDT, tabla, cola,
                    hayDummy, cpu_ejecutando, dtbConEqGrandeAbierto, pausaPLP,
                    pausaPCP, hiloDMA, plp, pcp, con>>
    BY <1>12 DEF LiberarCPU, estado, datosDTB, pausas
  <2>5. SafaTypeOK'
    BY <2>1, <2>2, <2>3, <2>4 DEF SafaTypeOK
  <2>6. DespachaConCPU'
    BY <2>2 DEF DespachaConCPU
  <2> QED
    BY <1>12, <2>5, <2>6, <1>2, <1>3 DEF LiberarCPU, datosDTB
<1> QED
  BY <1>5, <1>6, <1>7, <1>8, <1>9, <1>10, <1>11, <1>12 DEF HiloCPU

(* An answer SAFA takes from the DAM is well formed. *)
LEMMA RecibeDAMOK ==
    ASSUME RedTypeOK, RecibeDAM
    PROVE  /\ RedTypeOK'
           /\ Head(damASafa).id \in DTB /\ Head(damASafa).path \in Path
<1>1. Tail(damASafa) \in Seq(RespuestaDAM) /\ Head(damASafa) \in RespuestaDAM
  BY DEF RecibeDAM, RedTypeOK
<1> QED
  BY <1>1 DEF RecibeDAM, RedTypeOK, RespuestaDAM

(* A DTB joins the BOAF list. *)
LEMMA AgregarEG ==
    ASSUME NEW S, NEW s \in Seq(S), NEW e \in S
    PROVE  Append(s, e) \in Seq(S)
  BY AppendProperties

(* the thread of the DAM *)
LEMMA HiloDMAOK ==
    ASSUME SafaInv, HiloDMA
    PROVE  SafaInv'
<1> USE DEF SafaInv
<1> DEFINE i == Head(damASafa).id
<1>1. RedTypeOK' /\ i \in DTB /\ Head(damASafa).path \in Path
  BY RecibeDAMOK DEF HiloDMA, OperacionNoFinalizada, AbrirPathFinalizadoOk,
                     OperacionFinalizadaOk
<1>2. CASE Caer
  BY <1>1, <1>2, CaerOK
<1>3. ASSUME SafaTypeOK', UNCHANGED <<iniGDT, hayDummy, hilos, cpus>>
      PROVE  SafaInv'
  <2>1. DummyUnico' /\ TomaSinDummy'
    BY <1>3, DummyIgual DEF hilos
  <2>2. DespachaConCPU'
    BY <1>3 DEF DespachaConCPU, hilos, cpus
  <2> QED  BY <1>1, <1>3, <2>1, <2>2
<1>4. ColaListos \in Colas
  BY DEF ColaListos, Colas
<1>5. CASE OperacionNoFinalizada
  <2>1. ColasOK(cola')
    BY <1>5, <1>1, MoverOK, AgregarOK DEF OperacionNoFinalizada, SafaTypeOK, Colas
  <2>2. SafaTypeOK'
    BY <1>5, <2>1 DEF OperacionNoFinalizada, SafaTypeOK, estado, datosDTB,
                      cpus, pausas, hilos
  <2> QED
    BY <1>5, <2>2, <1>3 DEF OperacionNoFinalizada, datosDTB
<1>6. CASE AbrirPathFinalizadoOk /\ ~ Caer
  <2>1. ColasOK(cola')
    BY <1>6, <1>1, <1>4, MoverOK DEF AbrirPathFinalizadoOk, SafaTypeOK, Colas
  <2>2. tabla' \in [DTB -> Seq(Path)]
    <3>1. tabla[i] \in Seq(Path)
      BY <1>1 DEF SafaTypeOK
    <3>2. Append(tabla[i], Head(damASafa).path) \in Seq(Path)
      BY <3>1, <1>1, AgregarEG
    <3>3. tabla' = [tabla EXCEPT ![i] = Append(tabla[i], Head(damASafa).path)]
      BY <1>6 DEF AbrirPathFinalizadoOk
    <3> QED
      BY <3>2, <3>3 DEF SafaTypeOK
  <2>3. dtbConEqGrandeAbierto' \in Seq(DTB)
    <3>1. dtbConEqGrandeAbierto \in Seq(DTB)
      BY DEF SafaTypeOK
    <3>2. \/ dtbConEqGrandeAbierto' = dtbConEqGrandeAbierto
          \/ dtbConEqGrandeAbierto' = Append(dtbConEqGrandeAbierto, i)
      BY <1>6 DEF AbrirPathFinalizadoOk
    <3> QED
      BY <3>1, <3>2, <1>1, AgregarEG
  <2>4. SafaTypeOK'
    <3>1. UNCHANGED <<estado, id, iniGDT, hayDummy, cpus, pausaPLP, hilos, caida>>
          /\ pausaPCP' = TRUE
      BY <1>6 DEF AbrirPathFinalizadoOk
    <3> QED
      BY <3>1, <2>1, <2>2, <2>3 DEF SafaTypeOK, estado, cpus, hilos
  <2> QED
    BY <1>6, <2>4, <1>3 DEF AbrirPathFinalizadoOk
<1>7. CASE OperacionFinalizadaOk /\ ~ Caer
  <2>1. ColasOK(cola')
    BY <1>7, <1>1, <1>4, MoverOK DEF OperacionFinalizadaOk, SafaTypeOK, Colas
  <2>2. SafaTypeOK'
    BY <1>7, <2>1 DEF OperacionFinalizadaOk, SafaTypeOK, estado, datosDTB,
                      cpus, pausas, hilos
  <2> QED
    BY <1>7, <2>2, <1>3 DEF OperacionFinalizadaOk, datosDTB
<1> QED
  BY <1>2, <1>5, <1>6, <1>7 DEF HiloDMA

(* the long-term scheduler: the only one that makes the dummy *)
LEMMA HiloPLPOK ==
    ASSUME SafaInv, HiloPLP
    PROVE  SafaInv'
<1> USE DEF SafaInv
<1>1. RedTypeOK'
  BY DEF HiloPLP, PLPDespierta, PLPGrado, PLPDecide, PLPToma, PLPAgrega,
         RedTypeOK, red
<1>2. CASE Caer
  BY <1>1, <1>2, CaerOK
<1>3. ASSUME ~ Caer  PROVE DespachaConCPU'
  BY <1>3 DEF HiloPLP, PLPDespierta, PLPGrado, PLPDecide, PLPToma, PLPAgrega,
              DespachaConCPU, cpus
<1>4. ASSUME SafaTypeOK', UNCHANGED <<iniGDT, hayDummy>>, ~ Caer,
             plp'.en = "toma" => plp.en = "toma"
      PROVE  SafaInv'
  BY <1>4, <1>1, <1>3, DummyIgual
<1>5. CASE PLPDespierta /\ ~ Caer
  <2>1. plp' \in EnPLP /\ plp'.en = "grado"
    BY <1>5 DEF PLPDespierta, SafaTypeOK, EnPLP
  <2>2. SafaTypeOK'
    BY <1>5, <2>1 DEF PLPDespierta, SafaTypeOK, estado, datosDTB, cpus
  <2> QED
    BY <1>5, <2>1, <2>2, <1>4 DEF PLPDespierta, datosDTB
<1>6. CASE PLPGrado /\ ~ Caer
  <2>1. plp' \in EnPLP /\ plp'.en \in {"decide", "pausa"}
    BY <1>6 DEF PLPGrado, SafaTypeOK, EnPLP
  <2>2. SafaTypeOK'
    BY <1>6, <2>1 DEF PLPGrado, SafaTypeOK, estado, datosDTB, cpus, pausas
  <2> QED
    BY <1>6, <2>1, <2>2, <1>4 DEF PLPGrado, datosDTB
<1>7. CASE PLPDecide /\ ~ Caer
  <2>1. /\ plp' \in EnPLP /\ plp'.en \in {"toma", "pausa"}
        /\ plp'.en = "toma" => hayDummy = 0
    BY <1>7 DEF PLPDecide, SafaTypeOK, EnPLP
  <2>2. pausaPCP' \in BOOLEAN
    BY <1>7 DEF PLPDecide, SafaTypeOK
  <2>3. SafaTypeOK'
    BY <1>7, <2>1, <2>2 DEF PLPDecide, SafaTypeOK, estado, datosDTB, cpus
  <2>4. TomaSinDummy'
    BY <1>7, <2>1 DEF PLPDecide, TomaSinDummy
  <2>5. DummyUnico'
    BY <1>7 DEF PLPDecide, DummyUnico, Dummies, datosDTB
  <2> QED
    BY <1>7, <1>1, <1>3, <2>3, <2>4, <2>5
<1>8. CASE PLPToma /\ ~ Caer
  <2> DEFINE i == Head(cola["nuevos"])
  <2>1. i \in DTB /\ ColasOK(cola')
    BY <1>8, CabezaOK DEF PLPToma, SafaTypeOK, Colas
  <2>2. hayDummy = 0 /\ Dummies = {}
    BY <1>8 DEF PLPToma, TomaSinDummy, DummyUnico
  <2>3. /\ iniGDT' = [iniGDT EXCEPT ![i] = 0] /\ hayDummy' = 1
        /\ plp' = [en |-> "agrega", dtb |-> i]
    BY <1>8, <2>2 DEF PLPToma
  <2>4. Dummies' = {i}
    BY <2>1, <2>2, <2>3 DEF Dummies, SafaTypeOK
  <2>5. DummyUnico' /\ TomaSinDummy'
    BY <2>3, <2>4 DEF DummyUnico, TomaSinDummy
  <2>6. iniGDT' \in [DTB -> {0, 1}]
    BY <2>3 DEF SafaTypeOK
  <2>7. UNCHANGED <<estado, id, tabla, cpus, dtbConEqGrandeAbierto, pausas,
                    hiloDMA, com, pcp, con, caida>>
    BY <1>8 DEF PLPToma
  <2>8. plp' \in EnPLP
    BY <2>1, <2>3 DEF EnPLP
  <2>9. SafaTypeOK'
    BY <2>1, <2>3, <2>6, <2>7, <2>8 DEF SafaTypeOK, estado, cpus, pausas
  <2> QED
    BY <1>8, <1>1, <1>3, <2>5, <2>9
<1>9. CASE PLPAgrega /\ ~ Caer
  <2>1. ColasOK(cola')
    BY <1>9, AgregarOK DEF PLPAgrega, SafaTypeOK, Colas
  <2>2. plp' \in EnPLP /\ plp'.en = "pausa"
    BY <1>9 DEF PLPAgrega, EnPLP
  <2>3. SafaTypeOK'
    BY <1>9, <2>1, <2>2 DEF PLPAgrega, SafaTypeOK, estado, datosDTB, cpus
  <2> QED
    BY <1>9, <2>2, <2>3, <1>4 DEF PLPAgrega, datosDTB
<1> QED
  BY <1>2, <1>5, <1>6, <1>7, <1>8, <1>9 DEF HiloPLP

(* What prot_enviar_SAFA_CPU_DTB sends and what it keeps are tables too. *)
LEMMA PartirTabla ==
    ASSUME NEW S, NEW s \in Seq(S)
    PROVE  /\ SubSeq(s, 1, Enviados(Len(s))) \in Seq(S)
           /\ Restantes(s) \in Seq(S)
<1>1. Len(s) \in Nat
  BY LenProperties
<1>2. Enviados(Len(s)) \in 0 .. Len(s)
  BY <1>1 DEF Enviados
<1> QED
  <2> DEFINE m == Enviados(Len(s))
  <2> HIDE DEF m
  <2> QED  BY <1>1, <1>2, SubSeqProperties DEF Restantes, m

(* the short-term scheduler *)
LEMMA HiloPCPOK ==
    ASSUME SafaInv, HiloPCP
    PROVE  SafaInv'
<1> USE DEF SafaInv
<1>1. CASE Caer
  <2>1. ASSUME PCPDespacha  PROVE UNCHANGED red
    <3>1. pcp'.en = pcp.en
      BY <1>1 DEF Caer, hilos
    <3>2. ~ (pcp' = [pcp EXCEPT !.en = "quita"])
      BY <2>1, <3>1 DEF PCPDespacha, SafaTypeOK, EnPCP
    <3> QED
      BY <2>1, <3>2 DEF PCPDespacha, red
  <2>2. ASSUME ~ PCPDespacha  PROVE UNCHANGED red
    BY <2>2 DEF HiloPCP, PCPDespierta, PCPRevisa, PCPElige, PCPBusca, PCPQuita,
                PCPAgrega
  <2>3. UNCHANGED red
    BY <2>1, <2>2
  <2>4. RedTypeOK'
    BY <2>3 DEF RedTypeOK, red
  <2> QED
    BY <1>1, <2>4, CaerOK
<1>2. ASSUME SafaTypeOK', DespachaConCPU', RedTypeOK',
             UNCHANGED <<iniGDT, hayDummy, plp>>
      PROVE  SafaInv'
  BY <1>2, DummyIgual
<1>3. ASSUME UNCHANGED red  PROVE RedTypeOK'
  BY <1>3 DEF RedTypeOK, red
<1>4. CASE PCPDespierta /\ ~ Caer
  <2>1. pcp' \in EnPCP /\ pcp'.en = "revisa"
    BY <1>4 DEF PCPDespierta, SafaTypeOK, EnPCP
  <2>2. SafaTypeOK'
    BY <1>4, <2>1 DEF PCPDespierta, SafaTypeOK, estado, datosDTB, cpus
  <2> QED
    BY <1>4, <2>1, <2>2, <1>2, <1>3 DEF PCPDespierta, datosDTB, DespachaConCPU
<1>5. CASE PCPRevisa /\ ~ Caer
  <2>1. /\ pcp' \in EnPCP /\ pcp'.en \in {"elige", "pausa"}
        /\ pcp'.en = "elige" => cpu_libres # <<>>
    BY <1>5 DEF PCPRevisa, SafaTypeOK, EnPCP
  <2>2. SafaTypeOK'
    BY <1>5, <2>1 DEF PCPRevisa, SafaTypeOK, estado, datosDTB, cpus, pausas
  <2>3. DespachaConCPU'
    BY <1>5, <2>1 DEF PCPRevisa, DespachaConCPU, cpus
  <2> QED
    BY <1>5, <2>2, <2>3, <1>2, <1>3 DEF PCPRevisa, datosDTB
<1>6. CASE PCPElige /\ ~ Caer
  <2>1. ListaAPlanificar \in Seq(DTB) /\ ListaAPlanificar # <<>>
    BY <1>6 DEF PCPElige, ListaAPlanificar, SafaTypeOK, ColasOK, Colas
  <2>2. Head(ListaAPlanificar) \in DTB
    BY <2>1
  <2>3. dtbConEqGrandeAbierto' \in Seq(DTB)
    <3>1. dtbConEqGrandeAbierto \in Seq(DTB)
      BY DEF SafaTypeOK
    <3>2. CASE dtbConEqGrandeAbierto = <<>>
      BY <1>6, <3>1, <3>2 DEF PCPElige
    <3>3. CASE dtbConEqGrandeAbierto # <<>>
      <4>1. Head(dtbConEqGrandeAbierto) \in DTB
        BY <3>1, <3>3
      <4> QED
        BY <1>6, <3>1, <4>1, AgregarEG DEF PCPElige
    <3> QED  BY <3>2, <3>3
  <2>4. pcp' \in EnPCP /\ pcp'.en = "busca" /\ pcp'.dtb \in DTB
    BY <1>6, <2>2 DEF PCPElige, EnPCP
  <2>5. UNCHANGED <<estado, datosDTB, cola, hayDummy, cpus, pausas, hiloDMA,
                    com, plp, con, caida, red>>
    BY <1>6 DEF PCPElige
  <2>6. SafaTypeOK'
    BY <2>3, <2>4, <2>5 DEF SafaTypeOK, estado, datosDTB, cpus, pausas
  <2>7. DespachaConCPU'
    BY <1>6, <2>5 DEF PCPElige, DespachaConCPU, cpus
  <2> QED
    BY <2>5, <2>6, <2>7, <1>2, <1>3 DEF datosDTB
<1>7. CASE PCPBusca /\ ~ Caer
  <2>1. pcp' \in EnPCP /\ pcp'.en = "despacha"
    BY <1>7 DEF PCPBusca, SafaTypeOK, EnPCP
  <2>2. SafaTypeOK'
    BY <1>7, <2>1 DEF PCPBusca, SafaTypeOK, estado, datosDTB, cpus, pausas
  <2>3. DespachaConCPU'
    BY <1>7 DEF PCPBusca, DespachaConCPU, cpus
  <2> QED
    BY <1>7, <2>2, <2>3, <1>2, <1>3 DEF PCPBusca, datosDTB
<1>8. CASE PCPDespacha /\ ~ Caer
  <2> DEFINE i == pcp.dtb
             c == Head(cpu_libres)
             n == Len(tabla[i])
             m == [id |-> i, ini |-> iniGDT[i], cantidad |-> n,
                   archivos |-> SubSeq(tabla[i], 1, Enviados(n))]
  <2>1. i \in DTB /\ tabla[i] \in Seq(Path) /\ iniGDT[i] \in {0, 1}
    BY <1>8 DEF PCPDespacha, SafaTypeOK, EnPCP
  <2>2. /\ c \in CPUS
        /\ Tail(cpu_libres) \in Seq(CPUS)
    <3>1. cpu_libres \in Seq(CPUS) /\ cpu_libres # <<>>
      BY <1>8 DEF PCPDespacha, SafaTypeOK, DespachaConCPU
    <3> QED  BY <3>1
  <2>3. m \in MensajeDTB
    <3>1. n \in Nat /\ SubSeq(tabla[i], 1, Enviados(n)) \in Seq(Path)
      BY <2>1, PartirTabla, LenProperties
    <3> QED  BY <2>1, <3>1 DEF MensajeDTB
  <2>4. RedTypeOK'
    <3>1. safaACpu' = Enviar(safaACpu, c, m)
          /\ UNCHANGED <<cpuASafa, cpuADam, damACpu, damASafa>>
      BY <1>8 DEF PCPDespacha
    <3> HIDE DEF m, c
    <3> QED
      BY <2>2, <2>3, <3>1, EnviarPorCanal DEF RedTypeOK
  <2>5. tabla' \in [DTB -> Seq(Path)]
    <3>1. tabla' = [tabla EXCEPT ![i] = Restantes(tabla[i])]
      BY <1>8 DEF PCPDespacha
    <3>2. Restantes(tabla[i]) \in Seq(Path)
      BY <2>1, PartirTabla
    <3> QED  BY <3>1, <3>2 DEF SafaTypeOK
  <2>6. pcp' \in EnPCP /\ pcp'.en = "quita" /\ pcp'.dtb = pcp.dtb
    BY <1>8 DEF PCPDespacha, SafaTypeOK, EnPCP
  <2>7. cpu_libres' \in Seq(CPUS) /\ cpu_ejecutando' \subseteq CPUS
    BY <1>8, <2>2 DEF PCPDespacha, SafaTypeOK
  <2>8. UNCHANGED <<estado, id, iniGDT, cola, hayDummy, dtbConEqGrandeAbierto,
                    pausas, hiloDMA, com, plp, con, caida>>
    BY <1>8 DEF PCPDespacha
  <2> HIDE DEF i, c, n, m
  <2>9. SafaTypeOK'
    BY <2>1, <2>5, <2>6, <2>7, <2>8 DEF SafaTypeOK, estado, pausas, i
  <2> QED
    BY <2>4, <2>6, <2>8, <2>9, <1>2 DEF DespachaConCPU
<1>9. CASE PCPQuita /\ ~ Caer
  <2>1. ColasOK(cola')
    <3>1. ColasOK(cola)
      BY DEF SafaTypeOK
    <3>2. CASE cola["listos"] = <<>>
      BY <1>9, <3>1, <3>2 DEF PCPQuita, ColasOK, Colas
    <3>3. CASE cola["listos"] # <<>>
      BY <1>9, <3>1, <3>3, CabezaOK DEF PCPQuita, Colas
    <3> QED  BY <3>2, <3>3
  <2>2. pcp' \in EnPCP /\ pcp'.en = "agrega" /\ pcp'.dtb = pcp.dtb
    BY <1>9 DEF PCPQuita, SafaTypeOK, EnPCP
  <2>3. UNCHANGED <<estado, datosDTB, hayDummy, cpus, dtbConEqGrandeAbierto,
                    pausas, hiloDMA, com, plp, con, caida, red>>
    BY <1>9 DEF PCPQuita
  <2>4. SafaTypeOK'
    BY <1>9, <2>1, <2>2, <2>3 DEF PCPQuita, SafaTypeOK, estado, datosDTB, cpus,
                                  pausas
  <2> QED
    BY <2>2, <2>3, <2>4, <1>2, <1>3 DEF datosDTB, DespachaConCPU
<1>10. CASE PCPAgrega /\ ~ Caer
  <2>1. ColasOK(cola')
    BY <1>10, AgregarOK DEF PCPAgrega, SafaTypeOK, Colas
  <2>2. pcp' \in EnPCP /\ pcp'.en = "pausa"
    BY <1>10 DEF PCPAgrega, EnPCP
  <2>3. SafaTypeOK'
    BY <1>10, <2>1, <2>2 DEF PCPAgrega, SafaTypeOK, estado, datosDTB, cpus,
                             pausas
  <2> QED
    BY <1>10, <2>2, <2>3, <1>2, <1>3 DEF PCPAgrega, datosDTB, DespachaConCPU
<1> QED
  BY <1>1, <1>4, <1>5, <1>6, <1>7, <1>8, <1>9, <1>10 DEF HiloPCP

(* the operator *)
LEMMA ConsolaOK ==
    ASSUME SafaInv, Consola
    PROVE  SafaInv'
<1> USE DEF SafaInv
<1>1. RedTypeOK'
  BY DEF Consola, EjecutarEscriptorio, FinalizarBusca, FinalizarEspera,
         FinalizarDTB, RedTypeOK, red
<1>2. CASE Caer
  BY <1>1, <1>2, CaerOK
<1>3. ASSUME SafaTypeOK', UNCHANGED <<iniGDT, hayDummy, cpus, plp, pcp>>
      PROVE  SafaInv'
  <2>1. DummyUnico' /\ TomaSinDummy'
    BY <1>3, DummyIgual
  <2>2. DespachaConCPU'
    BY <1>3 DEF DespachaConCPU, cpus
  <2> QED  BY <1>1, <1>3, <2>1, <2>2
<1>4. CASE EjecutarEscriptorio
  <2>1. id \in DTB /\ id' = id + 1 /\ id' \in 1 .. MaxDTB + 1
    BY <1>4, RedAssumption DEF EjecutarEscriptorio, SafaTypeOK, DTB
  <2>2. ColasOK(cola')
    BY <1>4, <2>1, AgregarOK DEF EjecutarEscriptorio, SafaTypeOK, Colas
  <2>3. SafaTypeOK'
    BY <1>4, <2>1, <2>2 DEF EjecutarEscriptorio, SafaTypeOK, estado, cpus, hilos
  <2> QED
    BY <1>4, <2>3, <1>3 DEF EjecutarEscriptorio, hilos
<1>5. ASSUME NEW i \in DTB, FinalizarBusca(i), ~ Caer  PROVE SafaInv'
  <2>1. PICK k \in DOMAIN OrdenDeBusqueda :
          con' = [en |-> IF OrdenDeBusqueda[k] = "ejecutando" THEN "espera"
                         ELSE "remueve",
                  dtb |-> i, de |-> OrdenDeBusqueda[k]]
    BY <1>5 DEF FinalizarBusca
  <2>2. OrdenDeBusqueda[k] \in Colas
    BY DEF OrdenDeBusqueda, Colas
  <2>3. con' \in EnConsola /\ con'.dtb \in DTB
    BY <2>1, <2>2 DEF EnConsola
  <2>4. UNCHANGED <<estado, datosDTB, cola, hayDummy, cpus,
                    dtbConEqGrandeAbierto, pausas, hiloDMA, com, plp, pcp,
                    caida>>
    BY <1>5 DEF FinalizarBusca
  <2>5. SafaTypeOK'
    BY <2>3, <2>4 DEF SafaTypeOK, estado, datosDTB, cpus, pausas
  <2> QED
    BY <2>4, <2>5, <1>3 DEF datosDTB
<1>6. CASE FinalizarEspera
  <2>1. con' \in EnConsola /\ con'.dtb = con.dtb /\ con.dtb \in DTB
    BY <1>6 DEF FinalizarEspera, SafaTypeOK, EnConsola
  <2>2. SafaTypeOK'
    BY <1>6, <2>1 DEF FinalizarEspera, SafaTypeOK, estado, datosDTB, cpus, pausas
  <2> QED
    BY <1>6, <2>2, <1>3 DEF FinalizarEspera, datosDTB
<1>7. CASE FinalizarDTB
  <2>1. con.dtb \in DTB /\ con.de \in Colas
    BY <1>7 DEF FinalizarDTB, SafaTypeOK, EnConsola
  <2>2. ColasOK(cola')
    BY <1>7, <2>1, MoverOK, AgregarOK DEF FinalizarDTB, SafaTypeOK, Colas
  <2>3. con' \in EnConsola /\ con'.en = "lista"
    BY <1>7 DEF FinalizarDTB, SafaTypeOK, EnConsola
  <2>4. SafaTypeOK'
    BY <1>7, <2>2, <2>3 DEF FinalizarDTB, SafaTypeOK, estado, datosDTB, cpus,
                            pausas
  <2> QED
    BY <1>7, <2>4, <1>3 DEF FinalizarDTB, datosDTB
<1> QED
  BY <1>2, <1>4, <1>5, <1>6, <1>7 DEF Consola

-----------------------------------------------------------------------------
(* The CPUs and the DAM: their own types and the connections'. *)

(* A turn of the quantum loop ends. *)
LEMMA SigueOK ==
    ASSUME CpuTypeOK, NEW c \in CPUS, cpu[c].en \in {"lee", "esperaDAM"},
           Sigue(c), UNCHANGED FM9_colgado
    PROVE  CpuTypeOK'
<1>1. /\ cpu[c].resto \in 1 .. QUANTUM /\ cpu[c].dtb \in DTB
      /\ cpu[c] \in EstadoCPU
  BY CpuAssumption DEF CpuTypeOK, EstadoCPU
<1>2. CASE cpu[c].resto = 1
  <2>1. Libre \in EstadoCPU
    BY CpuAssumption DEF Libre, EstadoCPU, NULO
  <2> QED
    BY <1>2, <2>1 DEF CpuTypeOK, Sigue, Libre
<1>3. CASE cpu[c].resto > 1
  <2> DEFINE d == [cpu[c] EXCEPT !.en = "lee"]
             e == [d EXCEPT !.resto = cpu[c].resto - 1]
  <2>1. cpu[c].resto - 1 \in 1 .. QUANTUM /\ cpu[c].resto - 1 \in 0 .. QUANTUM
    BY <1>1, <1>3, CpuAssumption
  <2>2. d \in EstadoCPU /\ d.en = "lee" /\ d.dtb \in DTB
    BY <1>1 DEF EstadoCPU
  <2>3. cpu' = [cpu EXCEPT ![c] = e]
    BY <1>3 DEF Sigue, CpuTypeOK
  <2>4. e \in EstadoCPU /\ e.en = "lee" /\ e.dtb \in DTB /\ e.resto >= 1
    <3> HIDE DEF d
    <3> QED  BY <2>1, <2>2 DEF EstadoCPU
  <2> HIDE DEF d, e
  <2> QED
    BY <2>3, <2>4 DEF CpuTypeOK
<1> QED  BY <1>2, <1>3 DEF Sigue

(* A CPU that holds a DTB goes to wait. *)
LEMMA PasarOK ==
    ASSUME CpuTypeOK, NEW c \in CPUS, cpu[c].en = "lee",
           NEW e \in {"esperaDAM", "colgada"}, Pasar(c, e),
           FM9_colgado' \in BOOLEAN
    PROVE  CpuTypeOK'
<1> DEFINE d == [cpu[c] EXCEPT !.en = e]
<1>1. /\ d \in EstadoCPU /\ d.en = e /\ d.dtb \in DTB
      /\ d.resto >= 1
  BY DEF CpuTypeOK, EstadoCPU
<1>2. cpu' = [cpu EXCEPT ![c] = d]
  BY DEF Pasar
<1> HIDE DEF d
<1> QED
  BY <1>1, <1>2 DEF CpuTypeOK

(* The two messages of a CPU are well formed. *)
LEMMA AvisarOK ==
    ASSUME RedTypeOK, NEW c \in CPUS, cpu[c].dtb \in DTB,
           NEW tipo \in {"BloquearDTB", "AbortarDTB", "RetenerRecurso",
                         "LiberarRecurso"},
           AvisarSAFA(c, tipo)
    PROVE  cpuASafa' \in [CPUS -> Seq(MensajeCPU)]
<1>1. [tipo |-> tipo, id |-> cpu[c].dtb] \in MensajeCPU
  BY DEF MensajeCPU
<1> QED
  BY <1>1, EnviarPorCanal DEF RedTypeOK, AvisarSAFA

LEMMA PedirOK ==
    ASSUME RedTypeOK, NEW c \in CPUS, NEW i \in DTB, NEW p \in Path,
           NEW tipo \in {"AbrirPathParaProceso", "CrearLineasEnArchivo",
                         "EliminarArchivoDeDisco", "FlushDeArchivoADisco"},
           PedirADAM(c, tipo, i, p)
    PROVE  cpuADam' \in [CPUS -> Seq(PedidoDAM)]
<1>1. [tipo |-> tipo, id |-> i, path |-> p] \in PedidoDAM
  BY DEF PedidoDAM
<1> QED
  BY <1>1, EnviarPorCanal DEF RedTypeOK, PedirADAM

(* what a CPU does with a message *)
LEMMA PasoCPUOK ==
    ASSUME RedTypeOK, CpuTypeOK, NEW c \in CPUS, PasoCPU(c)
    PROVE  RedTypeOK' /\ CpuTypeOK'
<1>1. ASSUME NEW d, d \in EstadoCPU, cpu' = [cpu EXCEPT ![c] = d],
             d.en \in {"dummy", "lee", "esperaDAM"} => d.dtb \in DTB,
             d.en \in {"lee", "esperaDAM"} => d.resto >= 1,
             UNCHANGED FM9_colgado
      PROVE  CpuTypeOK'
  BY <1>1 DEF CpuTypeOK
<1>2. CASE RecibirDTB(c)
  <2> DEFINE m == Head(safaACpu[c])
             d == [en |-> "lee", dtb |-> m.id, abiertos |-> ToSet(m.archivos),
                   resto |-> QUANTUM]
  <2>1. m \in MensajeDTB /\ safaACpu' \in [CPUS -> Seq(MensajeDTB)]
    BY <1>2, RecibirDeCanal DEF RecibirDTB, RedTypeOK
  <2>2. m.id \in DTB /\ ToSet(m.archivos) \subseteq Path
    BY <2>1 DEF MensajeDTB, ToSet
  <2>3. QUANTUM >= 1 /\ QUANTUM \in 0 .. QUANTUM
    BY CpuAssumption
  <2>4. \A e \in {"lee", "dummy", "colgada"} :
           /\ [d EXCEPT !.en = e] \in EstadoCPU
           /\ [d EXCEPT !.en = e].en = e
           /\ [d EXCEPT !.en = e].dtb = m.id
           /\ [d EXCEPT !.en = e].resto = QUANTUM
    BY <2>2, <2>3 DEF EstadoCPU
  <2>5. d \in EstadoCPU
    BY <2>2, <2>3 DEF EstadoCPU
  <2>6. \/ /\ cpu' = [cpu EXCEPT ![c] = [d EXCEPT !.en = "colgada"]]
           /\ UNCHANGED cpuADam
        \/ /\ cpu' = [cpu EXCEPT ![c] = [d EXCEPT !.en = "dummy"]]
           /\ PedirADAM(c, "AbrirPathParaProceso", m.id, Escriptorio)
        \/ cpu' = [cpu EXCEPT ![c] = d] /\ UNCHANGED cpuADam
    BY <1>2 DEF RecibirDTB
  <2>7. UNCHANGED <<FM9_colgado, cpuASafa, damACpu, damASafa>>
    BY <1>2 DEF RecibirDTB
  <2>8. cpuADam' \in [CPUS -> Seq(PedidoDAM)]
    <3>1. Escriptorio \in Path
      BY DEF Path
    <3> HIDE DEF d, m
    <3>2. CASE PedirADAM(c, "AbrirPathParaProceso", m.id, Escriptorio)
      BY <3>1, <3>2, <2>2, PedirOK
    <3>3. CASE UNCHANGED cpuADam
      BY <3>3 DEF RedTypeOK
    <3> QED  BY <2>6, <3>2, <3>3
  <2>9. CpuTypeOK'
    <3>1. CASE cpu' = [cpu EXCEPT ![c] = [d EXCEPT !.en = "colgada"]]
      BY <3>1, <2>4, <2>7, <1>1
    <3>2. CASE cpu' = [cpu EXCEPT ![c] = [d EXCEPT !.en = "dummy"]]
      BY <3>2, <2>2, <2>4, <2>7, <1>1
    <3>3. CASE cpu' = [cpu EXCEPT ![c] = d]
      <4>1. d.dtb = m.id /\ d.resto = QUANTUM
        OBVIOUS
      <4> QED
        BY <3>3, <4>1, <2>2, <2>3, <2>5, <2>7, <1>1
    <3> QED  BY <2>6, <3>1, <3>2, <3>3
  <2> QED
    BY <2>1, <2>7, <2>8, <2>9 DEF RedTypeOK
<1>3. CASE DesalojarDummy(c)
  <2>1. /\ damACpu' \in [CPUS -> Seq({"Ejecutandose"})]
        /\ cpuASafa' \in [CPUS -> Seq(MensajeCPU)]
    BY <1>3, RecibirDeCanal, AvisarOK DEF DesalojarDummy, RedTypeOK, CpuTypeOK
  <2>2. Libre \in EstadoCPU /\ Libre.en = "espera"
    BY CpuAssumption DEF Libre, EstadoCPU, NULO
  <2>3. CpuTypeOK'
    BY <1>3, <2>2, <1>1 DEF DesalojarDummy
  <2> QED
    BY <1>3, <2>1, <2>3 DEF DesalojarDummy, RedTypeOK
<1>4. CASE DesalojarDTB(c)
  <2>1. /\ damACpu' \in [CPUS -> Seq({"Ejecutandose"})]
        /\ cpuASafa' \in [CPUS -> Seq(MensajeCPU)]
    BY <1>4, RecibirDeCanal, AvisarOK DEF DesalojarDTB, RedTypeOK, CpuTypeOK
  <2>2. CpuTypeOK'
    BY <1>4, SigueOK DEF DesalojarDTB
  <2> QED
    BY <1>4, <2>1, <2>2 DEF DesalojarDTB, RedTypeOK
<1> QED
  BY <1>2, <1>3, <1>4 DEF PasoCPU

(* one sentence of a script *)
LEMMA SentenciaCPUOK ==
    ASSUME RedTypeOK, CpuTypeOK, NEW c \in CPUS, SentenciaCPU(c)
    PROVE  RedTypeOK' /\ CpuTypeOK'
<1>1. cpu[c].en = "lee" /\ cpu[c].dtb \in DTB
  BY DEF SentenciaCPU, Concentrar, Abrir, Crear, Borrar, AbortarSentencia,
         RetenerRecurso, LiberarRecurso, EsperarAFM9, Lee, CpuTypeOK
<1>2. FM9_colgado' \in BOOLEAN
  BY DEF SentenciaCPU, Concentrar, Abrir, Crear, Borrar, AbortarSentencia,
         RetenerRecurso, LiberarRecurso, EsperarAFM9, CpuTypeOK
<1>3. ASSUME UNCHANGED red  PROVE RedTypeOK'
  BY <1>3 DEF RedTypeOK, red
<1>4. CASE Concentrar(c)
  BY <1>1, <1>3, <1>4, SigueOK DEF Concentrar
<1>5. CASE AbortarSentencia(c)
  <2>1. cpuASafa' \in [CPUS -> Seq(MensajeCPU)]
    BY <1>1, <1>5, AvisarOK DEF AbortarSentencia
  <2>2. CpuTypeOK'
    BY <1>1, <1>5, SigueOK DEF AbortarSentencia
  <2> QED
    BY <1>5, <2>1, <2>2 DEF AbortarSentencia, RedTypeOK
<1>6. CASE RetenerRecurso(c)
  <2>1. cpuASafa' \in [CPUS -> Seq(MensajeCPU)]
    BY <1>1, <1>6, AvisarOK DEF RetenerRecurso
  <2>2. CpuTypeOK'
    BY <1>1, <1>2, <1>6, PasarOK DEF RetenerRecurso
  <2> QED
    BY <1>6, <2>1, <2>2 DEF RetenerRecurso, RedTypeOK
<1>7. CASE LiberarRecurso(c)
  <2>1. cpuASafa' \in [CPUS -> Seq(MensajeCPU)]
    BY <1>1, <1>7, AvisarOK DEF LiberarRecurso
  <2>2. CpuTypeOK'
    BY <1>1, <1>7, SigueOK DEF LiberarRecurso
  <2> QED
    BY <1>7, <2>1, <2>2 DEF LiberarRecurso, RedTypeOK
<1>8. CASE EsperarAFM9(c)
  BY <1>1, <1>2, <1>3, <1>8, PasarOK DEF EsperarAFM9
<1>9. ASSUME NEW p \in Archivos, Abrir(c, p) \/ Crear(c, p) \/ Borrar(c, p)
      PROVE  RedTypeOK' /\ CpuTypeOK'
  <2>1. p \in Path
    BY DEF Path
  <2>2. cpuADam' \in [CPUS -> Seq(PedidoDAM)]
    BY <1>1, <1>9, <2>1, PedirOK DEF Abrir, Crear, Borrar
  <2>3. CpuTypeOK'
    BY <1>1, <1>2, <1>9, PasarOK DEF Abrir, Crear, Borrar
  <2> QED
    BY <1>9, <2>2, <2>3 DEF Abrir, Crear, Borrar, RedTypeOK
<1> QED
  BY <1>4, <1>5, <1>6, <1>7, <1>8, <1>9 DEF SentenciaCPU

(* The answer the DAM prepares for a request has the type of an answer. *)
LEMMA RespuestaOK ==
    ASSUME NEW r \in PedidoDAM, NEW res \in Resultado,
           NEW op \in {"AbrirPath", "CrearLineasEnArchivo"}
    PROVE  Respuesta(op, res, r) \in RespuestaDAM
  BY DEF Respuesta, RespuestaDAM, PedidoDAM

(* the DAM *)
LEMMA PasoDAMOK ==
    ASSUME RedTypeOK, DamTypeOK, PasoDAM
    PROVE  RedTypeOK' /\ DamTypeOK'
<1> DEFINE Lugar == {"select", "carga", "informa", "colgado"}
<1>1. ASSUME NEW e \in Lugar, NEW r \in RespuestaDAM,
             dam' = [en |-> e, respuesta |-> r]
      PROVE  DamTypeOK'
  BY <1>1 DEF DamTypeOK
<1>2. ASSUME NEW e \in Lugar, dam' = [dam EXCEPT !.en = e]
      PROVE  DamTypeOK'
  BY <1>2 DEF DamTypeOK
<1>3. dam.respuesta \in RespuestaDAM
  BY DEF DamTypeOK
<1>4. CASE CargarEnFM9(FM9_colgado)
  <2>1. PICK res \in Resultado :
          dam' = [en |-> "informa", respuesta |-> [dam.respuesta EXCEPT !.res = res]]
    BY <1>4 DEF CargarEnFM9
  <2>2. [dam.respuesta EXCEPT !.res = res] \in RespuestaDAM
    BY <1>3 DEF RespuestaDAM
  <2>3. DamTypeOK'
    BY <2>1, <2>2, <1>1
  <2> QED
    BY <1>4, <2>3 DEF CargarEnFM9, RedTypeOK, red
<1>5. CASE InformarASafa
  <2>1. Append(damASafa, dam.respuesta) \in Seq(RespuestaDAM)
    BY <1>3, AgregarEG DEF RedTypeOK
  <2>2. DamTypeOK'
    BY <1>5, <1>2 DEF InformarASafa
  <2> QED
    BY <1>5, <2>1, <2>2 DEF InformarASafa, RedTypeOK
<1>6. ASSUME NEW c \in CPUS, Atiende(c)  PROVE RedTypeOK' /\ DamTypeOK'
  <2> DEFINE r == Head(cpuADam[c])
  <2>1. r \in PedidoDAM /\ cpuADam' \in [CPUS -> Seq(PedidoDAM)]
    <3>1. Hay(cpuADam, c) /\ cpuADam' = Recibir(cpuADam, c)
      BY <1>6 DEF Atiende, OperacionAbrirPath, OperacionCrearArchivo,
                  OperacionIncompleta, Toma
    <3> QED
      BY <3>1, RecibirDeCanal DEF RedTypeOK
  <2>2. Enviar(damACpu, c, "Ejecutandose") \in [CPUS -> Seq({"Ejecutandose"})]
    BY EnviarPorCanal DEF RedTypeOK
  <2>3. RedTypeOK'
    BY <1>6, <2>1, <2>2 DEF Atiende, OperacionAbrirPath,
       OperacionCrearArchivo, OperacionIncompleta, RedTypeOK
  <2>4. CASE OperacionAbrirPath(c)
    <3>1. Respuesta("AbrirPath", "NoFinalizado", r) \in RespuestaDAM
      BY <2>1, RespuestaOK DEF Resultado
    <3> QED
      BY <2>3, <2>4, <3>1, <1>1 DEF OperacionAbrirPath
  <2>5. CASE OperacionCrearArchivo(c)
    <3>1. CASE dam' = [dam EXCEPT !.en = "colgado"]
      BY <3>1, <2>3, <1>2
    <3>2. ASSUME NEW res \in Resultado,
                 dam' = [en |-> "informa",
                         respuesta |-> Respuesta("CrearLineasEnArchivo", res, r)]
          PROVE  DamTypeOK'
      BY <3>2, <2>1, <1>1, RespuestaOK
    <3> QED
      BY <2>3, <2>5, <3>1, <3>2 DEF OperacionCrearArchivo
  <2>6. CASE OperacionIncompleta(c)
    BY <2>3, <2>6, <1>2 DEF OperacionIncompleta
  <2> QED
    BY <1>6, <2>4, <2>5, <2>6 DEF Atiende
<1> QED
  BY <1>4, <1>5, <1>6 DEF PasoDAM

-----------------------------------------------------------------------------
(* The inductive invariant *)

(* When the system starts there is no dummy and nobody admits one. *)
LEMMA InvDummyInit ==
    Init => InvDummy
<1> SUFFICES ASSUME Init PROVE InvDummy
  OBVIOUS
<1>1. RedTypeOK
  BY DEF Init, RedInit, RedTypeOK
<1>2. 1 \in DTB /\ 1 \in 1 .. MaxDTB + 1
  BY RedAssumption DEF DTB
<1>3. SafaTypeOK
  <2>1. ColasOK(cola)
    BY DEF Init, SafaInit, ColasOK
  <2>2. ComOK(com)
    BY DEF Init, SafaInit, ComOK, EnHilo, NULO
  <2>3. plp \in EnPLP /\ pcp \in EnPCP /\ con \in EnConsola
    BY DEF Init, SafaInit, EnPLP, EnPCP, EnConsola, Colas
  <2>4. plp.en = "pausa" /\ pcp.en = "pausa" /\ con.en = "lista"
    BY DEF Init, SafaInit
  <2>5. /\ iniGDT \in [DTB -> {0, 1}] /\ tabla \in [DTB -> Seq(Path)]
        /\ id \in 1 .. MaxDTB + 1 /\ hayDummy \in {0, 1}
    BY <1>2 DEF Init, SafaInit
  <2>6. /\ cpu_libres \in Seq(CPUS) /\ cpu_ejecutando \subseteq CPUS
        /\ dtbConEqGrandeAbierto \in Seq(DTB)
    BY DEF Init, SafaInit
  <2>7. /\ estadoSAFA \in {"CORRUPTO", "OPERATIVO"} /\ DAM_conectado \in BOOLEAN
        /\ pausaPLP \in BOOLEAN /\ pausaPCP \in BOOLEAN /\ caida \in BOOLEAN
        /\ hiloDMA \in {"inexistente", "creado", "atiende"}
    BY DEF Init, SafaInit
  <2> QED
    BY <2>1, <2>2, <2>3, <2>4, <2>5, <2>6, <2>7 DEF SafaTypeOK
<1>4. CpuTypeOK
  <2>1. Libre \in EstadoCPU /\ Libre.en = "espera"
    BY CpuAssumption DEF Libre, EstadoCPU, NULO
  <2> QED
    BY <2>1 DEF Init, CpuInit, CpuTypeOK
<1>5. DamTypeOK
  BY <1>2 DEF Init, DamInit, DamTypeOK, RespuestaDAM, Resultado, Path
<1>6. DummyUnico
  <2>1. Dummies = {}
    BY DEF Init, SafaInit, Dummies
  <2> QED
    BY <2>1 DEF Init, SafaInit, DummyUnico
<1>7. TomaSinDummy /\ DespachaConCPU
  BY DEF Init, SafaInit, TomaSinDummy, DespachaConCPU
<1> QED
  BY <1>1, <1>3, <1>4, <1>5, <1>6, <1>7 DEF InvDummy, TypeOK

(* Every step keeps it: one case per thread or process. *)
LEMMA InvDummyNext ==
    InvDummy /\ [Next]_vars => InvDummy'
<1> SUFFICES ASSUME InvDummy, [Next]_vars PROVE InvDummy'
  OBVIOUS
<1>1. SafaInv /\ CpuTypeOK /\ DamTypeOK
  BY DEF InvDummy, TypeOK, SafaInv
<1>2. ASSUME SafaInv', CpuTypeOK', DamTypeOK'  PROVE InvDummy'
  BY <1>2 DEF InvDummy, TypeOK, SafaInv
<1>3. CASE PasoSafa /\ UNCHANGED <<cpu, FM9_colgado, dam>>
  <2>1. SafaInv'
    BY <1>1, <1>3, ConexionOK, ConsolaOK, HiloDMAOK, HiloPLPOK, HiloPCPOK,
       HiloCPUOK DEF PasoSafa
  <2>2. CpuTypeOK' /\ DamTypeOK'
    BY <1>1, <1>3 DEF CpuTypeOK, DamTypeOK
  <2> QED  BY <2>1, <2>2, <1>2
<1>4. ASSUME UNCHANGED safa, RedTypeOK'  PROVE SafaInv'
  <2>1. SafaTypeOK'
    BY <1>1, <1>4 DEF SafaInv, SafaTypeOK, safa, estado, datosDTB, cpus,
                      pausas, hilos
  <2>2. DummyUnico' /\ TomaSinDummy' /\ DespachaConCPU'
    BY <1>1, <1>4 DEF SafaInv, safa, datosDTB, cpus, hilos, DummyUnico,
                      Dummies, TomaSinDummy, DespachaConCPU
  <2> QED  BY <1>4, <2>1, <2>2 DEF SafaInv
<1>5. ASSUME NEW c \in CPUS, PasoCPU(c) \/ SentenciaCPU(c),
             UNCHANGED <<safa, dam>>
      PROVE  InvDummy'
  <2>1. RedTypeOK' /\ CpuTypeOK'
    BY <1>1, <1>5, PasoCPUOK, SentenciaCPUOK DEF SafaInv
  <2>2. DamTypeOK'
    BY <1>1, <1>5 DEF DamTypeOK
  <2> QED  BY <1>5, <2>1, <2>2, <1>2, <1>4
<1>6. CASE PasoDAM /\ UNCHANGED <<safa, cpu, FM9_colgado>>
  <2>1. RedTypeOK' /\ DamTypeOK'
    BY <1>1, <1>6, PasoDAMOK DEF SafaInv
  <2>2. CpuTypeOK'
    BY <1>1, <1>6 DEF CpuTypeOK
  <2> QED  BY <1>6, <2>1, <2>2, <1>2, <1>4
<1>7. CASE UNCHANGED vars
  <2>1. UNCHANGED <<safa, cpu, FM9_colgado, dam, red>>
    BY <1>7 DEF vars
  <2>2. RedTypeOK' /\ CpuTypeOK' /\ DamTypeOK'
    BY <1>1, <2>1 DEF SafaInv, RedTypeOK, CpuTypeOK, DamTypeOK, red
  <2> QED  BY <2>1, <2>2, <1>2, <1>4
<1> QED
  BY <1>3, <1>5, <1>6, <1>7 DEF Next

(* InvDummy holds in every reachable state: its parts are what the threads  *)
(* of the scheduler (planificar_PLP, planificar, funcionHiloComCPU) rely on *)
(* without a lock.                                                          *)
THEOREM InvarianteDelDummy == Spec => []InvDummy
<1> QED
  BY InvDummyInit, InvDummyNext, PTL DEF Spec

-----------------------------------------------------------------------------
(* The variables of SAFA, the CPUs, the DAM and the connections keep their   *)
(* types, whatever the number of CPUs and scripts: no list but "terminados"  *)
(* (funcionesSafa.c:996-1006) ever holds a NULL, and the counters hayDummy   *)
(* and id stay in their ranges.                                             *)
THEOREM TiposCorrectos == Spec => []TypeOK
<1>1. InvDummy => TypeOK
  BY DEF InvDummy
<1> QED
  BY <1>1, InvarianteDelDummy, PTL

(* The dummy is unique (funcionesSafa.c:662-664): the PLP tests hayDummy in   *)
(* planificar_PLP and sets the flag later, the CPU threads clear it when     *)
(* they block a DTB, no lock covers the two, and still never two DTBs carry  *)
(* the flag, and the counter never loses an update.                         *)
THEOREM UnSoloDummy == Spec => []DummyUnico
<1>1. InvDummy => DummyUnico
  BY DEF InvDummy
<1> QED
  BY <1>1, InvarianteDelDummy, PTL

(* The unprotected ++hayDummy of the PLP and --hayDummy of the CPU threads   *)
(* (funcionesSafa.c:428 and planificar_PLP) never meet.                     *)
THEOREM PLPNoCorre == Spec => []PLPSinCarrera
<1>1. InvDummy => PLPSinCarrera
  <2> SUFFICES ASSUME InvDummy, NEW c \in CPUS, EscribeHayDummy(c)
               PROVE  plp.en # "toma"
    BY DEF PLPSinCarrera
  <2>1. com[c].dtb \in DTB
    BY DEF InvDummy, TypeOK, SafaTypeOK, ComOK, EscribeHayDummy
  <2>2. Dummies # {}
    BY <2>1 DEF Dummies, EscribeHayDummy
  <2>3. hayDummy = 1
    BY <2>2 DEF InvDummy, DummyUnico
  <2> QED
    BY <2>3 DEF InvDummy, TomaSinDummy
<1> QED
  BY <1>1, InvarianteDelDummy, PTL

(* planificar looks at cpu_libres once (funcionesSafa.c:1117), and takes its *)
(* head several calls later: other threads add CPUs meanwhile and none takes *)
(* one, so there is always a CPU to take.                                   *)
THEOREM SiempreHayCPU == Spec => []DespachaConCPU
<1>1. InvDummy => DespachaConCPU
  BY DEF InvDummy
<1> QED
  BY <1>1, InvarianteDelDummy, PTL
=============================================================================
