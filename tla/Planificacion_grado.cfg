SPECIFICATION Spec
CONSTANTS
    c1 = c1
    c2 = c2
    esc = esc
    arch = arch
    boca = boca
    CPUS = {c1, c2}
    MaxDTB = 3
    Archivos = {arch}
    Escriptorio = esc
    GRADO = 2
    ALGORITMO = "RR"
    Comandos = {"ejecutar"}
    EquipoGrande = {}
    QUANTUM = 1
    Sentencias = {}
INVARIANT GradoRespetado
CHECK_DEADLOCK FALSE
