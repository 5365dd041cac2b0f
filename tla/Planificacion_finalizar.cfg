SPECIFICATION Spec
CONSTANTS
    c1 = c1
    c2 = c2
    esc = esc
    arch = arch
    boca = boca
    CPUS = {c1, c2}
    MaxDTB = 2
    Archivos = {arch}
    Escriptorio = esc
    GRADO = 2
    ALGORITMO = "RR"
    Comandos = {"ejecutar", "finalizar"}
    EquipoGrande = {}
    QUANTUM = 1
    Sentencias = {"concentrar"}
PROPERTY FinalizarEsperaLaOperacion
CHECK_DEADLOCK FALSE
