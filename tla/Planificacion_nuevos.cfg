SPECIFICATION FairSpec
CONSTANTS
    c1 = c1
    c2 = c2
    esc = esc
    arch = arch
    boca = boca
    CPUS = {c1, c2}
    MaxDTB = 2
    Archivos = {arch}
    Escriptorio = esc
    GRADO = 2
    ALGORITMO = "RR"
    Comandos = {"ejecutar"}
    EquipoGrande = {}
    QUANTUM = 1
    Sentencias = {}
PROPERTY NuevoAdmitido
CHECK_DEADLOCK FALSE
