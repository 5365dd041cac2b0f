SPECIFICATION Spec
CONSTANTS
    c1 = c1
    c2 = c2
    esc = esc
    arch = arch
    boca = boca
    CPUS = {c1, c2}
    MaxDTB = 2
    Archivos = {arch, boca}
    Escriptorio = esc
    GRADO = 2
    ALGORITMO = "BOAF"
    Comandos = {"ejecutar"}
    EquipoGrande = {boca}
    QUANTUM = 1
    Sentencias = {"abrir"}
PROPERTY PrioridadBOAF
CHECK_DEADLOCK FALSE
