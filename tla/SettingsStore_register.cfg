SPECIFICATION Spec
CONSTANTS
    Threads = {t1, t2, t3}
    Keys = {rate, pitch}
    Level = {"off", "on"}
    Default <- BothOff
    None = None
SYMMETRY Interchangeable
INVARIANTS ServedIsStored
PROPERTIES RegisterSpec
