\* A printer that is asleep when its entry is set up.
CONSTANTS
    p1 = p1
    f1 = f1
    f2 = f2
    f3 = f3
    t1 = t1
    Printers = {p1}
    Texts = {t1}
    Flows = {f1, f2, f3}
    None = None
    Capitals <- MCCapitals
    Registries <- MCRegistries
    Names <- MCNames
    Services <- MCServices
SPECIFICATION Spec
INVARIANT FillsLabel
