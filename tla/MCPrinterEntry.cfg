\* A printer, and three flows of either kind.
CONSTANTS
    p1 = p1
    f1 = f1
    f2 = f2
    f3 = f3
    t1 = t1
    Printers = {p1}
    Texts = {t1}
    Flows = {f1, f2, f3}
    None = None
    Capitals <- MCCapitals
    Registries <- MCRegistries
    Names <- MCNames
    Services <- MCServices
SPECIFICATION Spec
INVARIANTS TypeOK SupportedOnly ProfileFits
PROPERTY EntryKept
