SPECIFICATION Spec
CONSTANTS
    Agents = {a1, a2}
    Teams = {t1, t2}
    Roles = {r1}
    Cap = 1
    MaxChanges = 2
    Runs = {g1, g2}
    None = None
SYMMETRY Symmetry
INVARIANTS TypeOK CanonCurrent OwedIsPending
CHECK_DEADLOCK FALSE
