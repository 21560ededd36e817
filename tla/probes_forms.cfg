CONSTANTS
    Uses <- MCUses
    Tabs = {t1, t2}
    MaxBorn <- MCMaxBorn
    MaxOpen <- MCMaxOpen
SPECIFICATION Spec
INVARIANT FormsAreSaved
