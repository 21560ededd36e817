CONSTANTS
    Uses <- MCUses
    Tabs = {t1, t2}
    MaxBorn <- MCMaxBorn
    MaxOpen <- MCMaxOpen
SPECIFICATION Spec
SYMMETRY Symmetry
INVARIANT TypeOK
INVARIANT EveryProbeReported
INVARIANT VerdictsAreRight
INVARIANT ToldIsKept
INVARIANT RemovesWhatWasShown
PROPERTY RestartKeepsVerdicts
