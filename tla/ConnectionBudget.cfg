SPECIFICATION Spec
CONSTANTS
    Workers = {w1, w2, w3}
    Slots = {s1, s2}
    Limits <- MCLimits
    NoCall = NoCall
SYMMETRY Symmetry
INVARIANTS
    CountExact
    NeverAbovePeak
PROPERTIES
    AdmitJustified
    ShedJustified
