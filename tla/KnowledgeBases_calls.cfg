SPECIFICATION Spec
CONSTANTS
    c1 = c1  c2 = c2  c3 = c3
    k1 = k1
    t1 = t1  t2 = t2  t3 = t3
    d1 = d1  s1 = s1
    None = None
    Callers <- ThreeCallers
    Bases = {k1}
    Templates <- ThreeTemplates
    Documents = {d1}
    Sources = {s1}
    NameOf <- Law
    VersionOf <- Edition
    InlineNames = {"law", "other"}
    MaxDeletions = 2
    MaxFaults = 1
SYMMETRY Symmetry
INVARIANTS
    TypeOK
    SettledBasesAgree
    OntologyIsKept
\* All ids may be given out.
CHECK_DEADLOCK FALSE
