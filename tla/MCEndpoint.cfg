SPECIFICATION Spec
CONSTANTS
    Aids = {a1, a2, a3, a4}
    NoTag = NoTag
    Nobody = Nobody
    Handles = {h1, h2, h3, h4}
    ConcurrentAssociations = 2
    MaxOpened = 4
SYMMETRY Symmetry
INVARIANTS
    RoutesExact
    
    NewAidTerminates
PROPERTIES
    ImplementsRouter
