SPECIFICATION WorkspaceSpec
CONSTANTS
    Pages = {p1, p2}
    MaxChanges = 2
    Calls = {k1, k2}
    NoPage = NoPage
SYMMETRY Sym
PROPERTIES PublishedChangesStay
