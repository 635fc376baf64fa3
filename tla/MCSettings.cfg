CONSTANTS
    c1 = c1
    c2 = c2
    n1 = n1
    n2 = n2
    v1 = v1
    Null = Null
    Callers = {c1, c2}
    Names = {n1, n2}
    Values = {v1}
    command_line_options <- MCCommandLine
SYMMETRY Symmetry
SPECIFICATION Spec
INVARIANT SavedWhenWritten
INVARIANT TrueMeansSaved
