------------------------- MODULE MCDefaultSelection -------------------------
\* Instance of DefaultSelection for TLC.
EXTENDS DefaultSelection, TLC

CONSTANTS m1, m2, p1, p2, p3
MCModels == {m1, m2}
MCQuants == {4, 8}
MCPack(m, q) == [model |-> m, quant |-> q]
MCPacks == {MCPack(m1, 4), MCPack(m1, 8), MCPack(m2, 8)}
MCProcesses == {p1, p2, p3}
MCTwo == {p1, p2}
MCSymmetry == Permutations(MCProcesses)
=============================================================================
