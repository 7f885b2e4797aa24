CONSTANTS
    hs = hs
    g1 = g1
    g2 = g2
    Servers = {hs, g1, g2}
    Home = hs
    Conns = {c1, c2}
    None = None
    MaxTokens = 1
SPECIFICATION Spec
SYMMETRY Alike
INVARIANTS
    TypeOK
    NeverOwnGuest
    
