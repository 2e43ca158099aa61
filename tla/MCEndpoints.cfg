SPECIFICATION Spec
CONSTANTS
    a1 = a1
    a2 = a2
    a3 = a3
    a4 = a4
    a5 = a5
    c1 = c1
    c2 = c2
    nil = nil
    Addresses <- MCAddresses
    Clients <- MCClients
    MaxGen = 4
SYMMETRY Interchangeable
INVARIANTS
    TypeOK
    BytesOfOwnSnapshot
    ReadsDoNotGoBack
    EncodesBounded
