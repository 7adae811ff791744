SPECIFICATION Spec
CONSTANTS
    Commands = {c1, c2}
    Objects = {2, 3}
    SizeOf <- Sizes
    MaxBundle = 2
    MaxVersion = 1
    MaxVisits = 4
INVARIANT RevocationStands
