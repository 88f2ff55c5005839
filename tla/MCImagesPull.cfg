\* A droplet that replaces another during a conversion gets the other's hash.
SPECIFICATION ImagesSpec
CONSTANTS
    a1 = a1   a2 = a2
    c1 = c1   c2 = c2
    d1 = d1   d2 = d2
    l1 = l1   l2 = l2
    Apps = {a1, a2}
    Clients = {c1, c2}
    Guids = {d1, d2}
    Layers = {l1, l2}
    Rootfs = rootfs
    NoDroplet = none
    MaxServed = 3
    HashOf <- MCHashOf
    MaxPushes = 1
    MaxRestarts = 1
SYMMETRY MCSymmetry
INVARIANTS
    PullsSpecificDroplet
