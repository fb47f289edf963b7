\* Hosts with overlapping ranges and a gap.
SPECIFICATION Spec
CONSTANTS
    n1 = n1
    n2 = n2
    n3 = n3
    Nodes = {n1, n2, n3}
    Offers <- Overlapping
    Layers = 4
    MaxFaults = 0
INVARIANT FullCoverageOrNothing
