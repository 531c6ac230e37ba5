SPECIFICATION FairSpec
CONSTANTS
    Node = {n1, n2}
    Clone = {c1, c2}
    Poller = poller
    NoNode = NoNode
    Intervals <- MCIntervals
    MaxBackoff = 2
    MaxRev = 2
PROPERTIES EventuallyCurrent KeepsServing RegressesOnlyWhenOvertaken FailureNeverHastens
