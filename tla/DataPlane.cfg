SPECIFICATION Spec
CONSTANTS
    c1 = c1
    c2 = c2
    Clients <- TwoClients
    ClientEvents <- AllEvents
    MaxReceive = 3
    MaxVersion = 3
    MaxSequence = 3
INVARIANTS
    SubmitsStartTogether
    CaseSettled
PROPERTIES
    CaseEnds
