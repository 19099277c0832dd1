SPECIFICATION Spec
CONSTANTS
    CellCount = 2
    Limit = 3
    Reasons <- MCReasons
    Frozen <- MCFrozen
    MandatoryCaps = 1
    CapCount = 2
INVARIANTS StateRootsNameRecords ResultsMatchLedger
PROPERTIES CustodyKept CampaignEnds
