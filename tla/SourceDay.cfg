SPECIFICATION FairSpec
CONSTANTS
    Tapes <- MCTapes
    Releases <- MCReleases
    MaxRetries = 1
    MaxFaults = 3
INVARIANTS NoRowlessSuccess OutageNotHoliday TapeFigures FiguresAsPublished SessionSummaryWhole
PROPERTIES PublishedDayLoads
