SPECIFICATION Spec
CONSTANTS
    Domains = {s, m}
    s = s
    m = m
    Items = {1, 2}
    NoItem = NoItem
    Depth = 2
    SourceDomain = s
    SinkDomain = m
    Pauses = {TRUE, FALSE}
    MaxSent = 4
INVARIANTS TypeOK BothSidesAgree
PROPERTIES Implements AllArrives
