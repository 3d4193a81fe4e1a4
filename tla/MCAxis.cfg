SPECIFICATION AxisSpec
CONSTANTS
    Domains = {s, m}
    s = s
    m = m
    Items = {}
    NoItem = NoItem
    Depth = 1
    SourceDomain = s
    SinkDomain = m
    Pauses = {TRUE, FALSE}
    MaxSent = 2
    Elements = {0, 1, 2}
    Sides = {0, 1}
    Zero = 0
    PerBeat = 2
    BigEndian = TRUE
    Frames <- MCFrames
INVARIANT NoFalseAlarm
PROPERTIES FramesWhole FramesArrive
