\* Two sessions and two collectors of two samples each; a TTL of two seconds, or none.
SPECIFICATION FairSpec
CONSTANTS
    Options <- MCOptions
    Ports = {8, 9}
    Ttls = {2}
    Interval = 1
    MaxSessions = 2
    MaxCollectors = 2
    MaxSamples = 2
CHECK_DEADLOCK FALSE
INVARIANTS
    TypeOK
    SamplersAccounted
    ReportFaithful
    TtlAsAsked
    PortAsWritten
PROPERTIES
    StoppedSamplersEnd
    TtlEndsProcess
