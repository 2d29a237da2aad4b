\* Every path; the splitter's streams on the plain one, shorter ones in records.
SPECIFICATION FairStreamSpec
CHECK_DEADLOCK FALSE   \* a stream that has ended stops
CONSTANTS
    Streams <- SomeStreams
    Paths <- AllPaths
    SourceStreams <- Sources
    HandshakeInit <- Init2
    MaxRecordPayload = 3
    ReadHeadroom = 24
    MaxHandshakeRecords = 3
INVARIANTS
    StreamInOrder
    NoUnderflow
    PacketsFramed
    FlushedAll
    NothingLost
    HonestSourceServed
    RecordsReadable
PROPERTIES
    CallReturns
    ImplementsSplitter
    PendingRead
