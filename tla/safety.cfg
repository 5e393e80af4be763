SPECIFICATION Spec
INVARIANTS
    TypeOK
    LimitsHold
    ChainsWrap
    RoutesMeant
    AnswersMeant
    CodecsFaithful
    TimersFire
    TransportKeeps
    PollerSound
    StreamsIntact
    RefusedForCause
    ClientAnswers
    AppsServed
    SharedSound
    StatementsFit
    SocketsSound
PROPERTIES
    NothingStale
CHECK_DEADLOCK FALSE
