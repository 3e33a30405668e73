SPECIFICATION FairSpec
CONSTANTS
    Setups <- MCSetups
    Codings <- MCCodings
    DefaultCoding = 0
    Losses <- AllStages
INVARIANTS
    TypeOK
    SettingsAgree
    AnswerRight
PROPERTIES
    AddressAfterStatus
    EveryTransferEnds
