SPECIFICATION Spec
CONSTANTS
    Traffic <- Calls
    Merchants <- Tenants
    IssuedKeys <- Keyring
    Owner <- Resources
    Endpoints = {"endpoint"}
    Cap = 2
    KeyNames = {"k"}
    None = None
    MaxSent = 2
    MaxFaults = 1
CHECK_DEADLOCK FALSE
INVARIANTS AnswersTellWhatHappened OutagesAreNotDenials NothingWithoutAuthority AnswersAreComplete EndpointsAreBounded
PROPERTIES ImplementsIdempotency
