\* Three events, batches of two, one retry, one runtime exit.
CONSTANTS
    N = 3
    BatchSize = 2
    MaxAttempts = 2
    MaxExits = 1
SPECIFICATION Spec
PROPERTY ImplementsStreamAbstract
