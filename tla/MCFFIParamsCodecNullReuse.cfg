\* Scanning NULL or null into a reused destination.
CONSTANTS
    n1 = n1
    n2 = n2
    sc1 = sc1
    Nil = Nil
    NilPtr = NilPtr
    NoSchema = NoSchema
    Names <- MCNames
    Schemas <- MCSchemas
    MaxParams = 2
SPECIFICATION Spec
PROPERTY ScanNullRestoresNil
