SPECIFICATION Spec
CONSTANTS
    Name = {s}
    Character = {"a", "b"}
    Literal <- MCLiteral
    MaxLength = 2
    MaxBytes = 6
    MaxNodes = 3
    Address = {a1, a2, a3, a4}
VIEW Memory
SYMMETRY Alike
INVARIANTS
    EveryBufferHasOneOwner
PROPERTIES
    StringsAreValues
