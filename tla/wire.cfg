\* Eight messages, cut off at every byte, with one byte damaged or none.
SPECIFICATION Spec
CONSTANTS
    None = None
    Malformed = Malformed
    Message <- MCMessage
    Damage <- MCDamage
INVARIANTS
    NothingInvented
    ReadsBack
CHECK_DEADLOCK FALSE
