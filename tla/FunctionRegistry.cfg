SPECIFICATION Spec
CONSTANTS
    Ids = {"f", "g"}
    Candidates <- MCCandidates
    InputTypes <- MCInputTypes
    OutputTypes <- MCOutputTypes
    Converters = {"activityTrigger"}
    DeferredTypes = {"blob"}
    None = None
\* no more functions are added
CHECK_DEADLOCK FALSE
INVARIANTS
    TypeOK
    CallMatchesSignature
    HttpTriggerRecognised
    OrderIndependent
PROPERTY StaysRegistered
