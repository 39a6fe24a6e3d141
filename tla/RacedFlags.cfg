CONSTANTS
    m1 = m1
    m2 = m2
    Messages = {m1, m2}
    Contents <- NamedCommands
    NULL = NULL
SPECIFICATION Spec
INVARIANT
    OnlyOTAHandledAsOTA
CHECK_DEADLOCK FALSE
