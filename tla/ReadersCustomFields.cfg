\* A change of one license is answered after another one was selected.
SPECIFICATION Spec
CONSTANTS
    Records = {r1, r2}
    None = None
    MaxReads = 3
    MaxSelects = 2
    MaxChanges = 1
PROPERTIES
    StaleResponsesAreIgnored
CHECK_DEADLOCK FALSE
