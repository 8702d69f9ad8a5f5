SPECIFICATION SettingsSpec
CONSTANTS
    e1 = e1
    e2 = e2
    Editors <- MCEditors
CHECK_DEADLOCK FALSE
INVARIANTS
    SettingsSound
    StoredInRange
PROPERTIES
    EditLands
    Converges
