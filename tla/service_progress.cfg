SPECIFICATION Spec
CONSTANTS
    None = None
    Calls = {c1, c2, c3}
    SettingsLimit = 1
PROPERTIES ShutdownCompletes CallsReturn
