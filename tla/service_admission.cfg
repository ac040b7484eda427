SPECIFICATION Spec
CONSTANTS
    None = None
    Calls = {c1, c2, c3, c4}
    SettingsLimit = 2
SYMMETRY Symmetries
INVARIANTS TypeOK Accounted TurnXorHandoff DownIsQuiet
PROPERTY ReadyIsTrue
