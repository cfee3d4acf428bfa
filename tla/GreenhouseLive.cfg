SPECIFICATION FairSpec
CONSTANTS
    MAX_POWER = 1000
    MaxFaults = 1
    CO2_FATAL = 2000
    CO2_FAN_MARGIN = 310
    CO2_EXPECTED_EMISSION_RATE_CO2pS = 200
    MIN_EMISSION_PERIOD_MS = 500
    MAX_EMISSION_PERIOD_MS = 2000
    UPDATE_THRESHOLD = 1
    Levels <- LiveLevels
    Targets = {800}
    NoTarget = NoTarget
PROPERTIES
    DosesEnd
    LevelIsDriven
    OmissionStops
