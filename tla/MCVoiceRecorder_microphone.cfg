SPECIFICATION Spec
CONSTANTS
    MaxRecordings = 2
PROPERTY
    EveryRecordingStops
CHECK_DEADLOCK FALSE
