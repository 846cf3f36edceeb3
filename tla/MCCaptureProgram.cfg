SPECIFICATION Spec
CONSTANTS
    Sensors <- MCSensors
    Trims <- MCTrims
    Pixels <- MCPixels
    NoTrim = 256
    None = None
INVARIANTS TypeOK SamplesEveryLine ProgramKept AnchorsPointAtCode CalibrationIsWhole
