SPECIFICATION Spec
CONSTANTS
    long_press_ms = 3
    LATENCY = 1
PROPERTIES
    AlertMeansHeld
