SPECIFICATION Spec
CONSTANTS
    MaxRows = 2
PROPERTIES
    UsableFloorKeepsObjects
CHECK_DEADLOCK FALSE
