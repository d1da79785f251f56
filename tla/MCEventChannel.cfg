CONSTANTS
    MaxEvents = 3
    BufferSize = 2
SPECIFICATION Spec
PROPERTIES ExportPickedUp
CHECK_DEADLOCK FALSE
