SPECIFICATION Spec
CONSTANTS
    Uploads = {u1, u2, u3}
    None = None
    MaxFaults = 2
CHECK_DEADLOCK FALSE
PROPERTY NoRowsAdded
