\* Three threads set the backlight to white or to a blue with an alpha byte.
SPECIFICATION Spec
CONSTANTS
    Setters = {s1, s2, s3}
    Colors = {16777215, 2130706687}
    NoThread = NoThread
INVARIANT
    OneWriter
PROPERTIES
    BacklightSpec
    SetReturns
