SPECIFICATION DeviceSpec
CONSTANTS
    W = 4
    H = 3
    tux_map <- Picture
    Screens <- AllScreens
    PAGE = 4
    Arguments <- AllArguments
    Inputs <- TwoInputs
INVARIANTS TypeOK ShowsPicture ResultIsAskedFor
PROPERTIES Ends
CHECK_DEADLOCK FALSE
