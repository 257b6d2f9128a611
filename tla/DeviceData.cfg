\* Every pair of small devices, one for the topology and one for the calibration.
SPECIFICATION DataSpec
CONSTANTS
    None = None
    Nan = Nan
    Raises = Raises
    Devices <- MCDevices
    Standard <- MCStandard
    Width <- MCWidth
    Text <- MCText
INVARIANTS
    DataTypeOK
    KeysComplete
    ErrorsArrive
    PlacedAsOffered
CHECK_DEADLOCK FALSE
