SPECIFICATION MCSpec
CONSTANTS
    IrqTypes = {"external", "inband"}
    Loads <- PlatLoads
    CtlLoads <- ControlLoads
    CtlServices = {"wifi", "bt"}
    UsbLoads <- PortLoads
    UsbUrbs = {1, 2}
    UsbNTx = 1
    EdmaLoads <- RingLoads
    EdmaN = 2
    EdmaCnt = 2
    EdmaBudget = 3
INVARIANTS
    PlatSound
    CtlSound
    
    EdmaSound
PROPERTIES
    BusesMove
CHECK_DEADLOCK FALSE
