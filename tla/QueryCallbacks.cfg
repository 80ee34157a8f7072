SPECIFICATION QCSpec
CONSTANTS
    NumAsync = 2
    Ops = {o1, o2, o3}
    Installed = {TRUE, FALSE}
    NoOp = NoOp
    MaxChain = 2
INVARIANTS
    WorkerHasConnection
    OneOwner
    CallbackOnce
PROPERTIES
    CallbacksRun
    CloseTerminates
