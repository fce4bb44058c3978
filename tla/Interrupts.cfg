\* No constants: the machine is small as it is.
SPECIFICATION FairSpec
INVARIANTS HandlersAlone NothingInService
PROPERTY KeysAndTicks
