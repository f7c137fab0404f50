SPECIFICATION Spec
CONSTANT MaxReq = 3
INVARIANT BufferHeldForHardware
CHECK_DEADLOCK FALSE
