SPECIFICATION SigSpec
CONSTANTS
    Codes = {"code"}
    Signals = {"signal"}
    Running = "running"
    ExecError = "exec error"
    WaitError = "wait error"
\* The processes end.
CHECK_DEADLOCK FALSE
PROPERTY ParentFollows
