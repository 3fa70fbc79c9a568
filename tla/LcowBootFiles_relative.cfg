\* Two directories for the executable and the current directory, a shim
\* started by full path or by bare name, ProgramFiles set or not.
CONSTANTS Drive = "C:"
    Dirs = {"a", "b"}
    Exe = "shim.exe"
SPECIFICATION Spec
\* The function returns once; nothing follows in this model.
CHECK_DEADLOCK FALSE
INVARIANT AlwaysAbsolute
