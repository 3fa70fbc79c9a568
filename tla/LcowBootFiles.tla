---------------------------- MODULE LcowBootFiles ----------------------------
(***************************************************************************)
(* vmutils/lcow.go DefaultLCOWOSBootFilesPath.                             *)
(*                                                                         *)
(* A Windows path is a root (a drive, or none for a relative path) and a   *)
(* sequence of elements; "." is the relative path with no elements, and    *)
(* so is the empty string, which filepath.Join skips.  filepath.Dir drops  *)
(* the last element; os.Stat resolves a relative path against the current  *)
(* directory.  The environment is where the executable is, how os.Args[0]  *)
(* names it (its full path, or its bare name when it was started from the  *)
(* current directory or found on PATH), the current directory, whether     *)
(* ProgramFiles is set, and which LinuxBootFiles directories exist.        *)
(***************************************************************************)
EXTENDS Sequences, SequencesExt

CONSTANTS
    Drive,      \* the system drive, "C:"
    Dirs,       \* directories the executable or the process may be in
    Exe         \* the executable's file name

VARIABLES
    exeDir,       \* the directory the executable really is in
    args0,        \* os.Args[0]
    cwd,          \* the process's current directory
    programFiles, \* os.Getenv("ProgramFiles")
    fs,           \* the LinuxBootFiles directories that exist
    result        \* what DefaultLCOWOSBootFilesPath returned, once it has

vars == <<exeDir, args0, cwd, programFiles, fs, result>>

Path(root, elems) == [root |-> root, elems |-> elems]
NoResult == Path("", <<"none">>)

Abs(dir) == Path(Drive, <<dir>>)

\* filepath.Dir: the path without its last element ("." for a bare name).
Dir(p) == Path(p.root, Front(p.elems))

\* filepath.Join(p, n): the element appended; an empty p contributes
\* nothing, and Join(".", n) cleans to n.
Join(p, n) == Path(p.root, Append(p.elems, n))

\* os.Stat(p) == nil: the path, resolved against the current directory,
\* names an existing directory.
Resolve(p) == IF p.root = "" THEN Path(cwd.root, cwd.elems \o p.elems) ELSE p
Stat(p) == Resolve(p) \in fs

Init ==
    /\ exeDir \in {Abs(d) : d \in Dirs}
    /\ args0 \in {Join(exeDir, Exe), Path("", <<Exe>>)}
    /\ cwd \in {Abs(d) : d \in Dirs}
    /\ programFiles \in {Path("", <<>>), Abs("Program Files")}
    /\ fs \in SUBSET {Join(Abs(d), "LinuxBootFiles") : d \in Dirs}
    /\ result = NoResult

\* The LinuxBootFiles subdirectory of os.Args[0]'s directory when os.Stat
\* finds it, otherwise %ProgramFiles%\Linux Containers.
DefaultLCOWOSBootFilesPath ==
    /\ result = NoResult
    /\ LET localDirPath == Join(Dir(args0), "LinuxBootFiles")
       IN result' = IF Stat(localDirPath) THEN localDirPath
                    ELSE Join(programFiles, "Linux Containers")
    /\ UNCHANGED <<exeDir, args0, cwd, programFiles, fs>>

Next == DefaultLCOWOSBootFilesPath

Spec == Init /\ [][Next]_vars

-----------------------------------------------------------------------------
IsAbs(p) == p.root # ""
Returned == result # NoResult

\* TestDefaultLCOWOSBootFilesPath_PathConstruction: "The result should
\* always be an absolute path".
AlwaysAbsolute == Returned => IsAbs(result)

=============================================================================
