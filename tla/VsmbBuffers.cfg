\* Names up to three characters over 'A', '\' and U+1F600 (a surrogate pair).
CONSTANTS CodePoints = {65, 92, 128512}
    MaxNameLen = 3
SPECIFICATION Spec
\* Both buffers are built once; the run ends there.
CHECK_DEADLOCK FALSE
INVARIANTS StartBufferDescribesName BindBufferCarriesName
