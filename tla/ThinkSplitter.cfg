SPECIFICATION Spec
CONSTANT MaxInput = 6
INVARIANT ChunkingInvisible
CHECK_DEADLOCK FALSE
