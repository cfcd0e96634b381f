SPECIFICATION RegistersSpec
CONSTANT Commands <- MCCommands
INVARIANT StagedIsTracked
