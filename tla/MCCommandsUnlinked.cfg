CONSTANTS
    LocalCommands = {a}
    RemoteCommands = {b, c}
    NoResult = NoResult
SPECIFICATION CommandsSpec
INVARIANT OkMeansQueued
