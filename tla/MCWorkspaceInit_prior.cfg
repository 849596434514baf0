SPECIFICATION Spec
CONSTANTS
    Processes = {"p"}
    Definitions = {"g"}
    WorkspaceOf <- MCWorkspaceOf
    MaxCrashes = 1
    MaxCommits = 0
PROPERTY RefusedOnlyIfPrior
