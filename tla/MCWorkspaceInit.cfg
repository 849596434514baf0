SPECIFICATION Spec
CONSTANTS
    Processes = {"p", "q"}
    Definitions = {"g", "i"}
    WorkspaceOf <- MCWorkspaceOf
    MaxCrashes = 2
    MaxCommits = 1
INVARIANTS TypeOK OneGeneration
PROPERTIES InitializationResumes
