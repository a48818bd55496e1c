SPECIFICATION ServerSpec
CONSTANTS
    r1 = r1
    v1 = v1
    f1 = f1
    f2 = f2
    Requests = {r1}
    Loop = Loop
    MaxRotations = 2
    Files <- FilesOf
    Values = {v1, v2}
    Entries = {"ci-runner", "id1"}
    NoName = NoName
    MaxEdits = 2
    ServerToken = v1
    CommandLines <- DocumentedLines
    Clients <- ClientsOf
    KeyIds = {1, 2}
    Subjects = {"", "ci-runner", "dev"}
    TokenIds = {"id1", "id2"}
INVARIANTS
    EndpointsServed
CHECK_DEADLOCK FALSE
