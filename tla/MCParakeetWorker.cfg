CONSTANTS
    Uploads = {u1, u2, u3}
    NoUpload = NoUpload
    MaxRestarts <- MCMaxRestarts
SPECIFICATION ParakeetSpec
INVARIANTS
    AnswerIsOwn
CHECK_DEADLOCK FALSE
