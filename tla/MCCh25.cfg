CONSTANTS
    MAX_RECORDS = 2
    XOR_KEY <- MCKey
    BITS = 5
    ASCII = {"a", "b", "z", "txt", "TXT", "meta", "student", "python", "chkpt", "other"}
    AsNumber <- MCAsNumber
    Files <- MCFiles
    Lists <- MCLists
    Demo <- MCDemo
    TestRecords <- MCTestRecords
    Users = {"student", "accent"}
    Rooms = {9}
    Damaged <- MCDamaged
    Appended <- MCAppended
SPECIFICATION Spec
INVARIANTS UnpackRestores DamageIsFound
PROPERTIES RoundTripHolds FailureKeepsArchive
CHECK_DEADLOCK FALSE
