SPECIFICATION Spec
CONSTANTS
    google = google
    dropbox = dropbox
    DROPBOX = DROPBOX
    b1 = b1
    b2 = b2
    None = None
    Providers = {google, dropbox}
    Google = google
    Names = {google, dropbox, DROPBOX}
    Normalize <- MCNormalize
    Bases = {b1, b2}
    Chosen <- MCChosen
    Sessions = {s1}
INVARIANTS
    TypeOK
    ServesComplete
PROPERTY
    LostOnlyWhenMoved
