CONSTANTS
    tracked = tracked
    windows = windows
    new = new
    hidden = hidden
    t1 = t1
    t2 = t2
    Empty = Empty
    Files = {tracked, windows, new, hidden}
    Texts = {Empty, t1, t2}
    None = None
    Cloned <- Clone
    Unlisted = {hidden}
    Leftovers = {new}
    MaxEdits = 3
SPECIFICATION Spec
CHECK_DEADLOCK FALSE
INVARIANT DiffIsExact
INVARIANT PublishedIsReviewed
