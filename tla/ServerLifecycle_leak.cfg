SPECIFICATION FairSpec
CONSTANTS
    Handlers = {h1, h2}
    Worker = worker
PROPERTY EventuallyClosed
CHECK_DEADLOCK FALSE
