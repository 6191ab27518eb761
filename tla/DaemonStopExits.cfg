SPECIFICATION FairSpec
CONSTANTS
    Daemons = {d1}
    Clients = {c1}
    None = None
PROPERTY StopExits
