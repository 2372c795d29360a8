SPECIFICATION Spec
CONSTANTS
    shell = shell
    headless = headless
    here = here
    there = there
    p3000 = p3000
    p3001 = p3001
    None = None
    Apps = {shell, headless}
    Desks = {shell}
    Wikis = {here, there}
    Home <- TheHome
    FirstSettings <- TheSettings
    Ports = {p3000, p3001}
    DefaultPort = p3000
    Taken = {}
    MaxLaunches = 2
    MaxCalls = 2
    MaxMishaps = 1
INVARIANTS TypeOK EveryCallIsCounted EndpointsAreTrue
PROPERTY StopsEnd
CHECK_DEADLOCK FALSE
