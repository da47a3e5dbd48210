SPECIFICATION Spec
CONSTANTS
    Runs = {"r1", "r2"}
    Hosts = {"h1", "h2"}
    Host <- TwoHosts
    NoHost = "none"
    Nesting <- MCNesting
    Required = 2
    Cooldown = 4
    RestartTicks = 1
    Skew = 1
    Faults = {}
PROPERTY RestartsSpaced
