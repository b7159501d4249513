SPECIFICATION Spec
CONSTANTS
    a = a
    b = b
    c = c
    d = d
    server = server
    agent = agent
    ghost = ghost
    idle = idle
    Hosts <- FourHosts
    Nodes = {server, agent, ghost, idle}
    HostOf <- VmHosts
    Known = {server, agent, idle}
    EtcdNodes = {server}
    Autostart = {server, agent, ghost}
    Safe = {a, b, c}
    Cleared = {a, b, c, d}
    Nobody = Nobody
    Retries = 1
    MaxRuns = 3
    MaxNeeds = 2
    MaxMarks = 2
INVARIANTS
    NothingSilent
    MetricIsOfThisRun
PROPERTIES
    RebootsAreSafe
CHECK_DEADLOCK FALSE
