CONSTANTS
    Unset = Unset  n1 = n1  n2 = n2  n3 = n3  n4 = n4  c1 = c1  a = a  b = b  h1 = h1  h2 = h2
    Node = {a, b}
    Ttl = 2
    Timeout = 1
    Failsafe = TRUE
    Member = {a, b}  Nobody = Nobody  TTL = 2  LoopWait = 1  NoLoadBalance = {}
    Amount = {1, 2}
    CitusGroup = {0, 1}  CitusHosts <- OneGroup  Self = c1  Nothing = Nothing  MaxFaults = 1
    Host = {h1, h2}  NoHost = NoHost
SPECIFICATION ServerSpec
INVARIANTS HaSafe TopologySafe ParametersSafe RecoverySafe HealthSafe UnitsSafe
PROPERTY CitusSafe
SYMMETRY Symmetry
