SPECIFICATION ShellFairSpec
CONSTANTS
    Names = {n1, n2}
    Callbacks = {"http_dns_cb", "dns_callback"}
    MaxPolls = 1
    Null = null
    MaxRequests = 2
    Pcbs = {p1}
PROPERTIES CommandEnds PcbsReturn
INVARIANT ShellSound
