CONSTANTS
    Repos = {r1}
    Threads = {t1}
    Requests = {"ranking"}
    CacheTtl = 1
    MaxTime = 2
SPECIFICATION Spec
PROPERTY RankingIsWithinTtl
