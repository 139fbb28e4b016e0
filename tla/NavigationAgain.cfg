\* One page beside the monitor, a save, and a Jellyfin that comes and goes.
CONSTANTS
    Pages = {p1}  TTL = 2  Timeout = 1  MaxCfg = 2
SPECIFICATION FairSpec
PROPERTIES AnswersAgain
