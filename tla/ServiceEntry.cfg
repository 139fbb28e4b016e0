\* Saving settings that drop a source, while servers come and go.
CONSTANTS
    home = home  away = away  h1 = h1  h2 = h2  None = None
    Addresses = {home}
    Advertised = {home}
    TopRanked = home
    JellyfinURL = home
    Handlers = {h1}
    Configs <- TwoConfigs
    Verdicts = {"ok", "auth_error", "down"}
    Repertoires = {{"save", "reconnect", "outage"}}
SPECIFICATION Spec
INVARIANTS EntryIffConfigured
