\* A reconnect by the supervisor beside a save.
CONSTANTS
    home = home  away = away  h1 = h1  h2 = h2  None = None
    Addresses = {home}
    Advertised = {home}
    TopRanked = home
    JellyfinURL = home
    Handlers = {h1}
    Configs <- ThreeConfigs
    Verdicts = {"ok", "auth_error", "down"}
    Repertoires = {{"save", "reconnect", "outage"}}
SPECIFICATION Spec
INVARIANTS RuntimeFollowsSettings
