\* Plex by name, or Jellyfin only; a handler that saves, reconnects or observes
\* beside the supervisor; servers and plex.tv that come and go, a database that
\* fails, items that are gone.
CONSTANTS
    home = home  away = away  h1 = h1  h2 = h2  None = None
    Addresses = {home, away}
    Advertised = {home, away}
    TopRanked = home
    JellyfinURL = away
    Handlers = {h1}
    Configs <- NameOrNone
    Verdicts = {"ok", "auth_error"}
    Repertoires = {{"save"}, {"reconnect", "fault"}, {"observe", "outage"}, {"observe", "missing"},
                   {"reconnect", "outage"}, {"outage", "account"}}
SPECIFICATION HealsSpec
INVARIANTS TypeOK OneGeneration
PROPERTIES PlexKept CallsEnd SelfHeals OutageShows
