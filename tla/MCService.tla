----------------------------- MODULE MCService ------------------------------
(* Model-checking values for Service.                                      *)
EXTENDS Service, TLC

CONSTANTS home, away, h1, h2

ByName == [plex |-> "server", url |-> home, jellyfin |-> FALSE]
ByURL == [plex |-> "url", url |-> home, jellyfin |-> TRUE]
JellyfinOnly == [plex |-> "none", url |-> home, jellyfin |-> TRUE]

NameOrNone == {ByName, JellyfinOnly}
TwoConfigs == {ByURL, JellyfinOnly}
ThreeConfigs == {ByName, ByURL, JellyfinOnly}

\* Saves change between two configurations, the one address that answers is
\* Plex's and not Jellyfin's, and the server starts with both known.
HealsInit ==
    /\ Init
    /\ "save" \in events => live = {home} /\ account = "ok" /\ stored = ByName
HealsSpec == HealsInit /\ [][Next]_vars /\ Fairness
=============================================================================
