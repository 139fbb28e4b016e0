\* Two processes that may overlap, a passphrase that comes, goes and changes,
\* statements that fail.
CONSTANTS
    p1 = p1  p2 = p2  t1 = t1  t2 = t2  None = None  Empty = Empty
    s1 = s1  s2 = s2  old = old  new = new
    Processes = {p1, p2}
    Secrets = {"plex", "jellyfin"}
    Tokens = {t1, t2}
    Passphrases = {old, new}
    Salts = {s1, s2}
    Forms <- SomeForms
    EnvPlain <- NoEnvPlain
    EnvToken <- NoEnvToken
    Repertoires = {{"rotate"}, {"overlap"}, {"rotate", "overlap"}, {"fault"}}
SPECIFICATION Spec
SYMMETRY Interchangeable
INVARIANTS TypeOK ConfigsValid KeysAgree SavedIsInEffect ExposureCloses
PROPERTY TokensKept
