---------------------------- MODULE MCSettings ------------------------------
(* Model-checking values for Settings.                                     *)
EXTENDS Settings, TLC

CONSTANTS p1, p2, t1, t2, s1, s2, old, new

NoEnvPlain == [hard |-> 0, soft |-> 0, bad |-> {}]
NoEnvToken == [k \in Secrets |-> Empty]

Form(hard, soft, bad, plex, jellyfin) ==
    [plain |-> [hard |-> hard, soft |-> soft, bad |-> bad], post |-> ("plex" :> plex @@ "jellyfin" :> jellyfin)]

\* Both caps, the soft one alone, and two that are refused; a token is left,
\* replaced or cleared; the URL of Plex makes no client, with and without a token.
SomeForms == {Form(2, 2, {}, None, t2), Form(0, 2, {"plex"}, Empty, None), Form(1, 1, {"plex"}, t1, None),
              Form(1, 2, {}, None, None), Form(Unparsable, 0, {}, None, None)}

Interchangeable == Permutations(Processes) \cup Permutations(Passphrases) \cup Permutations(Salts)
=============================================================================
