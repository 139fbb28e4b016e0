------------------------------ MODULE Settings ------------------------------
(***************************************************************************)
(* The settings store: how a server process derives its key when it boots, *)
(* encrypts what an earlier run stored in plaintext and overlays the rows  *)
(* on its environment, and how a save validates, writes and reloads.       *)
(*                                                                         *)
(* A statement or a transaction is one step.  Processes may overlap, as a  *)
(* second server does until it finds the port taken, and may die anywhere. *)
(* A process has one save at a time here; Service has concurrent ones.     *)
(***************************************************************************)
EXTENDS Integers, FiniteSets

CONSTANTS
    Processes,   \* server processes
    Secrets,     \* the settings that hold credentials, one for each source
    Tokens,      \* credentials, none of them empty
    Passphrases, \* values of PLEXMIRROR_SECRET_KEY, apart from none
    Salts,       \* what the random generator may yield for a salt
    Forms,       \* what the settings form may post
    EnvPlain,    \* the environment's plain settings, which config.Load has accepted
    EnvToken,    \* its credentials: a token or Empty for each secret
    Repertoires, \* sets of events, one of which the environment is held to
    Empty,       \* the empty string
    None         \* no row, no key

\* A cap that ParseSize refuses; the others are sizes, 0 for none.
Unparsable == -1

\* The plain settings that matter: the storage caps, and the sources whose URL is
\* one that the adapter makes no client of, without a scheme, say.
Plain == [hard : Int, soft : Int, bad : SUBSET Secrets]
Texts == Tokens \cup {Empty}

\* scrypt, as far as it matters: another passphrase or salt is another key.
Keys == [pass : Passphrases, salt : Salts]

\* A stored secret: the key that reads it, None if it is plaintext, and what it says.
Rows == [by : Keys \cup {None}, text : Texts]

\* What Effective demands of them: the caps are sizes, the soft one no more than
\* the hard one.  It does not look at URLs.
Valid(c) ==
    /\ c.hard # Unparsable /\ c.soft # Unparsable
    /\ c.hard > 0 /\ c.soft > 0 => c.soft <= c.hard

\* A secret field is left blank, or cleared, or holds a new credential.
ASSUME FormAssumption ==
    Forms \subseteq [plain : Plain, post : [Secrets -> Texts \cup {None}]]
ASSUME EnvAssumption == EnvPlain \in Plain /\ Valid(EnvPlain) /\ EnvToken \in [Secrets -> Texts]
ASSUME NoneAssumption ==
    /\ None \notin Texts \cup Passphrases \cup Salts \cup Forms \cup Keys \cup Rows
    /\ Empty \notin Tokens
ASSUME RepertoireAssumption == Repertoires \subseteq SUBSET {"rotate", "overlap", "fault"}

VARIABLES
    salt,    \* the row of the KDF salt
    plain,   \* the rows of the plain settings
    secret,  \* the row of each secret: who can read it, and what it says
    proc,    \* what each process is doing
    events   \* what the environment may do in this behaviour

vars == <<salt, plain, secret, proc, events>>

\* encryptValue, whose result is plaintext if there is no key.
Encrypt(key, text) == [by |-> key, text |-> text]

\* decryptValue; what it cannot read, GetAll takes for unset.
Readable(key, row) == row.by = None \/ row.by = key
Read(key, row) == IF Readable(key, row) THEN row.text ELSE Empty

\* Effective over GetAll: a row overrides the environment, even an empty one.
Effective(key) ==
    [plain |-> IF plain = None THEN EnvPlain ELSE plain,
     token |-> [k \in Secrets |-> IF secret[k] = None THEN EnvToken[k] ELSE Read(key, secret[k])]]
Environment == [plain |-> EnvPlain, token |-> EnvToken]

\* buildRuntimeWith: a client is made for a source that has a token, and none can
\* be of a bad URL.
Buildable(config) == \A k \in config.plain.bad : config.token[k] = Empty

Off == [pc |-> "off", pass |-> None, key |-> None, fresh |-> None,
        todo |-> [k \in Secrets |-> None], form |-> None, config |-> Environment]
Goto(p, pc) == proc' = [proc EXCEPT ![p].pc = pc]
Fault == "fault" \in events

-----------------------------------------------------------------------------
(* NewStore.                                                               *)

\* A process starts, with a passphrase or without.
Boot(p) ==
    /\ proc[p].pc = "off"
    /\ "overlap" \in events \/ \A q \in Processes : proc[q].pc = "off"
    /\ \E pass \in Passphrases \cup (IF "rotate" \in events THEN {None} ELSE {}) :
          proc' = [proc EXCEPT ![p] =
             [Off EXCEPT !.pc = IF pass = None THEN "load" ELSE "salt", !.pass = pass]]
    /\ UNCHANGED <<salt, plain, secret, events>>

UseSalt(p, s) ==
    proc' = [proc EXCEPT ![p].pc = "scan", ![p].fresh = None,
                         ![p].key = [pass |-> proc[p].pass, salt |-> s]]

\* A salt nobody remembers: the generator repeats none.  Its finite range bounds
\* how many salts that were never stored can have left rows behind.
Unused == Salts \ ({salt} \cup {proc[q].fresh : q \in Processes}
                    \cup {secret[k].by.salt : k \in {j \in Secrets : secret[j] # None /\ secret[j].by # None}}
                    \cup {proc[q].key.salt : q \in {r \in Processes : proc[r].key # None}})

\* Mutation: the absence of a salt is an empty salt.
ReadSaltAnyway(p) ==
    /\ proc[p].pc = "salt"
    /\ UseSalt(p, salt)
    /\ UNCHANGED <<salt, plain, secret, events>>

\* readSalt, which takes an error for the absence of a salt.
ReadSalt(p) ==
    /\ proc[p].pc = "salt"
    /\ \/ salt # None /\ UseSalt(p, salt)
       \/ /\ salt = None \/ Fault
          /\ \E s \in Unused : proc' = [proc EXCEPT ![p].pc = "insert", ![p].fresh = s]
    /\ UNCHANGED <<salt, plain, secret, events>>

\* Mutation: the salt this process has generated is the one it uses.
InsertSaltAndUse(p) ==
    /\ proc[p].pc = "insert"
    /\ salt' = IF salt = None THEN proc[p].fresh ELSE salt
    /\ UseSalt(p, proc[p].fresh)
    /\ UNCHANGED <<plain, secret, events>>

\* INSERT ... ON CONFLICT DO NOTHING; a salt that cannot be stored is used all
\* the same.
InsertSalt(p) ==
    /\ proc[p].pc = "insert"
    /\ \/ /\ salt' = IF salt = None THEN proc[p].fresh ELSE salt
          /\ Goto(p, "reread")
       \/ Fault /\ UseSalt(p, proc[p].fresh) /\ UNCHANGED salt
    /\ UNCHANGED <<plain, secret, events>>

\* The INSERT may have lost a race.
RereadSalt(p) ==
    /\ proc[p].pc = "reread"
    /\ \/ UseSalt(p, salt)
       \/ Fault /\ UseSalt(p, proc[p].fresh)
    /\ UNCHANGED <<salt, plain, secret, events>>

-----------------------------------------------------------------------------
(* EncryptPlaintextSecrets, and the first Effective.                       *)

\* The rows in plaintext, empty ones apart, are read; the cursor is closed.
Scan(p) ==
    /\ proc[p].pc = "scan"
    /\ \/ proc' = [proc EXCEPT ![p].pc = "rewrite", ![p].todo = [k \in Secrets |->
             IF secret[k] # None /\ secret[k].by = None /\ secret[k].text # Empty
             THEN secret[k].text ELSE None]]
       \/ Fault /\ Goto(p, "load")
    /\ UNCHANGED <<salt, plain, secret, events>>

\* Mutation: the first row that has been rewritten is the last.
RewriteOne(p) ==
    /\ proc[p].pc = "rewrite"
    /\ \E k \in Secrets :
          /\ proc[p].todo[k] # None
          /\ secret' = [secret EXCEPT ![k] = Encrypt(proc[p].key, proc[p].todo[k])]
    /\ proc' = [proc EXCEPT ![p].pc = "load", ![p].todo = Off.todo]
    /\ UNCHANGED <<salt, plain, events>>

\* They are rewritten one by one; the first error is the last of it.
Rewrite(p) ==
    /\ proc[p].pc = "rewrite"
    /\ \/ \E k \in Secrets :
             /\ proc[p].todo[k] # None
             /\ secret' = [secret EXCEPT ![k] = Encrypt(proc[p].key, proc[p].todo[k])]
             /\ proc' = [proc EXCEPT ![p].todo[k] = None]
       \/ /\ proc[p].todo = Off.todo \/ Fault
          /\ proc' = [proc EXCEPT ![p].pc = "load", ![p].todo = Off.todo]
          /\ UNCHANGED secret
    /\ UNCHANGED <<salt, plain, events>>

\* Settings that cannot be read, or are not valid, do not keep it from booting;
\* a runtime that cannot be built does.
Start(p, config) ==
    proc' = [proc EXCEPT ![p].pc = IF Buildable(config) THEN "up" ELSE "failed", ![p].config = config]
Load(p) ==
    LET merged == Effective(proc[p].key) IN
    /\ proc[p].pc = "load"
    /\ \/ Valid(merged.plain) /\ Start(p, merged)
       \/ (Fault \/ ~Valid(merged.plain)) /\ Start(p, Environment)
    /\ UNCHANGED <<salt, plain, secret, events>>

\* The process dies, or is stopped: its listener found the port taken, say.
Stop(p) ==
    /\ proc[p].pc # "off"
    /\ proc' = [proc EXCEPT ![p] = Off]
    /\ UNCHANGED <<salt, plain, secret, events>>

-----------------------------------------------------------------------------
(* ApplySettings.                                                          *)

\* A form is posted, and goes on if what it makes of the stored settings is
\* valid.  It posts every plain setting, so those read before do not matter.
Submit(p) ==
    /\ proc[p].pc = "up"
    /\ \E f \in Forms :
          /\ Valid(f.plain)
          /\ proc' = [proc EXCEPT ![p].pc = "write", ![p].form = f]
    /\ UNCHANGED <<salt, plain, secret, events>>

\* Mutation: an empty field is an empty token.
WrittenBlank(key, post) ==
    [k \in Secrets |-> Encrypt(key, IF post[k] = None THEN Empty ELSE post[k])]

\* The secrets after a form has been written: a blank field changes nothing.
Written(key, post) ==
    [k \in Secrets |-> IF post[k] = None THEN secret[k] ELSE Encrypt(key, post[k])]

Finish(p) == proc' = [proc EXCEPT ![p].pc = "up", ![p].form = None]

\* Mutation: an error in the middle leaves what was written before it.
SetManyByOne(p) ==
    /\ proc[p].pc = "write"
    /\ \/ /\ plain' = proc[p].form.plain
          /\ secret' = Written(proc[p].key, proc[p].form.post)
          /\ Goto(p, "reload")
       \/ /\ Fault
          /\ plain' = [proc[p].form.plain EXCEPT !.soft = IF plain = None THEN 0 ELSE plain.soft]
          /\ UNCHANGED secret
          /\ Finish(p)
    /\ UNCHANGED <<salt, events>>

\* SetMany: all rows in one transaction, or none.
SetMany(p) ==
    /\ proc[p].pc = "write"
    /\ \/ /\ plain' = proc[p].form.plain
          /\ secret' = Written(proc[p].key, proc[p].form.post)
          /\ Goto(p, "reload")
       \/ Fault /\ Finish(p) /\ UNCHANGED <<plain, secret>>
    /\ UNCHANGED <<salt, events>>

\* Mutation: the reload is under the request's context and is cut short.
ReloadAborted(p) ==
    /\ proc[p].pc = "reload"
    /\ Finish(p)
    /\ UNCHANGED <<salt, plain, secret, events>>

\* The reload reads the rows again and builds a runtime.  If it cannot, the process
\* keeps the configuration it has: ErrReloadAfterSave, the rows are written.
Reload(p) ==
    LET merged == Effective(proc[p].key) IN
    /\ proc[p].pc = "reload"
    /\ \/ /\ Valid(merged.plain) /\ Buildable(merged)
          /\ proc' = [proc EXCEPT ![p].pc = "up", ![p].form = None, ![p].config = merged]
       \/ (Fault \/ ~(Valid(merged.plain) /\ Buildable(merged))) /\ Finish(p)
    /\ UNCHANGED <<salt, plain, secret, events>>

-----------------------------------------------------------------------------
\* An empty table, or what a run without a key has left.
Init ==
    /\ salt = None
    /\ plain = None
    /\ secret \in [Secrets -> {None} \cup {Encrypt(None, t) : t \in Tokens}]
    /\ proc = [p \in Processes |-> Off]
    /\ events \in Repertoires

Next == \E p \in Processes :
    \/ Boot(p) \/ ReadSalt(p) \/ InsertSalt(p) \/ RereadSalt(p) \/ Scan(p) \/ Rewrite(p)
    \/ Load(p) \/ Submit(p) \/ SetMany(p) \/ Reload(p) \/ Stop(p)

Spec == Init /\ [][Next]_vars

-----------------------------------------------------------------------------
(* Properties.                                                             *)

Configs == [plain : Plain, token : [Secrets -> Texts]]

\* A process has what the step it is at needs.
Servers ==
    {r \in [pc : {"off", "salt", "insert", "reread", "scan", "rewrite", "load", "failed", "up", "write", "reload"},
            pass : Passphrases \cup {None}, key : Keys \cup {None}, fresh : Salts \cup {None},
            todo : [Secrets -> Tokens \cup {None}], form : Forms \cup {None}, config : Configs] :
        /\ r.pc \in {"salt", "insert", "reread"} => r.pass \in Passphrases
        /\ r.pc \in {"insert", "reread"} => r.fresh \in Salts
        /\ r.pc \in {"scan", "rewrite"} => r.key \in Keys
        /\ r.pc \in {"write", "reload"} => r.form \in Forms}

TypeOK ==
    /\ salt \in Salts \cup {None}
    /\ plain \in Plain \cup {None}
    /\ secret \in [Secrets -> Rows \cup {None}]
    /\ proc \in [Processes -> Servers]
    /\ events \in Repertoires

\* "A bad stored value can never produce an invalid running config": whatever
\* fails in the middle of a save, the stored settings are those of one valid form,
\* and no process runs on invalid ones, or on some it could not build.
ConfigsValid ==
    /\ plain # None => Valid(plain)
    /\ \A p \in Processes :
          /\ Valid(proc[p].config.plain)
          /\ proc[p].pc \in {"up", "write", "reload"} => Buildable(proc[p].config)

\* "The already-stored salt is authoritative": as long as the database answers,
\* every process derives the same key from the same passphrase, so a secret that
\* any of them encrypts under a passphrase is read by all that boot with it,
\* however their first boots overlap and wherever they die.
KeysAgree ==
    ~Fault =>
        /\ \A p \in Processes : proc[p].key # None => proc[p].key.salt = salt
        /\ \A k \in Secrets : secret[k] # None /\ secret[k].by # None => secret[k].by.salt = salt

\* Only the operator changes a token: neither a boot, with whatever passphrase,
\* nor a save that leaves the field blank loses one, readable or not.  Processes
\* that overlap are left out: one may write back what it read before the other's
\* save.
TokensKept ==
    [][\A k \in Secrets :
          "overlap" \notin events /\ secret[k] # None
             /\ (secret'[k] = None \/ secret'[k].text # secret[k].text)
          => \E p \in Processes : proc[p].pc = "write" /\ proc[p].form.post[k] # None]_vars

\* Settings that were saved are in effect, live as well as after a restart, even if
\* an earlier save could not be put into effect: unless a statement fails, another
\* process saves, or a runtime cannot be built from them.
SavedIsInEffect ==
    events \cap {"fault", "overlap"} = {} =>
        \A p \in Processes :
            proc[p].pc = "up" /\ Buildable(Effective(proc[p].key)) => proc[p].config = Effective(proc[p].key)

\* "Adding PLEXMIRROR_SECRET_KEY after the fact actually closes the at-rest
\* exposure": once a process has booted with a passphrase, no token is in
\* plaintext, however many boots before it died on the way.  Without a fault, that
\* is, and with no process beside it that has no passphrase.
ExposureCloses ==
    ~Fault /\ ~({"rotate", "overlap"} \subseteq events) =>
        \A p \in Processes : proc[p].key # None /\ proc[p].pc \in {"load", "failed", "up", "write", "reload"} =>
            \A k \in Secrets : secret[k] # None /\ secret[k].by = None => secret[k].text = Empty

-----------------------------------------------------------------------------
(* What makes the safety properties inductive (SettingsProofs).            *)

\* A salt that was stored, or found stored, is there to be read again.
SaltStays == \A p \in Processes : proc[p].pc = "reread" => salt # None

\* A process that has got past its salt has a key if it has a passphrase.
KeysFollow ==
    \A p \in Processes :
        /\ proc[p].pc \notin {"off", "salt", "insert", "reread"} /\ proc[p].pass # None => proc[p].key # None
        /\ "rotate" \notin events /\ proc[p].pc # "off" => proc[p].pass # None

OneAtATime ==
    "overlap" \notin events =>
        \A p, q \in Processes : p # q => proc[p].pc = "off" \/ proc[q].pc = "off"

\* What is to be rewritten is what the row says, and all that is in plaintext.
TodoIsPlain ==
    \A p \in Processes, k \in Secrets :
        /\ proc[p].pc # "rewrite" => proc[p].todo[k] = None
        /\ "overlap" \notin events /\ proc[p].todo[k] # None =>
              secret[k] # None /\ secret[k].text = proc[p].todo[k]
        /\ /\ ~({"rotate", "overlap"} \subseteq events)
           /\ proc[p].pc = "rewrite"
           /\ secret[k] # None /\ secret[k].by = None /\ secret[k].text # Empty
           => proc[p].todo[k] # None

FormsValid == \A p \in Processes : proc[p].pc \in {"write", "reload"} => Valid(proc[p].form.plain)

SafetyInv ==
    /\ TypeOK /\ SaltStays /\ KeysFollow /\ OneAtATime /\ TodoIsPlain /\ FormsValid
    /\ ConfigsValid /\ KeysAgree /\ ExposureCloses
=============================================================================
