--------------------------- MODULE SettingsProofs ---------------------------
(* Settings' safety for every set of processes, secrets, forms and salts.   *)
(*                                                                         *)
(* SafetyInv says something of the rows, and of each process in terms of   *)
(* the rows: Fits(p, r) says it of the record r in the place of p.         *)
EXTENDS Settings, TLAPS

Exposed(k) == secret[k] # None /\ secret[k].by = None /\ secret[k].text # Empty

Fits(p, r) ==
    /\ r \in Servers
    /\ r.pc = "reread" => salt # None
    /\ r.pc \notin {"off", "salt", "insert", "reread"} /\ r.pass # None => r.key # None
    /\ "rotate" \notin events /\ r.pc # "off" => r.pass # None
    /\ "overlap" \notin events /\ r.pc # "off" => \A q \in Processes \ {p} : proc[q].pc = "off"
    /\ \A k \in Secrets :
          /\ r.pc # "rewrite" => r.todo[k] = None
          /\ "overlap" \notin events /\ r.todo[k] # None =>
                secret[k] # None /\ secret[k].text = r.todo[k]
          /\ ~({"rotate", "overlap"} \subseteq events) /\ r.pc = "rewrite" /\ Exposed(k) =>
                r.todo[k] # None
    /\ r.pc \in {"write", "reload"} => Valid(r.form.plain)
    /\ Valid(r.config.plain)
    /\ r.pc \in {"up", "write", "reload"} => Buildable(r.config)
    /\ ~Fault /\ r.key # None => r.key.salt = salt
    /\ ~Fault /\ ~({"rotate", "overlap"} \subseteq events) /\ r.key # None
          /\ r.pc \in {"load", "failed", "up", "write", "reload"} => \A k \in Secrets : ~Exposed(k)

\* The record of each process fits in its place.
LEMMA AllFit == SafetyInv => \A p \in Processes : Fits(p, proc[p])
<1> SUFFICES ASSUME SafetyInv, NEW p \in Processes PROVE Fits(p, proc[p])
  OBVIOUS
<1>1. proc[p] \in Servers
  BY DEF SafetyInv, TypeOK
<1>2. "overlap" \notin events /\ proc[p].pc # "off" =>
         \A q \in Processes \ {p} : proc[q].pc = "off"
  BY DEF SafetyInv, OneAtATime
<1>3. \A k \in Secrets :
         /\ proc[p].pc # "rewrite" => proc[p].todo[k] = None
         /\ "overlap" \notin events /\ proc[p].todo[k] # None =>
               secret[k] # None /\ secret[k].text = proc[p].todo[k]
         /\ ~({"rotate", "overlap"} \subseteq events) /\ proc[p].pc = "rewrite" /\ Exposed(k) =>
               proc[p].todo[k] # None
  BY DEF SafetyInv, TodoIsPlain, Exposed
<1>4. ~Fault /\ ~({"rotate", "overlap"} \subseteq events) /\ proc[p].key # None
         /\ proc[p].pc \in {"load", "failed", "up", "write", "reload"} => \A k \in Secrets : ~Exposed(k)
  BY DEF SafetyInv, ExposureCloses, Exposed
<1>5. /\ proc[p].pc = "reread" => salt # None
      /\ proc[p].pc \notin {"off", "salt", "insert", "reread"} /\ proc[p].pass # None => proc[p].key # None
      /\ "rotate" \notin events /\ proc[p].pc # "off" => proc[p].pass # None
      /\ proc[p].pc \in {"write", "reload"} => Valid(proc[p].form.plain)
      /\ Valid(proc[p].config.plain)
      /\ proc[p].pc \in {"up", "write", "reload"} => Buildable(proc[p].config)
      /\ ~Fault /\ proc[p].key # None => proc[p].key.salt = salt
  BY DEF SafetyInv, SaltStays, KeysFollow, FormsValid, ConfigsValid, KeysAgree
<1> QED
  BY <1>1, <1>2, <1>3, <1>4, <1>5 DEF Fits

\* What the invariant says of the rows and of the environment.
RowsOK ==
    /\ salt \in Salts \cup {None}
    /\ plain \in Plain \cup {None}
    /\ plain # None => Valid(plain)
    /\ secret \in [Secrets -> Rows \cup {None}]
    /\ ~Fault => \A k \in Secrets : secret[k] # None /\ secret[k].by # None => secret[k].by.salt = salt
    /\ events \in Repertoires

\* The invariant holds if the rows are as they should be and every record fits.
Fitted == RowsOK /\ proc \in [Processes -> Servers] /\ \A p \in Processes : Fits(p, proc[p])

LEMMA Fitting == Fitted => SafetyInv
<1> SUFFICES ASSUME Fitted PROVE SafetyInv
  OBVIOUS
<1>1. TypeOK
  BY DEF Fitted, RowsOK, TypeOK
<1>2. SaltStays /\ KeysFollow /\ FormsValid
  BY DEF Fitted, Fits, SaltStays, KeysFollow, FormsValid
<1>3. OneAtATime
  BY DEF Fitted, Fits, OneAtATime
<1>4. TodoIsPlain
  BY DEF Fitted, Fits, TodoIsPlain, Exposed
<1>5. ConfigsValid /\ KeysAgree
  BY DEF Fitted, Fits, RowsOK, ConfigsValid, KeysAgree
<1>6. ExposureCloses
  BY DEF Fitted, Fits, ExposureCloses, Exposed
<1> QED
  BY <1>1, <1>2, <1>3, <1>4, <1>5, <1>6 DEF SafetyInv

LEMMA RowsAreOK == SafetyInv => RowsOK
  BY DEF SafetyInv, TypeOK, ConfigsValid, KeysAgree, RowsOK

\* A step that leaves the rows alone preserves the invariant if what it makes of
\* its process fits.
LEMMA LocalStep == ASSUME SafetyInv, NEW p \in Processes, NEW r, Fits(p, r),
                          proc' = [proc EXCEPT ![p] = r],
                          UNCHANGED <<salt, plain, secret, events>>,
                          r.pc # "off" => proc[p].pc # "off" \/ "overlap" \in events
                                          \/ \A q \in Processes : proc[q].pc = "off"
                   PROVE  SafetyInv'
<1>1. proc' \in [Processes -> Servers]
  BY DEF SafetyInv, TypeOK, Fits
<1>2. RowsOK'
  BY RowsAreOK DEF RowsOK, Fault, Rows
<1>3. ASSUME NEW q \in Processes PROVE Fits(q, proc[q])'
  <2>1. Fits(q, proc'[q])
    BY AllFit, <1>1 DEF SafetyInv, TypeOK
  <2>2. "overlap" \notin events /\ proc'[q].pc # "off" =>
           \A s \in Processes \ {q} : proc'[s].pc = "off"
    BY AllFit DEF SafetyInv, TypeOK, Fits
  <2> QED
    BY <2>1, <2>2 DEF Fits, Exposed, Fault, Servers
<1>4. Fitted'
  BY <1>1, <1>2, <1>3 DEF Fitted
<1> QED
  BY <1>4, Fitting, PTL

-----------------------------------------------------------------------------
\* The configurations a process may run on.
LEMMA EnvironmentOK == Environment \in Configs /\ Valid(Environment.plain)
  BY EnvAssumption DEF Environment, Configs

LEMMA EffectiveType == ASSUME TypeOK, NEW key PROVE Effective(key) \in Configs
<1>1. ASSUME NEW k \in Secrets
      PROVE  (IF secret[k] = None THEN EnvToken[k] ELSE Read(key, secret[k])) \in Texts
  BY EnvAssumption DEF TypeOK, Rows, Read, Texts
<1>2. (IF plain = None THEN EnvPlain ELSE plain) \in Plain
  BY EnvAssumption DEF TypeOK
<1> QED
  BY <1>1, <1>2 DEF Effective, Configs

LEMMA EffectiveValid == ASSUME RowsOK, NEW key PROVE Valid(Effective(key).plain)
  BY EnvAssumption DEF RowsOK, Effective

\* A process that is not running fits anywhere.
LEMMA OffFits == ASSUME NEW p \in Processes PROVE Fits(p, Off)
<1>1. Off \in Servers
  BY EnvironmentOK DEF Off, Servers
<1> QED
  BY <1>1, EnvironmentOK DEF Fits, Off

\* A change of the place only, and one of other fields too, replaces a record.
LEMMA GotoIs == ASSUME TypeOK, NEW p \in Processes, NEW pc, Goto(p, pc)
                PROVE  proc' = [proc EXCEPT ![p] = [proc[p] EXCEPT !.pc = pc]]
  BY DEF Goto, TypeOK, Servers

\* The record of a process that has found its key.
Keyed(p, s) == [proc[p] EXCEPT !.pc = "scan", !.fresh = None,
                               !.key = [pass |-> proc[p].pass, salt |-> s]]

LEMMA UseSaltIs == ASSUME TypeOK, NEW p \in Processes, NEW s, UseSalt(p, s)
                   PROVE  proc' = [proc EXCEPT ![p] = Keyed(p, s)]
  BY DEF UseSalt, Keyed, TypeOK, Servers

\* It fits if the salt is one, and the one that is stored unless there are faults.
LEMMA KeyedFits == ASSUME SafetyInv, NEW p \in Processes, NEW s \in Salts, ~Fault => s = salt,
                          proc[p].pc \in {"salt", "insert", "reread"}
                   PROVE  Fits(p, Keyed(p, s))
<1>1. Fits(p, proc[p]) /\ proc[p] \in Servers
  BY AllFit DEF Fits
<1>2. [pass |-> proc[p].pass, salt |-> s] \in Keys
  BY <1>1 DEF Servers, Keys
<1>3. Keyed(p, s) \in Servers
  BY <1>1, <1>2 DEF Keyed, Servers
<1>4. [pass |-> proc[p].pass, salt |-> s].salt = s
  OBVIOUS
<1>5. Keyed(p, s).pc = "scan" /\ Keyed(p, s).key = [pass |-> proc[p].pass, salt |-> s]
      /\ Keyed(p, s).todo = proc[p].todo /\ Keyed(p, s).config = proc[p].config
      /\ Keyed(p, s).pass = proc[p].pass
  BY <1>1 DEF Keyed, Servers
<1>6. [pass |-> proc[p].pass, salt |-> s] # None
  BY <1>2, NoneAssumption
<1> QED
  BY <1>1, <1>3, <1>4, <1>5, <1>6 DEF Fits

-----------------------------------------------------------------------------
(* Steps that leave the rows alone.                                        *)

LEMMA BootStep == ASSUME SafetyInv, NEW p \in Processes, Boot(p) PROVE SafetyInv'
<1> PICK pass \in Passphrases \cup (IF "rotate" \in events THEN {None} ELSE {}) :
       proc' = [proc EXCEPT ![p] =
          [Off EXCEPT !.pc = IF pass = None THEN "load" ELSE "salt", !.pass = pass]]
  BY DEF Boot
<1> DEFINE r == [Off EXCEPT !.pc = IF pass = None THEN "load" ELSE "salt", !.pass = pass]
<1>1. Fits(p, Off)
  BY OffFits
<1>2. r \in Servers
  BY <1>1 DEF Fits, Servers, Off
<1>3. pass = None => "rotate" \in events
  BY NoneAssumption
<1>4. r.key = None /\ r.todo = Off.todo /\ r.config = Off.config /\ r.pass = pass
      /\ r.pc = IF pass = None THEN "load" ELSE "salt"
  BY DEF Off
<1>5. "overlap" \notin events => \A q \in Processes : proc[q].pc = "off"
  BY DEF Boot
<1>6. Fits(p, r)
  BY <1>1, <1>2, <1>3, <1>4, <1>5 DEF Fits, Off
<1> QED
  BY <1>5, <1>6, LocalStep DEF Boot

LEMMA SaltStep == ASSUME SafetyInv, NEW p \in Processes, ReadSalt(p) \/ RereadSalt(p)
                  PROVE  SafetyInv'
<1>0. TypeOK /\ Fits(p, proc[p]) /\ proc[p] \in Servers
  BY AllFit DEF SafetyInv, TypeOK
<1>1. ASSUME NEW s \in Salts, ~Fault => s = salt, UseSalt(p, s),
             proc[p].pc \in {"salt", "reread"}, UNCHANGED <<salt, plain, secret, events>>
      PROVE  SafetyInv'
  BY <1>0, <1>1, UseSaltIs, KeyedFits, LocalStep
<1>2. ASSUME NEW s \in Unused, proc[p].pc = "salt", UNCHANGED <<salt, plain, secret, events>>,
             proc' = [proc EXCEPT ![p].pc = "insert", ![p].fresh = s]
      PROVE  SafetyInv'
  <2> DEFINE r == [proc[p] EXCEPT !.pc = "insert", !.fresh = s]
  <2>1. s \in Salts
    BY DEF Unused
  <2>2. r \in Servers /\ proc' = [proc EXCEPT ![p] = r]
    BY <1>0, <1>2, <2>1 DEF TypeOK, Servers
  <2>3. r.pc = "insert" /\ r.todo = proc[p].todo /\ r.key = proc[p].key /\ r.pass = proc[p].pass
        /\ r.config = proc[p].config
    BY <1>0 DEF Servers
  <2>4. Fits(p, r)
    BY <1>0, <1>2, <2>2, <2>3 DEF Fits
  <2> QED
    BY <1>2, <2>2, <2>4, LocalStep
<1>3. CASE ReadSalt(p)
  BY <1>0, <1>1, <1>2, <1>3 DEF ReadSalt, TypeOK
<1>4. CASE RereadSalt(p)
  <2>1. salt \in Salts /\ proc[p].fresh \in Salts
    BY <1>0, <1>4 DEF RereadSalt, TypeOK, Fits, Servers
  <2> QED
    BY <1>1, <1>4, <2>1 DEF RereadSalt
<1> QED
  BY <1>3, <1>4

\* The record of a process that has scanned the table.
Scanned(p, texts) == [proc[p] EXCEPT !.pc = "rewrite", !.todo = texts]

LEMMA ScannedFits ==
  ASSUME SafetyInv, NEW p \in Processes, proc[p].pc = "scan",
         NEW texts \in [Secrets -> Tokens \cup {None}],
         \A k \in Secrets :
            /\ texts[k] # None => secret[k] # None /\ secret[k].text = texts[k]
            /\ Exposed(k) => texts[k] # None
  PROVE  Fits(p, Scanned(p, texts))
<1>1. Fits(p, proc[p]) /\ proc[p] \in Servers
  BY AllFit DEF Fits
<1>2. Scanned(p, texts) \in Servers
  BY <1>1 DEF Scanned, Servers
<1>3. Scanned(p, texts).todo = texts /\ Scanned(p, texts).pc = "rewrite"
      /\ Scanned(p, texts).key = proc[p].key /\ Scanned(p, texts).pass = proc[p].pass
      /\ Scanned(p, texts).config = proc[p].config
  BY <1>1 DEF Scanned, Servers
<1> QED
  BY <1>1, <1>2, <1>3 DEF Fits

LEMMA ScanStep == ASSUME SafetyInv, NEW p \in Processes, Scan(p) PROVE SafetyInv'
<1>0. TypeOK /\ Fits(p, proc[p]) /\ proc[p] \in Servers
  BY AllFit DEF SafetyInv, TypeOK
<1> DEFINE texts == [k \in Secrets |-> IF Exposed(k) THEN secret[k].text ELSE None]
<1>1. CASE proc' = [proc EXCEPT ![p].pc = "rewrite", ![p].todo = texts]
  <2>1. texts \in [Secrets -> Tokens \cup {None}]
    BY <1>0 DEF TypeOK, Rows, Texts, Exposed
  <2>2. \A k \in Secrets :
           /\ texts[k] # None => secret[k] # None /\ secret[k].text = texts[k]
           /\ Exposed(k) => texts[k] # None
    BY <1>0, NoneAssumption DEF TypeOK, Rows, Exposed
  <2>3. Fits(p, Scanned(p, texts))
    BY <2>1, <2>2, ScannedFits DEF Scan
  <2>4. proc' = [proc EXCEPT ![p] = Scanned(p, texts)]
    BY <1>0, <1>1 DEF TypeOK, Servers, Scanned
  <2> QED
    BY <2>3, <2>4, LocalStep, <1>0 DEF Scan
<1>2. CASE Fault /\ Goto(p, "load")
  <2> DEFINE r == [proc[p] EXCEPT !.pc = "load"]
  <2>1. r \in Servers
    BY <1>0 DEF Scan, Servers
  <2>2. Fits(p, r)
    BY <1>0, <1>2, <2>1 DEF Scan, Fits, Servers
  <2> QED
    BY <1>0, <1>2, <2>2, GotoIs, LocalStep DEF Scan
<1> QED
  BY <1>1, <1>2 DEF Scan, Exposed

LEMMA LoadStep == ASSUME SafetyInv, NEW p \in Processes, Load(p) \/ Reload(p) PROVE SafetyInv'
<1> DEFINE merged == Effective(proc[p].key)
<1>0. TypeOK /\ Fits(p, proc[p]) /\ proc[p] \in Servers
  BY AllFit DEF SafetyInv, TypeOK
<1>1. merged \in Configs
  BY <1>0, EffectiveType
<1>2. ASSUME NEW c \in Configs, Valid(c.plain), NEW f \in Forms \cup {None}, NEW pc \in {"up", "failed"},
             pc = "up" => Buildable(c),
             proc' = [proc EXCEPT ![p] = [proc[p] EXCEPT !.pc = pc, !.form = f, !.config = c]]
      PROVE  SafetyInv'
  <2> DEFINE r == [proc[p] EXCEPT !.pc = pc, !.form = f, !.config = c]
  <2>1. r \in Servers
    BY <1>0 DEF Servers
  <2>2. r.pc = pc /\ r.todo = proc[p].todo /\ r.key = proc[p].key /\ r.pass = proc[p].pass
        /\ r.config = c
    BY <1>0 DEF Servers
  <2>3. proc[p].pc \in {"load", "reload"}
    BY DEF Load, Reload
  <2>4. Fits(p, r)
    BY <1>0, <1>2, <2>1, <2>2, <2>3 DEF Fits
  <2> QED
    BY <1>2, <2>3, <2>4, LocalStep DEF Load, Reload
<1>3. CASE Load(p)
  <2>1. PICK c \in Configs : Valid(c.plain) /\ Start(p, c)
    BY <1>1, <1>3, EnvironmentOK DEF Load
  <2> DEFINE pc == IF Buildable(c) THEN "up" ELSE "failed"
  <2>2. proc' = [proc EXCEPT ![p] = [proc[p] EXCEPT !.pc = pc, !.form = proc[p].form, !.config = c]]
    BY <1>0, <2>1 DEF TypeOK, Servers, Start
  <2>3. proc[p].form \in Forms \cup {None}
    BY <1>0 DEF Servers
  <2> QED
    BY <1>2, <2>1, <2>2, <2>3
<1>4. CASE Reload(p)
  <2>1. PICK c \in Configs : /\ Valid(c.plain) /\ Buildable(c)
                             /\ proc' = [proc EXCEPT ![p] = [proc[p] EXCEPT !.pc = "up", !.form = None, !.config = c]]
    <3>1. CASE Finish(p)
      <4>1. proc[p].config \in Configs /\ Valid(proc[p].config.plain) /\ Buildable(proc[p].config)
        BY <1>0, <1>4 DEF Servers, Fits, Reload
      <4>2. proc' = [proc EXCEPT ![p] = [proc[p] EXCEPT !.pc = "up", !.form = None,
                                                        !.config = proc[p].config]]
        BY <1>0, <3>1 DEF Finish, TypeOK, Servers
      <4> QED
        BY <4>1, <4>2
    <3>2. CASE /\ Valid(merged.plain) /\ Buildable(merged)
               /\ proc' = [proc EXCEPT ![p].pc = "up", ![p].form = None, ![p].config = merged]
      <4>1. proc' = [proc EXCEPT ![p] = [proc[p] EXCEPT !.pc = "up", !.form = None, !.config = merged]]
        BY <1>0, <3>2 DEF TypeOK, Servers
      <4> QED
        BY <1>1, <3>2, <4>1
    <3> QED
      BY <1>4, <3>1, <3>2 DEF Reload
  <2> QED
    BY <1>2, <2>1
<1> QED
  BY <1>3, <1>4

LEMMA SubmitStep == ASSUME SafetyInv, NEW p \in Processes, Submit(p) PROVE SafetyInv'
<1>0. TypeOK /\ Fits(p, proc[p]) /\ proc[p] \in Servers
  BY AllFit DEF SafetyInv, TypeOK
<1>1. PICK f \in Forms : Valid(f.plain) /\ proc' = [proc EXCEPT ![p].pc = "write", ![p].form = f]
  BY DEF Submit
<1> DEFINE r == [proc[p] EXCEPT !.pc = "write", !.form = f]
<1>2. r \in Servers /\ proc' = [proc EXCEPT ![p] = r]
  BY <1>0, <1>1 DEF TypeOK, Servers
<1>3. r.pc = "write" /\ r.todo = proc[p].todo /\ r.key = proc[p].key /\ r.pass = proc[p].pass
      /\ r.config = proc[p].config /\ r.form = f
  BY <1>0 DEF Servers
<1>4. Fits(p, r)
  BY <1>0, <1>1, <1>2, <1>3 DEF Submit, Fits
<1> QED
  BY <1>2, <1>4, LocalStep DEF Submit

LEMMA StopStep == ASSUME SafetyInv, NEW p \in Processes, Stop(p) PROVE SafetyInv'
  BY OffFits, LocalStep DEF Stop, Off

-----------------------------------------------------------------------------
(* Steps that write a row.                                                 *)

LEMMA InsertStep == ASSUME SafetyInv, NEW p \in Processes, InsertSalt(p) PROVE SafetyInv'
<1>0. TypeOK /\ Fits(p, proc[p]) /\ proc[p] \in Servers /\ proc[p].fresh \in Salts
  BY AllFit DEF SafetyInv, TypeOK, InsertSalt, Servers
<1> DEFINE r == [proc[p] EXCEPT !.pc = "reread"]
<1>1. r \in Servers /\ r.pc = "reread" /\ r.todo = proc[p].todo /\ r.key = proc[p].key
      /\ r.pass = proc[p].pass /\ r.config = proc[p].config
  BY <1>0 DEF InsertSalt, Servers
<1>2. CASE Fault /\ UseSalt(p, proc[p].fresh) /\ UNCHANGED salt
  <2>1. Fits(p, Keyed(p, proc[p].fresh))
    BY <1>0, <1>2, KeyedFits DEF InsertSalt
  <2> QED
    BY <1>0, <1>2, <2>1, UseSaltIs, LocalStep DEF InsertSalt
<1>3. CASE salt # None /\ UNCHANGED salt /\ Goto(p, "reread")
  <2>1. Fits(p, r)
    BY <1>0, <1>1, <1>3 DEF InsertSalt, Fits
  <2> QED
    BY <1>0, <1>3, <2>1, GotoIs, LocalStep DEF InsertSalt
<1>4. CASE salt = None /\ salt' = proc[p].fresh /\ Goto(p, "reread")
  <2>1. proc' = [proc EXCEPT ![p] = r] /\ UNCHANGED <<plain, secret, events>>
    BY <1>0, <1>4, GotoIs DEF InsertSalt
  <2>2. salt' \in Salts /\ salt' # None
    BY <1>0, <1>4, NoneAssumption
  <2>3. proc' \in [Processes -> Servers]
    BY <1>0, <1>1, <2>1 DEF TypeOK
  <2>4. \A key \in Keys : key.salt # salt
    BY <1>4, NoneAssumption DEF Keys
  <2>5. RowsOK'
    BY <2>1, <2>2, <2>4, RowsAreOK DEF RowsOK, Fault, Rows
  <2>6. ASSUME NEW q \in Processes PROVE Fits(q, proc[q])'
    <3>1. Fits(q, proc[q]) /\ proc[q].key \in Keys \cup {None}
      BY AllFit DEF Fits, Servers
    <3>2. ~Fault => proc[q].key = None
      BY <2>4, <3>1 DEF Fits
    <3>3. CASE q = p
      BY <1>0, <1>1, <2>1, <2>2, <3>2, <3>3 DEF Fits, Exposed, Fault, Servers, TypeOK, InsertSalt
    <3>4. CASE q # p
      <4>1. proc'[q] = proc[q] /\ (proc'[p].pc = "off" <=> proc[p].pc = "off")
        BY <1>0, <1>1, <2>1, <3>4 DEF TypeOK, InsertSalt
      <4>2. "overlap" \notin events /\ proc'[q].pc # "off" =>
               \A s \in Processes \ {q} : proc'[s].pc = "off"
        BY <1>0, <2>1, <3>1, <4>1 DEF Fits, TypeOK
      <4> QED
        BY <2>1, <2>2, <3>1, <3>2, <4>1, <4>2 DEF Fits, Exposed, Fault, Servers
    <3> QED
      BY <3>3, <3>4
  <2>7. Fitted'
    BY <2>3, <2>5, <2>6 DEF Fitted
  <2> QED
    BY <2>7, Fitting, PTL
<1> QED
  BY <1>2, <1>3, <1>4 DEF InsertSalt

\* A step that writes secrets preserves the invariant if what it makes of its
\* process fits the new rows, it adds no plaintext where a process counts on
\* that, and the ciphertext it writes is under the stored salt.
LEMMA WriteStep ==
  ASSUME SafetyInv, NEW p \in Processes, NEW r \in Servers,
         proc' = [proc EXCEPT ![p] = r], UNCHANGED <<salt, events>>, RowsOK',
         Fits(p, proc[p])', proc[p].pc # "off",
         ~({"rotate", "overlap"} \subseteq events) =>
            "overlap" \notin events \/ \A k \in Secrets : Exposed(k)' => Exposed(k)
  PROVE  SafetyInv'
<1>1. proc' \in [Processes -> Servers]
  BY DEF SafetyInv, TypeOK
<1>2. ASSUME NEW q \in Processes PROVE Fits(q, proc[q])'
  <2>1. CASE q = p
    BY <2>1
  <2>2. CASE q # p
    <3>1. proc'[q] = proc[q] /\ Fits(q, proc[q]) /\ proc[q] \in Servers
      BY <2>2, AllFit DEF SafetyInv, TypeOK, Fits
    <3>2. "overlap" \notin events => proc[q].pc = "off"
      BY <2>2, AllFit DEF Fits
    <3>3. \A k \in Secrets : "overlap" \notin events => proc[q].todo[k] = None
      BY <3>1, <3>2 DEF Fits
    <3>4. proc'[q].pc # "off" => "overlap" \in events
      BY <3>1, <3>2
    <3> QED
      BY <3>1, <3>2, <3>3, <3>4 DEF Fits, Fault
  <2> QED
    BY <2>1, <2>2
<1>3. Fitted'
  BY <1>1, <1>2 DEF Fitted
<1> QED
  BY <1>3, Fitting, PTL

LEMMA RewriteStep == ASSUME SafetyInv, NEW p \in Processes, Rewrite(p) PROVE SafetyInv'
<1>0. TypeOK /\ RowsOK /\ Fits(p, proc[p]) /\ proc[p] \in Servers /\ proc[p].pc = "rewrite"
  BY AllFit, RowsAreOK DEF SafetyInv, TypeOK, Rewrite
<1>1. ASSUME NEW k \in Secrets, proc[p].todo[k] # None,
             secret' = [secret EXCEPT ![k] = Encrypt(proc[p].key, proc[p].todo[k])],
             proc' = [proc EXCEPT ![p].todo[k] = None]
      PROVE  SafetyInv'
  <2> DEFINE row == Encrypt(proc[p].key, proc[p].todo[k])
             r == [proc[p] EXCEPT !.todo[k] = None]
  <2>1. proc[p].todo[k] \in Tokens /\ proc[p].key \in Keys
    BY <1>0, <1>1 DEF Servers
  <2>2. row \in Rows /\ row.by = proc[p].key /\ row.text = proc[p].todo[k] /\ row # None
    BY <2>1, NoneAssumption DEF Encrypt, Rows, Texts
  <2>3. row.by # None
    BY <2>1, <2>2, NoneAssumption
  <2>4. secret'[k] = row /\ \A j \in Secrets \ {k} : secret'[j] = secret[j]
    BY <1>0, <1>1 DEF TypeOK
  <2>5. r \in Servers /\ proc' = [proc EXCEPT ![p] = r]
    BY <1>0, <1>1 DEF TypeOK, Servers
  <2>6. r.pc = "rewrite" /\ r.key = proc[p].key /\ r.pass = proc[p].pass /\ r.config = proc[p].config
        /\ r.todo[k] = None /\ \A j \in Secrets \ {k} : r.todo[j] = proc[p].todo[j]
    BY <1>0 DEF Servers
  <2>7. UNCHANGED <<salt, plain, events>>
    BY DEF Rewrite
  <2>8. RowsOK'
    <3>1. secret' \in [Secrets -> Rows \cup {None}]
      BY <1>0, <1>1, <2>2 DEF TypeOK
    <3>2. ~Fault => row.by.salt = salt
      BY <1>0, <2>2, <2>3 DEF Fits
    <3> QED
      BY <1>0, <2>4, <2>7, <3>1, <3>2 DEF RowsOK, Fault, Rows
  <2>9. ~Exposed(k)' /\ \A j \in Secrets : Exposed(j)' => Exposed(j)
    BY <2>3, <2>4 DEF Exposed
  <2>10. Fits(p, proc[p])'
    <3>0. proc'[p] = r
      BY <1>0, <2>5 DEF TypeOK
    <3>1. \A j \in Secrets :
             /\ "overlap" \notin events /\ proc'[p].todo[j] # None =>
                   secret'[j] # None /\ secret'[j].text = proc'[p].todo[j]
             /\ ~({"rotate", "overlap"} \subseteq events) /\ Exposed(j)' => proc'[p].todo[j] # None
      BY <1>0, <3>0, <2>4, <2>6, <2>9 DEF Fits
    <3>2. "overlap" \notin events => \A q \in Processes \ {p} : proc'[q].pc = "off"
      BY <1>0, <3>0, <2>5, <2>6 DEF Fits, TypeOK
    <3>3. /\ proc'[p].pass # None => proc'[p].key # None
          /\ "rotate" \notin events => proc'[p].pass # None
          /\ Valid(proc'[p].config.plain)
          /\ ~Fault /\ proc'[p].key # None => proc'[p].key.salt = salt
      BY <1>0, <3>0, <2>6 DEF Fits
    <3>4. proc'[p].pc = "rewrite" /\ proc'[p] \in Servers
      BY <3>0, <2>5, <2>6
    <3> QED
      BY <2>7, <3>1, <3>2, <3>3, <3>4 DEF Fits, Fault
  <2> QED
    BY <1>0, <2>5, <2>7, <2>8, <2>9, <2>10, WriteStep
<1>2. ASSUME proc' = [proc EXCEPT ![p].pc = "load", ![p].todo = Off.todo], UNCHANGED secret,
             proc[p].todo = Off.todo \/ Fault
      PROVE  SafetyInv'
  <2> DEFINE r == [proc[p] EXCEPT !.pc = "load", !.todo = Off.todo]
  <2>1. r \in Servers /\ proc' = [proc EXCEPT ![p] = r]
    BY <1>0, <1>2 DEF TypeOK, Servers, Off
  <2>2. r.pc = "load" /\ r.key = proc[p].key /\ r.pass = proc[p].pass /\ r.config = proc[p].config
        /\ \A k \in Secrets : r.todo[k] = None
    BY <1>0 DEF Servers, Off
  <2>3. ~Fault /\ ~({"rotate", "overlap"} \subseteq events) => \A k \in Secrets : ~Exposed(k)
    BY <1>0, <1>2 DEF Fits, Off
  <2>4. Fits(p, r)
    BY <1>0, <2>1, <2>2, <2>3 DEF Fits
  <2> QED
    BY <1>0, <1>2, <2>1, <2>4, LocalStep DEF Rewrite
<1> QED
  BY <1>1, <1>2 DEF Rewrite

\* A process finishes a save that came to nothing.
LEMMA FinishStep == ASSUME SafetyInv, NEW p \in Processes, Finish(p), proc[p].pc = "write",
                           UNCHANGED <<salt, plain, secret, events>>
                    PROVE  SafetyInv'
<1>0. TypeOK /\ Fits(p, proc[p]) /\ proc[p] \in Servers
  BY AllFit DEF SafetyInv, TypeOK
<1> DEFINE r == [proc[p] EXCEPT !.pc = "up", !.form = None]
<1>1. r \in Servers /\ proc' = [proc EXCEPT ![p] = r]
  BY <1>0 DEF Finish, TypeOK, Servers
<1>2. r.pc = "up" /\ r.key = proc[p].key /\ r.pass = proc[p].pass /\ r.config = proc[p].config
      /\ r.todo = proc[p].todo
  BY <1>0 DEF Servers
<1>3. Fits(p, r)
  BY <1>0, <1>1, <1>2 DEF Fits
<1> QED
  BY <1>1, <1>3, LocalStep

LEMMA SetManyStep == ASSUME SafetyInv, NEW p \in Processes, SetMany(p) PROVE SafetyInv'
<1>0. TypeOK /\ RowsOK /\ Fits(p, proc[p]) /\ proc[p] \in Servers /\ proc[p].pc = "write"
  BY AllFit, RowsAreOK DEF SafetyInv, TypeOK, SetMany
<1>1. CASE /\ plain' = proc[p].form.plain
           /\ secret' = Written(proc[p].key, proc[p].form.post)
           /\ Goto(p, "reload")
  <2> DEFINE f == proc[p].form
             r == [proc[p] EXCEPT !.pc = "reload"]
  <2>1. f \in Forms /\ f.plain \in Plain /\ f.post \in [Secrets -> Texts \cup {None}] /\ Valid(f.plain)
    BY <1>0, FormAssumption DEF Servers, Fits
  <2>2. proc[p].key \in Keys \cup {None}
    BY <1>0 DEF Servers
  <2>3. \A k \in Secrets : \/ secret'[k] = secret[k]
                          \/ /\ secret'[k] \in Rows /\ secret'[k] # None
                             /\ secret'[k].by = proc[p].key
    BY <1>1, <2>1, <2>2, NoneAssumption DEF Written, Encrypt, Rows
  <2>4. r \in Servers /\ proc' = [proc EXCEPT ![p] = r]
    BY <1>0, <1>1, GotoIs DEF Servers
  <2>5. r.pc = "reload" /\ r.key = proc[p].key /\ r.pass = proc[p].pass /\ r.config = proc[p].config
        /\ r.form = f /\ r.todo = proc[p].todo
    BY <1>0 DEF Servers
  <2>6. UNCHANGED <<salt, events>>
    BY DEF SetMany
  <2>7. RowsOK'
    <3>1. DOMAIN secret' = Secrets /\ secret' = [k \in Secrets |-> secret'[k]]
      BY <1>1 DEF Written
    <3>2. secret' \in [Secrets -> Rows \cup {None}]
      BY <1>0, <2>3, <3>1 DEF TypeOK
    <3>3. ~Fault /\ proc[p].key # None => proc[p].key.salt = salt
      BY <1>0 DEF Fits
    <3> QED
      BY <1>0, <1>1, <2>1, <2>3, <2>6, <3>2, <3>3 DEF RowsOK, Fault
  <2>8. proc[p].key # None => \A k \in Secrets : Exposed(k)' => Exposed(k)
    BY <2>3 DEF Exposed
  <2>9. "rotate" \notin events => proc[p].key # None
    BY <1>0 DEF Fits
  <2>10. Fits(p, proc[p])'
    <3>0. proc'[p] = r
      BY <1>0, <2>4 DEF TypeOK
    <3>1. \A k \in Secrets : proc'[p].todo[k] = None
      BY <1>0, <3>0, <2>5 DEF Fits
    <3>2. "overlap" \notin events => \A q \in Processes \ {p} : proc'[q].pc = "off"
      BY <1>0, <3>0, <2>4 DEF Fits, TypeOK
    <3>3. /\ proc'[p].pass # None => proc'[p].key # None
          /\ "rotate" \notin events => proc'[p].pass # None
          /\ Valid(proc'[p].config.plain) /\ Buildable(proc'[p].config)
          /\ ~Fault /\ proc'[p].key # None => proc'[p].key.salt = salt
          /\ ~Fault /\ ~({"rotate", "overlap"} \subseteq events) /\ proc'[p].key # None
                => \A k \in Secrets : ~Exposed(k)'
          /\ Valid(proc'[p].form.plain)
      BY <1>0, <3>0, <2>1, <2>5, <2>8 DEF Fits
    <3>4. proc'[p].pc = "reload" /\ proc'[p] \in Servers
      BY <3>0, <2>4, <2>5
    <3> QED
      BY <2>6, <3>1, <3>2, <3>3, <3>4 DEF Fits, Fault
  <2> QED
    BY <1>0, <2>4, <2>6, <2>7, <2>8, <2>9, <2>10, WriteStep
<1>2. CASE Fault /\ Finish(p) /\ UNCHANGED <<plain, secret>>
  BY <1>0, <1>2, FinishStep DEF SetMany
<1> QED
  BY <1>1, <1>2 DEF SetMany

-----------------------------------------------------------------------------
LEMMA SafetyInit == Init => SafetyInv
<1> SUFFICES ASSUME Init PROVE Fitted
  BY Fitting
<1>1. proc \in [Processes -> Servers] /\ \A p \in Processes : proc[p] = Off /\ Fits(p, Off)
  BY OffFits DEF Init, Fits
<1>2. \A t \in Tokens : Encrypt(None, t) \in Rows /\ Encrypt(None, t).by = None
  BY DEF Encrypt, Rows, Texts
<1>3. \A k \in Secrets : secret[k] \in Rows \cup {None} /\ (secret[k] # None => secret[k].by = None)
  BY <1>2 DEF Init
<1>4. RowsOK
  BY <1>3 DEF Init, RowsOK
<1> QED
  BY <1>1, <1>4 DEF Fitted

\* Every step preserves the invariant.
LEMMA SafetyInduction == SafetyInv /\ [Next]_vars => SafetyInv'
<1> SUFFICES ASSUME SafetyInv, [Next]_vars PROVE SafetyInv'
  OBVIOUS
<1>1. CASE UNCHANGED vars
  BY <1>1 DEF vars, SafetyInv, TypeOK, SaltStays, KeysFollow, OneAtATime, TodoIsPlain, FormsValid,
              ConfigsValid, KeysAgree, ExposureCloses, Fault
<1>2. ASSUME NEW p \in Processes, Boot(p) \/ Stop(p) PROVE SafetyInv'
  BY <1>2, BootStep, StopStep
<1>3. ASSUME NEW p \in Processes, ReadSalt(p) \/ InsertSalt(p) \/ RereadSalt(p) PROVE SafetyInv'
  BY <1>3, SaltStep, InsertStep
<1>4. ASSUME NEW p \in Processes, Scan(p) \/ Rewrite(p) PROVE SafetyInv'
  BY <1>4, ScanStep, RewriteStep
<1>5. ASSUME NEW p \in Processes, Load(p) \/ Submit(p) \/ SetMany(p) \/ Reload(p) PROVE SafetyInv'
  BY <1>5, LoadStep, SubmitStep, SetManyStep
<1> QED
  BY <1>1, <1>2, <1>3, <1>4, <1>5 DEF Next

\* The invariant of the settings holds in every behaviour.
THEOREM Safety == Spec => []SafetyInv
  BY SafetyInit, SafetyInduction, PTL DEF Spec

\* Rows and processes are well-formed in every behaviour; in particular a process
\* that rewrites secrets has a key and one that writes has a form.
THEOREM TypeCorrect == Spec => []TypeOK
<1>1. SafetyInv => TypeOK
  BY DEF SafetyInv
<1> QED
  BY <1>1, Safety, PTL

\* No save, failed or not, and no boot ever brings about an invalid configuration,
\* stored or running, whatever the forms are.
THEOREM NeverInvalid == Spec => []ConfigsValid
<1>1. SafetyInv => ConfigsValid
  BY DEF SafetyInv
<1> QED
  BY <1>1, Safety, PTL

\* While the database answers, any number of overlapping first boots agree on the
\* salt, so that each reads what any other has encrypted under its passphrase.
THEOREM OneSalt == Spec => []KeysAgree
<1>1. SafetyInv => KeysAgree
  BY DEF SafetyInv
<1> QED
  BY <1>1, Safety, PTL

\* A process that has booted with a passphrase has left no token in plaintext, and
\* none comes back.
THEOREM NothingExposed == Spec => []ExposureCloses
<1>1. SafetyInv => ExposureCloses
  BY DEF SafetyInv
<1> QED
  BY <1>1, Safety, PTL

\* A boot, a reload and a save of other settings never change what a stored secret
\* says, readable or not.
THEOREM OnlyTheOperator == Spec => TokensKept
<1> DEFINE Kept(k) == "overlap" \notin events /\ secret[k] # None
                        /\ (secret'[k] = None \/ secret'[k].text # secret[k].text)
                     => \E p \in Processes : proc[p].pc = "write" /\ proc[p].form.post[k] # None
<1>1. SafetyInv /\ [Next]_vars => [\A k \in Secrets : Kept(k)]_vars
  <2> SUFFICES ASSUME SafetyInv, Next, NEW k \in Secrets PROVE Kept(k)
    OBVIOUS
  <2>1. CASE UNCHANGED secret
    BY <2>1
  <2>2. ASSUME NEW p \in Processes, Rewrite(p) PROVE Kept(k)
    <3>1. Fits(p, proc[p]) /\ proc[p] \in Servers /\ secret \in [Secrets -> Rows \cup {None}]
      BY AllFit DEF Fits, SafetyInv, TypeOK
    <3>2. ASSUME NEW j \in Secrets, proc[p].todo[j] # None, "overlap" \notin events,
                 secret' = [secret EXCEPT ![j] = Encrypt(proc[p].key, proc[p].todo[j])]
          PROVE  Kept(k)
      <4>1. Encrypt(proc[p].key, proc[p].todo[j]).text = secret[j].text
        BY <3>1, <3>2 DEF Encrypt, Fits
      <4>2. Encrypt(proc[p].key, proc[p].todo[j]) # None
        <5>1. proc[p].todo[j] \in Tokens /\ proc[p].key \in Keys
          BY <2>2, <3>1, <3>2 DEF Rewrite, Servers
        <5> QED
          BY <5>1, NoneAssumption DEF Encrypt, Rows, Texts
      <4> QED
        BY <3>1, <3>2, <4>1, <4>2
    <3> QED
      BY <2>1, <2>2, <3>2 DEF Rewrite
  <2>3. ASSUME NEW p \in Processes, SetMany(p) PROVE Kept(k)
    BY <2>1, <2>3 DEF SetMany, Written
  <2>4. (\E p \in Processes : Rewrite(p) \/ SetMany(p)) \/ UNCHANGED secret
    BY DEF Next, Boot, ReadSalt, InsertSalt, RereadSalt, Scan, Load, Submit, Reload, Stop
  <2> QED
    BY <2>1, <2>2, <2>3, <2>4
<1> QED
  BY <1>1, Safety, PTL DEF Spec, TokensKept

\* Nobody else is about while the only process is up, and what it does itself
\* from there takes it elsewhere; it comes back by reading the rows.
LEMMA InEffectInduction == SafetyInv /\ SavedIsInEffect /\ [Next]_vars => SavedIsInEffect'
<1> SUFFICES ASSUME SafetyInv, SavedIsInEffect, [Next]_vars, events' \cap {"fault", "overlap"} = {},
                    NEW p \in Processes, proc'[p].pc = "up", Buildable(Effective(proc[p].key))'
             PROVE  (proc[p].config = Effective(proc[p].key))'
  BY DEF SavedIsInEffect
<1>1. TypeOK /\ RowsOK /\ events' = events /\ "overlap" \notin events /\ ~Fault
  BY RowsAreOK DEF SafetyInv, vars, Next, Boot, ReadSalt, InsertSalt, RereadSalt, Scan, Rewrite, Load,
                   Submit, SetMany, Reload, Stop, Fault
<1>2. CASE UNCHANGED vars
  BY <1>1, <1>2 DEF SavedIsInEffect, vars, Effective, Read, Readable
<1>3. ASSUME NEW q \in Processes, q # p, proc' = [proc EXCEPT ![q] = proc'[q]],
             Boot(q) \/ proc[q].pc # "off"
      PROVE  FALSE
  <2>1. proc[p].pc = "up"
    BY <1>1, <1>3 DEF TypeOK
  <2> QED
    BY <1>1, <1>3, <2>1 DEF SafetyInv, OneAtATime, Boot
<1>4. ASSUME Load(p) \/ Reload(p) PROVE (proc[p].config = Effective(proc[p].key))'
  <2>1. UNCHANGED <<plain, secret>> /\ Valid(Effective(proc[p].key).plain)
    BY <1>1, <1>4, EffectiveValid DEF Load, Reload
  <2>2. proc'[p].key = proc[p].key
    BY <1>1, <1>4 DEF Load, Reload, Start, Finish, TypeOK, Servers
  <2>3. (Effective(proc[p].key))' = Effective(proc[p].key)
    BY <2>1, <2>2 DEF Effective, Read, Readable
  <2>4. Buildable(Effective(proc[p].key))
    BY <2>3 DEF Buildable
  <2>5. proc'[p].config = Effective(proc[p].key)
    BY <1>1, <1>4, <2>1, <2>4 DEF Load, Reload, Start, TypeOK, Servers
  <2> QED
    BY <2>2, <2>3, <2>5
<1>5. ASSUME Boot(p) \/ ReadSalt(p) \/ InsertSalt(p) \/ RereadSalt(p) \/ Scan(p) PROVE FALSE
  <2>1. CASE Boot(p)
    BY <1>1, <2>1 DEF Boot, Off, TypeOK
  <2>2. CASE ReadSalt(p) \/ InsertSalt(p)
    BY <1>1, <2>2 DEF ReadSalt, InsertSalt, UseSalt, Goto, TypeOK, Servers
  <2>3. CASE RereadSalt(p) \/ Scan(p)
    BY <1>1, <2>3 DEF RereadSalt, Scan, UseSalt, Goto, TypeOK, Servers
  <2> QED
    BY <1>5, <2>1, <2>2, <2>3
<1>6. ASSUME Rewrite(p) \/ Submit(p) \/ SetMany(p) \/ Stop(p) PROVE FALSE
  BY <1>1, <1>6 DEF Rewrite, Submit, SetMany, Goto, Stop, Off, TypeOK, Servers
<1>7. ASSUME NEW q \in Processes, q # p,
             \/ Boot(q) \/ ReadSalt(q) \/ InsertSalt(q) \/ RereadSalt(q) \/ Scan(q) \/ Rewrite(q)
             \/ Load(q) \/ Submit(q) \/ SetMany(q) \/ Reload(q) \/ Stop(q)
      PROVE  FALSE
  <2>1. Boot(q) \/ proc[q].pc # "off"
    BY <1>7 DEF ReadSalt, InsertSalt, RereadSalt, Scan, Rewrite, Load, Submit, SetMany, Reload, Stop
  <2>2. proc' = [proc EXCEPT ![q] = proc'[q]]
    <3>1. CASE Load(q) \/ Reload(q)
      BY <1>1, <3>1 DEF Load, Reload, Start, Finish, TypeOK
    <3>2. CASE Boot(q) \/ ReadSalt(q) \/ InsertSalt(q) \/ RereadSalt(q) \/ Scan(q) \/ Rewrite(q)
               \/ Submit(q) \/ SetMany(q) \/ Stop(q)
      BY <1>1, <3>2 DEF Boot, ReadSalt, InsertSalt, RereadSalt, Scan, Rewrite, Submit, SetMany, Stop,
                        UseSalt, Goto, Finish, TypeOK
    <3> QED
      BY <1>7, <3>1, <3>2
  <2> QED
    BY <1>3, <1>7, <2>1, <2>2
<1> QED
  BY <1>2, <1>4, <1>5, <1>6, <1>7 DEF Next

\* Without a second process and while the database answers, what was saved last is
\* what a process runs on, whatever passphrase it booted with: from the save on,
\* and again after any restart.
THEOREM SavesTakeEffect == Spec => []SavedIsInEffect
<1>1. Init => SavedIsInEffect
  BY DEF Init, SavedIsInEffect, Off
<1> QED
  BY <1>1, SafetyInit, SafetyInduction, InEffectInduction, PTL DEF Spec
=============================================================================
