---------------------------- MODULE KeyRotation ----------------------------
(***************************************************************************)
(* The replacement of the encryption key (rotate_key.py, and               *)
(* rekey_encrypted.py, which it runs): the .env files of the two tiers,    *)
(* the stored values, one script of the operator at a time that can die    *)
(* anywhere, and the tiers, which go on writing with the key they loaded   *)
(* when they started.  A lookup hash goes with its value in one UPDATE.    *)
(***************************************************************************)
EXTENDS Integers, FiniteSets

CONSTANTS
  Tables,       \* tables with encrypted columns
  MaxRetired,   \* MAX_RETIRED
  Careful,      \* the operator restarts the stack before he retires a key, as he is told
  MaxKeys,      \* bound: keys that are generated
  MaxScriptDeaths     \* bound: scripts that die

ASSUME KeyRotationConstants ==
  /\ IsFiniteSet(Tables) /\ MaxRetired \in Nat /\ Careful \in BOOLEAN
  /\ MaxKeys \in Nat /\ MaxScriptDeaths \in Nat /\ "none" \notin Tables

Tiers == {"app", "console"}
Keys == 0..MaxKeys
KeyRing == [key : Keys, old : SUBSET Keys]   \* ENCRYPTION_KEY, ENCRYPTION_KEYS_OLD
Opens(ring) == {ring.key} \cup ring.old

VARIABLES
  env,      \* what the .env of each tier says
  loaded,   \* what the running processes of each tier loaded from it
  stored,   \* the key that the values of each table are encrypted under
  listed,   \* TARGETS
  script,   \* the script that runs
  newest,   \* the last key that was generated
  died      \* history: scripts that died

rotationVars == <<env, loaded, stored, listed, script, newest, died>>

NoTable == "none"
Script ==
  [step : {"idle", "planned", "half", "scan", "done", "drop", "dropped"},
   job : {"rotate", "rekey", "retire"},
   previous : Keys,
   ring : KeyRing,                     \* what rekey_encrypted.py loaded
   apply : BOOLEAN,
   todo : SUBSET Tables, read : Tables \cup {NoTable}, found : Keys,
   clean : BOOLEAN,
   missed : SUBSET Tables]             \* history: written since they were read
FirstRing == [key |-> 0, old |-> {}]
NoScript ==
  [step |-> "idle", job |-> "rekey", previous |-> 0, ring |-> FirstRing, apply |-> FALSE,
   todo |-> {}, read |-> NoTable, found |-> 0, clean |-> TRUE, missed |-> {}]

\* No list of retired keys is longer than the script allows.
KeyRotationTypeOK ==
  /\ env \in [Tiers -> KeyRing] /\ loaded \in [Tiers -> KeyRing]
  /\ stored \in [Tables -> Keys] /\ listed \subseteq Tables /\ script \in Script
  /\ newest \in Keys /\ died \in 0..MaxScriptDeaths
  /\ \A tier \in Tiers : Cardinality(env[tier].old) <= MaxRetired

KeyRotationInit ==
  /\ env = [tier \in Tiers |-> FirstRing] /\ loaded = env
  /\ stored = [t \in Tables |-> 0] /\ listed \in SUBSET Tables
  /\ script = NoScript /\ newest = 0 /\ died = 0

-----------------------------------------------------------------------------
(* rotate *)

\* Mutant: what is over the limit falls off the end of the list.
RetiredTruncates(old) ==
  IF Cardinality(old) <= MaxRetired THEN old
  ELSE CHOOSE kept \in SUBSET old :
         Cardinality(kept) = MaxRetired /\ \A k \in kept, d \in old \ kept : k > d
\* _retired_value: the previous key goes before those that were listed.
RetiredValue(old) == old
Demoted(tier, previous) == RetiredValue({previous} \cup env[tier].old)
\* A list that would be too long is refused before any file is touched.
Refuses(old) == Cardinality(old) > MaxRetired

Rotates ==
  /\ script.step = "idle" /\ newest < MaxKeys
  /\ \A tier \in Tiers : ~Refuses(Demoted(tier, env["app"].key))
  /\ newest' = newest + 1
  /\ script' = [NoScript EXCEPT !.step = "planned", !.job = "rotate",
                                            !.previous = env["app"].key]
  /\ UNCHANGED <<env, loaded, stored, listed, died>>

Rewritten(tier) ==
  [env EXCEPT ![tier] = [key |-> newest, old |-> Demoted(tier, script.previous)]]
\* One file after the other, each replaced as a whole.
WritesApp ==
  /\ script.step = "planned"
  /\ env' = Rewritten("app") /\ script' = [script EXCEPT !.step = "half"]
  /\ UNCHANGED <<loaded, stored, listed, newest, died>>
\* A scan is a process of its own, which loads the keys of the app.
Scans(job, apply) ==
  script' = [NoScript EXCEPT !.step = "scan", !.job = job, !.ring = env["app"], !.apply = apply,
                             !.todo = listed]
WritesConsole ==
  /\ script.step = "half"
  /\ env' = Rewritten("console") /\ Scans("rotate", TRUE)
  /\ UNCHANGED <<loaded, stored, listed, newest, died>>

-----------------------------------------------------------------------------
(* rekey_encrypted.py *)

Rekeys ==
  /\ script.step = "idle" /\ Scans("rekey", TRUE)
  /\ UNCHANGED <<env, loaded, stored, listed, newest, died>>

\* The cursor sees the table as it is when it is opened.
ReadsTable(t) ==
  /\ script.step = "scan" /\ script.read = NoTable /\ t \in script.todo
  /\ script' = [script EXCEPT !.todo = @ \ {t}, !.read = t, !.found = stored[t], !.missed = @ \ {t}]
  /\ UNCHANGED <<env, loaded, stored, listed, newest, died>>

\* A report wants the primary key; a rewrite wants any.
Clean(ring, key) == IF script.apply THEN key \in Opens(ring) ELSE key = ring.key
\* process_table: what no key opens is never touched.
TreatsTable ==
  /\ script.step = "scan" /\ script.read # NoTable
  /\ stored' = IF script.apply /\ script.found \in script.ring.old
               THEN [stored EXCEPT ![script.read] = script.ring.key] ELSE stored
  /\ script' = [script EXCEPT !.read = NoTable, !.clean = @ /\ Clean(script.ring, script.found)]
  /\ UNCHANGED <<env, loaded, listed, newest, died>>

\* Mutant: what the list leaves out is not looked for.
CoveredUnchecked == TRUE
\* _uncovered_encrypted_columns and its kin.
Covered == listed = Tables
ScanOver == script.step = "scan" /\ script.read = NoTable /\ script.todo = {}
Succeeds == script.clean /\ Covered
\* _report_tiers: what fresh processes of the tiers load.
TiersAgree == env["console"].key = env["app"].key

\* The verification is a second scan, which only reports.
TiersChecked ==
  /\ ScanOver /\ Succeeds /\ script.job = "rotate" /\ script.apply /\ TiersAgree
  /\ Scans("rotate", FALSE)
  /\ UNCHANGED <<env, loaded, stored, listed, newest, died>>
Finishes ==
  /\ ScanOver /\ Succeeds /\ script.job \in {"rotate", "retire"} /\ ~script.apply
  /\ script' = [script EXCEPT !.step = IF script.job = "rotate" THEN "done" ELSE "drop"]
  /\ UNCHANGED <<env, loaded, stored, listed, newest, died>>
GivesUp ==
  /\ \/ ScanOver /\ (~Succeeds \/ script.job = "rekey")
     \/ ScanOver /\ script.apply /\ ~TiersAgree
     \/ script.step = "done"
  /\ script' = NoScript
  /\ UNCHANGED <<env, loaded, stored, listed, newest, died>>

-----------------------------------------------------------------------------
(* retire_old *)

\* "Restart the stack.  Once it is healthy, retire."
Healthy == \A tier \in Tiers : loaded[tier].key = env["app"].key /\ env[tier].key = env["app"].key
Retires ==
  /\ script.step = "idle" /\ \E tier \in Tiers : env[tier].old # {}
  /\ Careful => Healthy
  /\ Scans("retire", FALSE)
  /\ UNCHANGED <<env, loaded, stored, listed, newest, died>>
DropsOld ==
  /\ script.step \in {"drop", "dropped"}
  /\ LET tier == IF script.step = "drop" THEN "app" ELSE "console" IN
       env' = [env EXCEPT ![tier].old = {}]
  /\ script' = IF script.step = "drop" THEN [script EXCEPT !.step = "dropped"] ELSE NoScript
  /\ UNCHANGED <<loaded, stored, listed, newest, died>>

ScriptDies ==
  /\ script.step # "idle" /\ died < MaxScriptDeaths /\ died' = died + 1
  /\ script' = NoScript
  /\ UNCHANGED <<env, loaded, stored, listed, newest>>

-----------------------------------------------------------------------------
(* The tiers and the list *)

LiveWrites(tier, t) ==
  /\ stored' = [stored EXCEPT ![t] = loaded[tier].key]
  /\ script' = [script EXCEPT !.missed = IF script.step = "idle" THEN {} ELSE @ \cup {t}]
  /\ UNCHANGED <<env, loaded, listed, newest, died>>
TierRestarts(tier) ==
  /\ loaded' = [loaded EXCEPT ![tier] = env[tier]]
  /\ UNCHANGED <<env, stored, listed, script, newest, died>>
\* "Add them to TARGETS in this file and re-run."
ListsTable(t) ==
  /\ script.step = "idle" /\ listed' = listed \cup {t}
  /\ UNCHANGED <<env, loaded, stored, script, newest, died>>

-----------------------------------------------------------------------------
ScriptGoesOn ==
  \/ WritesApp \/ WritesConsole \/ TreatsTable \/ TiersChecked \/ Finishes \/ GivesUp \/ DropsOld
  \/ \E t \in Tables : ReadsTable(t)
KeyRotationNext ==
  \/ Rotates \/ Rekeys \/ Retires \/ ScriptGoesOn \/ ScriptDies
  \/ \E tier \in Tiers, t \in Tables : LiveWrites(tier, t)
  \/ \E tier \in Tiers : TierRestarts(tier)
  \/ \E t \in Tables : ListsTable(t)
KeyRotationSpec == KeyRotationInit /\ [][KeyRotationNext]_rotationVars

-----------------------------------------------------------------------------
(* Properties *)

\* Whatever dies and whenever, the app that starts again opens every value: "if
\* step 4 dies halfway the database is a mix of old and new ciphertext and both
\* still decrypt", and a retired key was needed by nothing.
AppReads == \A t \in Tables : stored[t] \in Opens(env["app"])

\* A rotation that reports success has both tiers on the new key and no value
\* under an older one, but for what a tier wrote after the scan came by.
DoneIsDone ==
  script.step = "done" =>
    /\ \A tier \in Tiers : env[tier].key = newest
    /\ \A t \in Tables \ script.missed : stored[t] = newest
=============================================================================
