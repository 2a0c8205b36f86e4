----------------------------- MODULE GpgUnlock -----------------------------
(***************************************************************************)
(* How git-crypt unlock, given no key file, finds the repository's keys:   *)
(* for every key name under .git-crypt/keys it tries the files encrypted   *)
(* to the user's secret keys, until gpg decrypts one (commands.cpp:620-683 *)
(* and 1066-1082).  gpg may fail on any of them: the file is damaged, a    *)
(* card is not plugged in, the user dismisses the passphrase prompt.  What *)
(* is done with the keys found is in GitCrypt (StartUnlock).               *)
(***************************************************************************)
EXTENDS KeyDirectory

CONSTANTS SecretKeys    \* fingerprints of the user's GPG secret keys

VARIABLES
  files,   \* <keys_path>/<name>/0/<fingerprint>.gpg
  clean,   \* has git status nothing to print?
  pc,      \* next step: one dirent, one secret key, the verdict
  names,   \* dirents still to do
  cur,     \* the dirent it is at
  keys,    \* secret keys still to try for it
  gpgError,\* gpg_error: gpg failed on a file of this dirent
  found,   \* key_files
  successful,
  exit,
  \* history variable
  failed   \* the files gpg failed on, as <<name, fingerprint>>

vars == <<files, clean, pc, names, cur, keys, gpgError, found, successful,
          exit, failed>>

TypeOK ==
  /\ files \in [Names -> [SecretKeys -> Contents]]
  /\ clean \in BOOLEAN
  /\ pc \in {"status", "list", "name", "key", "done"}
  /\ names \subseteq Names /\ cur \in Names \cup {Absent} /\ keys \subseteq SecretKeys
  /\ gpgError \in BOOLEAN /\ successful \in BOOLEAN
  /\ found \subseteq Loadable
  /\ exit \in {"none", "found", "dirty", "no key", "no gpg", "gpg",
              "malformed"}
  /\ failed \subseteq Names \X SecretKeys

Init ==
  /\ files \in [Names -> [SecretKeys -> Contents]]
  /\ clean \in BOOLEAN
  /\ pc = "status" /\ exit = "none"
  /\ names = {} /\ cur = Absent /\ keys = {} /\ gpgError = FALSE
  /\ found = {} /\ successful = FALSE /\ failed = {}

-----------------------------------------------------------------------------
Proceed(next) == pc' = next /\ exit' = "none"
Stop(how) == pc' = "done" /\ exit' = how

CheckStatus ==
  /\ pc = "status"
  /\ IF clean THEN Proceed("list") ELSE Stop("dirty")
  /\ UNCHANGED <<files, clean, names, cur, keys, gpgError, found, successful, failed>>

\* The secret keys are listed first, then the directory.
List ==
  /\ pc = "list"
  /\ names' = Names
  /\ Proceed("name")
  /\ UNCHANGED <<files, clean, cur, keys, gpgError, found, successful, failed>>

ListDies ==
  /\ pc = "list"
  /\ Stop("no gpg")
  /\ UNCHANGED <<files, clean, names, cur, keys, gpgError, found, successful, failed>>

\* The dirents are sorted; no property depends on their order, and any is allowed.
SkipName(n) ==
  /\ pc = "name" /\ n \in names \ ValidNames
  /\ names' = names \ {n}
  /\ UNCHANGED <<files, clean, pc, cur, keys, gpgError, found, successful, exit, failed>>

TakeName(n) ==
  /\ pc = "name" /\ n \in names \cap ValidNames
  /\ names' = names \ {n} /\ cur' = n
  /\ keys' = SecretKeys /\ gpgError' = FALSE
  /\ Proceed("key")
  /\ UNCHANGED <<files, clean, found, successful, failed>>

TryAbsent(k) ==
  /\ pc = "key" /\ k \in keys
  /\ files[cur][k] = Absent
  /\ keys' = keys \ {k}
  /\ UNCHANGED <<files, clean, pc, names, cur, gpgError, found, successful, exit, failed>>

\* Mutant of TryFails: the error is not kept for later.
TryFailsAtOnce(k) ==
  /\ pc = "key" /\ k \in keys
  /\ files[cur][k] # Absent
  /\ failed' = failed \cup {<<cur, k>>}
  /\ Stop("gpg")
  /\ UNCHANGED <<files, clean, names, cur, keys, gpgError, found, successful>>

\* Mutant of TryFails: the error is forgotten.
TryFailsSilently(k) ==
  /\ pc = "key" /\ k \in keys
  /\ files[cur][k] # Absent
  /\ keys' = keys \ {k}
  /\ failed' = failed \cup {<<cur, k>>}
  /\ UNCHANGED <<files, clean, pc, names, cur, gpgError, found, successful, exit>>

\* gpg fails: the error is kept, and the next secret key is tried.
TryFails(k) ==
  /\ pc = "key" /\ k \in keys
  /\ files[cur][k] # Absent
  /\ keys' = keys \ {k} /\ gpgError' = TRUE
  /\ failed' = failed \cup {<<cur, k>>}
  /\ UNCHANGED <<files, clean, pc, names, cur, found, successful, exit>>

\* Mutant of Fits: the key name in the file is not compared.
FitsAnyName(n, c) == c \in KeyFile

Fits(n, c) == c \in KeyFile /\ c.name = n

TryFits(k) ==
  /\ pc = "key" /\ k \in keys
  /\ Fits(cur, files[cur][k])
  /\ found' = found \cup {[name |-> cur, secret |-> files[cur][k].secret]}
  /\ successful' = TRUE
  /\ Proceed("name")
  /\ UNCHANGED <<files, clean, names, cur, keys, gpgError, failed>>

\* Malformed, or of another name: an exception that nobody catches.
TryMisfits(k) ==
  /\ pc = "key" /\ k \in keys
  /\ files[cur][k] \notin {Absent, Opaque} /\ ~Fits(cur, files[cur][k])
  /\ Stop("malformed")
  /\ UNCHANGED <<files, clean, names, cur, keys, gpgError, found, successful, failed>>

\* Mutant of NameFails: the verdict on this name replaces the one so far.
NameFailsOverwrites ==
  /\ pc = "key" /\ keys = {}
  /\ successful' = FALSE
  /\ IF gpgError THEN Stop("gpg") ELSE Proceed("name")
  /\ UNCHANGED <<files, clean, names, cur, keys, gpgError, found, failed>>

\* No secret key is left to try: an error of gpg's is thrown only now.
NameFails ==
  /\ pc = "key" /\ keys = {}
  /\ IF gpgError THEN Stop("gpg") ELSE Proceed("name")
  /\ UNCHANGED <<files, clean, names, cur, keys, gpgError, found, successful, failed>>

Verdict ==
  /\ pc = "name" /\ names = {}
  /\ Stop(IF successful THEN "found" ELSE "no key")
  /\ UNCHANGED <<files, clean, names, cur, keys, gpgError, found, successful, failed>>

Next ==
  \/ CheckStatus \/ List \/ ListDies
  \/ \E n \in Names : SkipName(n) \/ TakeName(n)
  \/ \E k \in SecretKeys : TryAbsent(k) \/ TryFails(k) \/ TryFits(k) \/ TryMisfits(k)
  \/ NameFails \/ Verdict

Spec == Init /\ [][Next]_vars

-----------------------------------------------------------------------------
(* Properties.                                                             *)

\* The keys of this user's files for a name.
Mine(n) == {k \in SecretKeys : files[n][k] # Absent}
FoundNames == {x.name : x \in found}

\* unlock never leaves a key out in silence: when it goes on to install keys it
\* has one for every name that has a file for a secret key of the user's.
NothingLeftOut ==
  pc = "done" /\ exit = "found" =>
    \A n \in ValidNames : Mine(n) # {} <=> n \in FoundNames

\* "no GPG secret key available to unlock this repository" (commands.cpp:1077)
\* is said only when there is none: not when gpg failed, nor for one name.
NoKeyIsTrue ==
  pc = "done" /\ exit = "no key" => \A n \in ValidNames : Mine(n) = {}

\* GPG may fail on some keys (NEWS.md:15): its failure ends unlock only when it
\* failed on every file of the user's for some name.
FailuresTolerated ==
  pc = "done" /\ exit = "gpg" =>
    \E n \in ValidNames : Mine(n) # {} /\ \A k \in Mine(n) : <<n, k>> \in failed

\* A key is installed under the name it was made for, from the directory of
\* that name, and each name gets one key.
KeysFitNames ==
  /\ \A x \in found : \E k \in SecretKeys :
       files[x.name][k] = x
  /\ \A x, y \in found : x.name = y.name => x = y
=============================================================================
