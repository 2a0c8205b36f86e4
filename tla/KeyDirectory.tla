--------------------------- MODULE KeyDirectory ---------------------------
(***************************************************************************)
(* What .git-crypt/keys holds: for every key name, and every collaborator, *)
(* the key file gpg encrypted to that collaborator.  add-gpg-user writes   *)
(* it (AddGpgUser), unlock reads it (GpgUnlock).                           *)
(***************************************************************************)
CONSTANTS Names,       \* directory entries of .git-crypt/keys
          ValidNames,  \* the ones that are key names
          Secrets,     \* secrets a key file may hold
          Absent,      \* a path that does not exist
          Malformed,   \* a file that gpg decrypts, and that does not load or
                       \* has no entry of version 0
          Opaque       \* a file that gpg cannot decrypt

KeyFile == [name : Names, secret : Secrets]
Loadable == [name : ValidNames, secret : Secrets]
Contents == KeyFile \cup {Absent, Malformed, Opaque}

ASSUME NamesAssumption == ValidNames \subseteq Names
ASSUME FileAssumption == /\ Absent \notin KeyFile \cup {Malformed, Opaque}
                         /\ Malformed \notin KeyFile \cup {Opaque}
                         /\ Opaque \notin KeyFile
=============================================================================
