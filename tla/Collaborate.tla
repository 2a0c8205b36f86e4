---------------------------- MODULE Collaborate ----------------------------
(***************************************************************************)
(* add-gpg-user in one repository, and unlock with GPG in a clone of it:   *)
(* AddGpgUser commits the files GpgUnlock searches.  A clone may also come *)
(* from a repository in which anything was done to .git-crypt/keys.        *)
(***************************************************************************)
EXTENDS AddGpgUser

VARIABLES
  phase,   \* "shared": the repository in which keys are given; then "clone"
  granted, \* history: the key a successful run committed for a collaborator
  dir,     \* the key name add-gpg-user was run for
  promise, \* history: the key the owner of the clone was given
  \* GpgUnlock
  files, clean, upc, names, cur, keys, gpgError, found, successful, uexit, failed

U == INSTANCE GpgUnlock WITH SecretKeys <- Users, pc <- upc, exit <- uexit

search == <<upc, names, cur, keys, gpgError, found, successful, uexit, failed>>
between == <<phase, granted, dir, promise>>
allvars == <<vars, between, files, clean, search>>

NoFiles == [n \in Names |-> [u \in Users |-> Absent]]

\* Bound: what a repository that was handled otherwise holds is only unlocked.
\* What is under an entry that is no key name is the same for all collaborators;
\* a file gpg cannot open is like one on which it fails.
CollaborateInit ==
  /\ granted = [u \in Users |-> Absent] /\ promise = Absent
  /\ upc = "status" /\ uexit = "none"
  /\ names = {} /\ cur = Absent /\ keys = {} /\ gpgError = FALSE
  /\ found = {} /\ successful = FALSE /\ failed = {}
  /\ \/ /\ phase = "shared" /\ Init
        /\ dir \in ValidNames /\ files = NoFiles /\ clean = TRUE
     \/ /\ phase = "clone"
        /\ wt = [p \in Paths |-> Absent] /\ index = wt /\ head = wt
        /\ star = FALSE /\ secret \in Secrets
        /\ pc = "idle" /\ exit = "none"
        /\ given = {} /\ noCommit = FALSE /\ key = secret /\ queue = {} /\ new = {}
        /\ meddled = {} /\ hands = {} /\ torn = FALSE
        /\ steps = 0 /\ commands = 0
        /\ dir = Absent
        /\ files \in [Names -> [Users -> Contents \ {Opaque}]] /\ clean \in BOOLEAN
        /\ \A n \in Names \ ValidNames, u, v \in Users : files[n][u] = files[n][v]

\* What a successful run committed for a collaborator it created a file for.
Record ==
  granted' = [u \in Users |->
    IF pc = "done" /\ exit = "ok" /\ ~noCommit /\ u \in new \ meddled THEN key ELSE granted[u]]

Share ==
  /\ phase = "shared" /\ Next
  /\ IF pc = "done" /\ pc' = "idle" THEN Record ELSE UNCHANGED granted
  /\ UNCHANGED <<phase, dir, promise, files, clean, search>>

\* What git-crypt itself encrypted, and what a killed gpg left, gpg cannot open.
Received(b) ==
  CASE b = Absent -> Absent
    [] b # Absent /\ ~b.wrapped /\ b.file \in Secrets -> [name |-> dir, secret |-> b.file]
    [] OTHER -> Opaque

\* The owner of the clone has one secret key, u; what is for others is not
\* looked at.  Bound: the clone is one of the user's steps, and nothing of what
\* happens to the repository afterwards is followed.
Clone(u) ==
  /\ phase = "shared" /\ pc = "idle" /\ steps > 0
  /\ phase' = "clone"
  /\ promise' = IF {u, Attributes} \cap hands = {} /\ ~torn THEN granted[u] ELSE Absent
  /\ files' = [NoFiles EXCEPT ![dir][u] = Received(head[u])] /\ clean' = TRUE
  /\ granted' = [v \in Users |-> Absent]
  /\ wt' = [p \in Paths |-> Absent] /\ index' = wt' /\ head' = wt'
  /\ star' = FALSE /\ hands' = {} /\ torn' = FALSE /\ steps' = 0 /\ commands' = 0
  /\ UNCHANGED <<dir, search, secret, pc, exit, given, noCommit, key, queue, new, meddled>>

Unlock ==
  /\ phase = "clone" /\ U!Next
  /\ UNCHANGED <<vars, between>>

CollaborateNext == Share \/ (\E u \in Users : Clone(u)) \/ Unlock

CollaborateSpec == CollaborateInit /\ [][CollaborateNext]_allvars

-----------------------------------------------------------------------------
(* Properties: those of AddGpgUser, those of GpgUnlock, and                *)

\* unlock has a key for every name that has a file of the user's, or fails.
NothingLeftOut == U!NothingLeftOut

\* "no GPG secret key available" is said only when there is none.
NoKeyIsTrue == U!NoKeyIsTrue

\* gpg's failure ends unlock only when it failed on every file of some name.
FailuresTolerated == U!FailuresTolerated

\* A key is installed under the name it was made for, one to a name.
KeysFitNames == U!KeysFitNames

\* A collaborator for whom add-gpg-user succeeded can unlock a clone, with the key
\* that was given, unless gpg fails on a file it could open: whatever else was staged, committed, and
\* changed in the patterns or in the key since, as long as nobody touched that
\* collaborator's file and the .gitattributes beside it.
PromiseKept ==
  phase = "clone" /\ promise # Absent =>
    LET kept == [name |-> dir, secret |-> promise]
    IN /\ \E u \in Users : files[dir][u] = kept
       /\ upc = "done" => uexit \in {"gpg", "no gpg"} \/ (uexit = "found" /\ found = {kept})
=============================================================================
