------------------------------ MODULE GitRepo ------------------------------
(***************************************************************************)
(* The part of a git repository that git-crypt acts through: the work      *)
(* tree, the index with its stat cache, the last commit, the filter        *)
(* attribute of every path, the filter drivers in .git/config and the key  *)
(* files in .git/git-crypt/keys.  Git itself is not under src/: what it    *)
(* does is modelled from how commands.cpp drives it.  The filters it runs  *)
(* (git-crypt clean and git-crypt smudge) are commands.cpp:723-911.        *)
(***************************************************************************)
EXTENDS Naturals, Sequences

CONSTANTS Files,      \* paths that may be tracked
          KeyNames,   \* key names, the default one among them
          Secrets,    \* AES and HMAC key pairs
          Texts,      \* file contents before any encryption
          NoKey,      \* the filter attribute of a path git-crypt ignores
          NoFile,     \* a key file that does not exist
          Broken,     \* a key file that exists and does not load
          Absent      \* a path that does not exist

Content == [text : Texts, layers : Seq(Secrets)]
KeyFile == Secrets \cup {NoFile, Broken}

ASSUME AbsentAssumption == Absent \notin Content
ASSUME KeyAssumption == NoKey \notin KeyNames
ASSUME KeyFileAssumption == NoFile \notin Secrets /\ Broken \notin Secrets

VARIABLES wt,     \* work tree
          index,  \* staged blobs
          head,   \* blobs of the last commit
          fresh,  \* the index's stat data still matches the work tree file
          attr,   \* filter attribute in effect
          cfg,    \* filter and diff driver entries in .git/config
          ikey    \* .git/git-crypt/keys/<name>

repo == <<wt, index, head, fresh, attr, cfg, ikey>>

Slot == [Files -> Content \cup {Absent}]

\* Mutant of Drivers: the filter is not required.
DriversOptional == <<"smudge", "clean", "textconv", "textconv">>

\* The drivers of one key in the order configure_git_filters writes them.
Drivers == <<"smudge", "clean", "required", "textconv">>
DriverSet == {Drivers[i] : i \in 1..4}
FilterSection == {"smudge", "clean", "required"}

RepoTypeOK ==
  /\ wt \in Slot /\ index \in Slot /\ head \in Slot
  /\ fresh \in [Files -> BOOLEAN]
  /\ attr \in [Files -> KeyNames \cup {NoKey}]
  /\ cfg \in [KeyNames -> SUBSET DriverSet]
  /\ ikey \in [KeyNames -> KeyFile]

-----------------------------------------------------------------------------
(* Contents.  Encryption is deterministic in the text and the secret (the  *)
(* nonce is an HMAC of the text), so a content is its text and the secrets *)
(* laid over it, the newest first.  A blob starts with the GITCRYPT header *)
(* exactly when there is a layer.                                          *)
Plain(t) == [text |-> t, layers |-> <<>>]
Encrypted(c) == c.layers # <<>>
EncryptWith(s, c) == [text |-> c.text, layers |-> <<s>> \o c.layers]
DecryptOnce(c) == [text |-> c.text, layers |-> Tail(c.layers)]
TextOf(c) == IF c = Absent THEN Absent ELSE c.text

-----------------------------------------------------------------------------
(* The filters, as git runs them for one path.                             *)

Loads(k) == ikey[k] \in Secrets            \* load_key returns
Driver(f, d) == attr[f] # NoKey /\ d \in cfg[attr[f]]

CleanRuns(f) == Driver(f, "clean") /\ Loads(attr[f])

\* clean encrypts whatever it is given, a ciphertext too.
ToGit(f, c) == IF CleanRuns(f) THEN EncryptWith(ikey[attr[f]], c) ELSE c
ToGitDies(f) == Driver(f, "required") /\ ~CleanRuns(f)

\* smudge loads the key first, copies a plain blob out, and exits 1 when the
\* HMAC of what it decrypted is not the nonce.
SmudgeRuns(f, c) ==
  /\ Driver(f, "smudge") /\ Loads(attr[f])
  /\ Encrypted(c) => Head(c.layers) = ikey[attr[f]]

FromGit(f, c) == IF SmudgeRuns(f, c) /\ Encrypted(c) THEN DecryptOnce(c) ELSE c
FromGitDies(f, c) == Driver(f, "required") /\ ~SmudgeRuns(f, c)

-----------------------------------------------------------------------------
(* git status -uno.  A path whose stat data matches is not read.  Another  *)
(* one is cleaned and compared, unless its size already differs from the   *)
(* one recorded, when git reports it modified without reading it: so an    *)
(* unfresh path of unchanged content may be reported either way.           *)
Tracked == {f \in Files : index[f] # Absent}
Unfresh == {f \in Tracked : ~fresh[f]}

Unmodified == {f \in Unfresh : /\ wt[f] # Absent /\ ~ToGitDies(f)
                               /\ ToGit(f, wt[f]) = index[f]}
StatusMayDie == \E f \in Unfresh : wt[f] # Absent /\ ToGitDies(f)

\* Nothing for git status to report, or even to look at.
Settled == index = head /\ Unfresh = {}

\* The stat cache after git status found the paths S unmodified.
Refreshed(S) == [f \in Files |-> fresh[f] \/ f \in S]

-----------------------------------------------------------------------------
(* git add -- f: a fresh path is left alone; a path that is gone is staged *)
(* as deleted.  It dies, and stages nothing, when a required clean fails.  *)
GitAdd(f) ==
  /\ wt[f] # Absent => ~ToGitDies(f)
  /\ IF fresh[f] THEN UNCHANGED <<index, fresh>>
     ELSE /\ index' = [index EXCEPT ![f] = IF wt[f] = Absent THEN Absent
                                           ELSE ToGit(f, wt[f])]
          /\ fresh' = [fresh EXCEPT ![f] = wt[f] # Absent]

\* git checkout -- f: a fresh file is not rewritten; another one is unlinked
\* before its filter runs, and is gone when a required smudge fails.
GitCheckoutOK(f) == fresh[f] \/ ~FromGitDies(f, index[f])
GitCheckout(f) ==
  IF fresh[f] THEN UNCHANGED <<wt, fresh>>
  ELSE IF GitCheckoutOK(f)
       THEN /\ wt' = [wt EXCEPT ![f] = FromGit(f, index[f])]
            /\ fresh' = [fresh EXCEPT ![f] = TRUE]
       ELSE /\ wt' = [wt EXCEPT ![f] = Absent]
            /\ fresh' = fresh
=============================================================================
