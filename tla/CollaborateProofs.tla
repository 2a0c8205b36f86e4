------------------------- MODULE CollaborateProofs -------------------------
(***************************************************************************)
(* What add-gpg-user guarantees, and that whoever was given the key can    *)
(* unlock a clone, for any collaborators, key names and keys, and any      *)
(* number of commands and of the user's steps: the invariants of           *)
(* add-gpg-user and of unlock's search, and one that says what of the      *)
(* first is left for the second.                                           *)
(***************************************************************************)
EXTENDS Collaborate, TLAPS

-----------------------------------------------------------------------------
(* add-gpg-user: the types, that no collaborator's file is wrapped by the  *)
(* filters, and that a successful run has committed what it created.       *)

\* From the moment files are staged the rules are in place, unless their
\* writing was interrupted or the user had a hand in them.
RulesInPlace ==
  ~torn /\ Attributes \notin hands =>
    /\ wt[Attributes] \in {Absent, Rules}
    /\ pc \in {"add", "commit"} => wt[Attributes] = Rules

\* The files this run created hold the key it loaded.
CreatedHoldKey ==
  pc # "idle" => \A u \in (new \cap Users) \ meddled : wt[u] = key

\* A successful run has staged and committed them.
CommittedAndStaged ==
  pc = "done" /\ exit = "ok" /\ ~noCommit =>
    \A u \in (new \cap Users) \ meddled, s \in {index, head} :
      s[u] # Absent /\ s[u].file = key

Meddling == pc = "idle" => new = {} /\ meddled = {}

IInv == /\ TypeOK /\ RulesInPlace /\ KeysInClear
        /\ CreatedHoldKey /\ CommittedAndStaged /\ Meddling

-----------------------------------------------------------------------------
\* Staging replaces blobs of the paths staged, by blobs of the files there.
LEMMA StagingIsBlobs ==
  ASSUME TypeOK, NEW S, NEW b \in Staging(S)
  PROVE  /\ b \in [Paths -> Blob \cup {Absent}]
         /\ \A p \in Paths : b[p] = index[p] \/ (p \in S /\ b[p] = Cleaned(p))
<1>1. \A p \in Paths : Cleaned(p) \in Blob \cup {Absent}
  BY DEF TypeOK, Cleaned, Blob
<1>2. \A p \in Paths : index[p] \in Blob \cup {Absent}
  BY DEF TypeOK
<1> QED
  BY <1>1, <1>2 DEF Staging

\* A path staged while its file exists gets a blob of that file.
LEMMA StagingStages ==
  ASSUME TypeOK, NEW S, NEW b \in Staging(S), NEW p \in S \cap Paths,
         wt[p] # Absent
  PROVE  b[p] # Absent /\ b[p].file = wt[p]
<1>1. Cleaned(p) # Absent /\ Cleaned(p).file = wt[p]
  <2>1. Cleaned(p) = [file |-> wt[p], wrapped |-> star /\ ~RulesApply]
    BY DEF Cleaned
  <2>2. Cleaned(p) \in Blob
    BY <2>1 DEF TypeOK, Blob
  <2> QED
    BY <2>1, <2>2, AbsentAssumption
<1> QED
  BY <1>1 DEF Staging, Kept

\* While the rules are in the work tree nothing is wrapped.
LEMMA RulesProtect ==
  ASSUME TypeOK, NEW p \in Paths, wt[Attributes] = Rules, Cleaned(p) # Absent
  PROVE  ~Cleaned(p).wrapped
BY DEF Cleaned, RulesApply

-----------------------------------------------------------------------------
LEMMA InitIInv == Init => IInv
<1> SUFFICES ASSUME Init PROVE IInv
  OBVIOUS
<1>1. TypeOK
  <2>1. MaxUserSteps \in 0..MaxUserSteps /\ MaxCommands \in 0..MaxCommands
    BY BoundAssumption
  <2>2. wt \in [Paths -> {Absent}] /\ index \in [Paths -> {Absent}]
        /\ head \in [Paths -> {Absent}]
    BY DEF Init
  <2> QED
    BY <2>1, <2>2 DEF Init, TypeOK
<1>2. \A p \in Paths : wt[p] = Absent /\ index[p] = Absent /\ head[p] = Absent
  BY DEF Init
<1>3. KeysInClear
  BY <1>2 DEF KeysInClear, Paths
<1>4. RulesInPlace
  BY <1>2 DEF RulesInPlace, Paths, Init
<1> QED
  BY <1>1, <1>3, <1>4 DEF IInv, CreatedHoldKey, CommittedAndStaged, Meddling, Init

-----------------------------------------------------------------------------
\* Every step keeps the types.
LEMMA TypeStep == TypeOK /\ [Next]_vars => TypeOK'
<1> SUFFICES ASSUME TypeOK, [Next]_vars PROVE TypeOK'
  OBVIOUS
<1> USE DEF TypeOK, Proceed, Stop, tree, run, Paths, File
<1>1. ASSUME NEW us \in SUBSET Users, NEW m \in BOOLEAN, Start(us, m) PROVE TypeOK'
  BY <1>1, BoundAssumption DEF Start
<1>2. ASSUME NEW u \in Users, SkipExisting(u) \/ Encrypt(u) \/ EncryptDies(u)
      PROVE TypeOK'
  <2>1. CASE SkipExisting(u)  BY <2>1 DEF SkipExisting
  <2>2. CASE Encrypt(u)  BY <2>2 DEF Encrypt
  <2>3. CASE EncryptDies(u)  BY <2>3 DEF EncryptDies
  <2> QED  BY <1>2, <2>1, <2>2, <2>3
<1>3. CASE FinishEncrypt  BY <1>3 DEF FinishEncrypt
<1>4. CASE WriteAttributes  BY <1>4 DEF WriteAttributes
<1>5. CASE WriteAttributesDies  BY <1>5 DEF WriteAttributesDies
<1>6. CASE GitAdd
  BY <1>6, StagingIsBlobs DEF GitAdd
<1>7. CASE GitCommit
  <2>1. index' \in [Paths -> Blob \cup {Absent}]
    BY <1>7, StagingIsBlobs DEF GitCommit
  <2> QED
    BY <1>7, <2>1 DEF GitCommit
<1>8. CASE Abort  BY <1>8 DEF Abort
<1>9. CASE Return  BY <1>9 DEF Return
<1>10. ASSUME NEW p \in Paths, Remove(p) \/ Stage(p) PROVE TypeOK'
  <2>1. steps' \in 0..MaxUserSteps
    BY <1>10, BoundAssumption DEF Remove, Stage, UserStep
  <2>2. CASE Remove(p)  BY <2>1, <2>2 DEF Remove, UserStep
  <2>3. CASE Stage(p)  BY <2>1, <2>3, StagingIsBlobs DEF Stage, UserStep
  <2> QED  BY <1>10, <2>2, <2>3
<1>11. CASE UserCommit \/ (\E s \in Secrets : Rekey(s)) \/ EditPatterns
  <2>1. steps' \in 0..MaxUserSteps
    BY <1>11, BoundAssumption DEF UserCommit, Rekey, EditPatterns, UserStep
  <2>2. CASE UserCommit \/ \E s \in Secrets : Rekey(s)
    BY <2>1, <2>2 DEF UserCommit, Rekey, UserStep
  <2>3. CASE EditPatterns
    <3>1. star' \in BOOLEAN
      BY <2>3, Zenon DEF EditPatterns
    <3> QED
      BY <2>1, <2>3, <3>1 DEF EditPatterns, UserStep
  <2> QED
    BY <1>11, <2>2, <2>3
<1>12. CASE UNCHANGED vars
  BY <1>12 DEF vars
<1> QED
  BY <1>1, <1>2, <1>3, <1>4, <1>5, <1>6, <1>7, <1>8, <1>9, <1>10, <1>11, <1>12
     DEF Next

\* Every step keeps the rest of the invariant.
LEMMA RestStep ==
  ASSUME IInv, TypeOK', [Next]_vars
  PROVE  RulesInPlace' /\ KeysInClear' /\ CreatedHoldKey' /\ CommittedAndStaged' /\ Meddling'
<1> USE DEF IInv
<1> DEFINE P == RulesInPlace' /\ KeysInClear' /\ CreatedHoldKey'
                /\ CommittedAndStaged' /\ Meddling'
<1>0. Attributes \in Paths /\ Users \subseteq Paths /\ Attributes \notin Users
  BY AttributesAssumption DEF Paths
<1>a. wt \in [Paths -> File \cup {Absent}]
  BY DEF TypeOK
<1> USE DEF Proceed, Stop, tree, run, RulesInPlace, KeysInClear, CreatedHoldKey,
            CommittedAndStaged, Meddling
<1>1. ASSUME NEW us \in SUBSET Users, NEW m \in BOOLEAN, Start(us, m) PROVE P
  BY <1>1 DEF Start
<1>2. ASSUME NEW u \in Users, SkipExisting(u) PROVE P
  BY <1>2 DEF SkipExisting
<1>3. ASSUME NEW u \in Users, Encrypt(u) PROVE P
  BY <1>0, <1>a, <1>3 DEF Encrypt
<1>4. ASSUME NEW u \in Users, EncryptDies(u) PROVE P
  <2>1. PICK c \in {Absent, Partial} : wt' = [wt EXCEPT ![u] = c]
    BY <1>4 DEF EncryptDies
  <2>2. \A v \in Paths : wt'[v] # wt[v] => v = u /\ wt[u] = Absent
    BY <1>0, <1>a, <1>4, <2>1 DEF EncryptDies
  <2>3. CreatedHoldKey'
    <3>1. \A v \in (new \cap Users) \ meddled : wt[v] = key /\ key \in Secrets
      BY <1>4 DEF EncryptDies, TypeOK
    <3>2. Absent \notin Secrets
      BY AbsentAssumption DEF File
    <3> QED
      BY <1>0, <1>4, <2>2, <3>1, <3>2 DEF EncryptDies
  <2> QED
    BY <1>0, <1>4, <2>2, <2>3 DEF EncryptDies
<1>5. CASE FinishEncrypt
  BY <1>5 DEF FinishEncrypt
<1>6. CASE WriteAttributes
  BY <1>0, <1>a, <1>6 DEF WriteAttributes
<1>7. CASE WriteAttributesDies
  BY <1>0, <1>a, <1>7 DEF WriteAttributesDies
<1>8. CASE GitAdd
  <2>1. \A u \in Users : index'[u] = index[u] \/ index'[u] = Cleaned(u)
    BY <1>0, <1>8, StagingIsBlobs DEF GitAdd
  <2>2. KeysInClear'
    BY <1>0, <1>8, <2>1, RulesProtect DEF GitAdd
  <2> QED
    BY <1>8, <2>2 DEF GitAdd
<1>9. CASE GitCommit
  <2>1. \A u \in Users : index'[u] = index[u] \/ index'[u] = Cleaned(u)
    BY <1>0, <1>9, StagingIsBlobs DEF GitCommit
  <2>2. \A u \in Users : head'[u] = head[u] \/ head'[u] = index'[u]
    BY <1>0, <1>9 DEF GitCommit
  <2>3. KeysInClear'
    BY <1>0, <1>9, <2>1, <2>2, RulesProtect DEF GitCommit
  <2>4. ASSUME NEW u \in (new \cap Users) \ meddled
        PROVE  index'[u] # Absent /\ index'[u].file = key
    <3>1. wt[u] = key /\ key # Absent
      BY <1>9, AbsentAssumption DEF GitCommit, TypeOK, File
    <3> QED
      BY <1>0, <1>9, <3>1, StagingStages DEF GitCommit
  <2>5. CommittedAndStaged'
    BY <1>0, <1>9, <2>4 DEF GitCommit
  <2> QED
    BY <1>9, <2>3, <2>5 DEF GitCommit
<1>10. CASE Abort
  BY <1>10 DEF Abort
<1>11. CASE Return
  BY <1>11 DEF Return
<1>12. ASSUME NEW p \in Paths, Remove(p) PROVE P
  BY <1>0, <1>a, <1>12 DEF Remove, UserStep
<1>13. ASSUME NEW p \in Paths, Stage(p) PROVE P
  <2>1. \A u \in Users : u # p => index'[u] = index[u]
    BY <1>0, <1>13, StagingIsBlobs DEF Stage
  <2> QED
    BY <1>0, <1>13, <2>1 DEF Stage, UserStep
<1>14. CASE UserCommit
  BY <1>14 DEF UserCommit, UserStep
<1>15. CASE (\E s \in Secrets : Rekey(s)) \/ EditPatterns
  BY <1>15 DEF Rekey, EditPatterns, UserStep
<1>16. CASE UNCHANGED vars
  BY <1>16 DEF vars
<1> QED
  BY <1>1, <1>2, <1>3, <1>4, <1>5, <1>6, <1>7, <1>8, <1>9, <1>10, <1>11, <1>12,
     <1>13, <1>14, <1>15, <1>16 DEF Next

\* The invariant holds in every reachable state.
THEOREM CollaboratorsInvariance == Spec => []IInv
<1>1. IInv /\ [Next]_vars => IInv'
  BY TypeStep, RestStep DEF IInv
<1> QED
  BY InitIInv, <1>1, PTL DEF Spec

\* Type correctness, for every value of the constants.
THEOREM CollaboratorsTypes == Spec => []TypeOK
BY CollaboratorsInvariance, PTL DEF IInv

\* No collaborator's file is staged or committed encrypted by git-crypt.
THEOREM CollaboratorsKeysInClear == Spec => []KeysInClear
BY CollaboratorsInvariance, PTL DEF IInv

\* A successful add-gpg-user has committed every file it created.
THEOREM SuccessIsCommitted == Spec => []CreatedIsCommitted
<1>1. IInv => CreatedIsCommitted
  BY DEF IInv, CommittedAndStaged, CreatedIsCommitted
<1> QED
  BY CollaboratorsInvariance, <1>1, PTL

-----------------------------------------------------------------------------
(* The clone.                                                              *)

UP == INSTANCE GpgUnlockProofs WITH SecretKeys <- Users, pc <- upc, exit <- uexit

Sound(u) == u \notin hands /\ Attributes \notin hands /\ ~torn

\* The file committed for a collaborator stays what it was: it is staged as it
\* is committed, no later run creates it again, and nothing git-crypt does
\* stages it with the filters.
GrantKept ==
  \A u \in Users : granted[u] # Absent /\ Sound(u) =>
    /\ wt[u] # Absent /\ u \notin new
    /\ index[u] = [file |-> granted[u], wrapped |-> FALSE] /\ head[u] = index[u]

\* In the clone, that file and nothing else is there for the owner.
PromiseThere ==
  promise # Absent =>
    /\ phase = "clone" /\ dir \in ValidNames /\ promise \in Secrets /\ clean
    /\ \E u \in Users : /\ files[dir][u] = [name |-> dir, secret |-> promise]
                        /\ \A n \in Names, k \in Users :
                             files[n][k] # Absent => n = dir /\ k = u

Phases ==
  /\ phase \in {"shared", "clone"}
  /\ granted \in [Users -> Secrets \cup {Absent}]
  /\ phase = "clone" => granted = [u \in Users |-> Absent] /\ pc = "idle"
  /\ phase = "shared" =>
       /\ dir \in ValidNames
       /\ upc = "status" /\ uexit = "none" /\ names = {} /\ cur = Absent /\ keys = {}
       /\ gpgError = FALSE /\ found = {} /\ successful = FALSE /\ failed = {}

CInv == IInv /\ UP!IInv /\ Phases /\ GrantKept /\ PromiseThere

-----------------------------------------------------------------------------
(* unlock, in the clone                                                    *)

LEMMA SameStep == U!Next => UP!Next
<1> SUFFICES ASSUME U!Next PROVE UP!Next
  OBVIOUS
<1> USE DEF U!Proceed, U!Stop, UP!Proceed, UP!Stop
<1>1. CASE U!CheckStatus \/ U!List \/ U!ListDies
  BY <1>1 DEF U!CheckStatus, U!List, U!ListDies, UP!Next, UP!CheckStatus, UP!List, UP!ListDies
<1>2. ASSUME NEW n \in Names, U!SkipName(n) \/ U!TakeName(n) PROVE UP!Next
  BY <1>2 DEF U!SkipName, U!TakeName, UP!Next, UP!SkipName, UP!TakeName
<1>3. ASSUME NEW k \in Users, U!TryAbsent(k) \/ U!TryFails(k) PROVE UP!Next
  BY <1>3 DEF U!TryAbsent, U!TryFails, UP!Next, UP!TryAbsent, UP!TryFails
<1>4. ASSUME NEW k \in Users, U!TryFits(k) \/ U!TryMisfits(k) PROVE UP!Next
  BY <1>4 DEF U!TryFits, U!TryMisfits, UP!Next, UP!TryFits, UP!TryMisfits,
              U!Fits, UP!Fits, U!KeyFile, UP!KeyFile
<1>5. CASE U!NameFails \/ U!Verdict
  BY <1>5 DEF U!NameFails, U!Verdict, UP!Next, UP!NameFails, UP!Verdict
<1> QED
  BY <1>1, <1>2, <1>3, <1>4, <1>5 DEF U!Next

LEMMA SearchStep == ASSUME UP!IInv, U!Next PROVE UP!IInv'
<1>1. UP!IInv /\ [UP!Next]_(UP!vars) => UP!IInv'
  BY UP!Step, NamesAssumption, FileAssumption DEF KeyFile, UP!KeyFile
<1> QED
  BY <1>1, SameStep

\* A search that has not begun keeps its invariant, whatever the files.
Ready ==
  /\ files \in [Names -> [Users -> Contents]] /\ clean \in BOOLEAN
  /\ upc = "status" /\ uexit = "none" /\ names = {} /\ cur = Absent /\ keys = {}
  /\ gpgError = FALSE /\ found = {} /\ successful = FALSE /\ failed = {}

LEMMA SearchReady == Ready => UP!IInv
BY DEF Ready, UP!IInv, UP!TypeOK, UP!DealtFound, UP!CurTaken, UP!TriedFailed, UP!VerdictLast,
       UP!KeysFitNames, UP!FailuresTolerated, UP!FoundNames, UP!Reasons,
       Contents, UP!Contents, KeyFile, UP!KeyFile, UP!Loadable

LEMMA SearchStay == ASSUME UP!IInv, UNCHANGED UP!vars PROVE UP!IInv'
<1>1. UP!IInv /\ [UP!Next]_(UP!vars) => UP!IInv'
  BY UP!Step, NamesAssumption, FileAssumption DEF KeyFile, UP!KeyFile
<1> QED
  BY <1>1

LEMMA SearchReads == U!Next => UNCHANGED <<files, clean>>
BY DEF U!Next, U!CheckStatus, U!List, U!ListDies, U!SkipName, U!TakeName, U!TryAbsent,
       U!TryFails, U!TryFits, U!TryMisfits, U!NameFails, U!Verdict

-----------------------------------------------------------------------------
(* add-gpg-user, in the repository that is shared                          *)

\* A repository nobody did anything in keeps the invariant of add-gpg-user.
Blank ==
  /\ wt = [p \in Paths |-> Absent] /\ index = wt /\ head = wt /\ star = FALSE
  /\ secret \in Secrets /\ key \in Secrets
  /\ pc = "idle" /\ exit \in {"none", "ok", "failed"}
  /\ given \subseteq Users /\ queue \subseteq Users /\ noCommit \in BOOLEAN
  /\ new = {} /\ meddled = {} /\ hands = {} /\ torn = FALSE
  /\ steps \in 0..MaxUserSteps /\ commands \in 0..MaxCommands

LEMMA BlankIInv == Blank => IInv
<1> SUFFICES ASSUME Blank PROVE IInv
  OBVIOUS
<1> USE DEF Blank
<1>1. TypeOK
  <2>1. wt \in [Paths -> {Absent}] /\ index \in [Paths -> {Absent}]
        /\ head \in [Paths -> {Absent}]
    OBVIOUS
  <2> QED
    BY <2>1 DEF TypeOK
<1>2. \A p \in Paths : wt[p] = Absent /\ index[p] = Absent /\ head[p] = Absent
  OBVIOUS
<1>3. KeysInClear
  BY <1>2 DEF KeysInClear, Paths
<1>4. RulesInPlace
  BY <1>2 DEF RulesInPlace, Paths
<1> QED
  BY <1>1, <1>3, <1>4 DEF IInv, CreatedHoldKey, CommittedAndStaged, Meddling

LEMMA RunStep == IInv /\ [Next]_vars => IInv'
BY TypeStep, RestStep DEF IInv

\* No step touches a collaborator's file that is there, unless the run created
\* it or the user does; the user may commit it as it is staged.
LEMMA FileLeft ==
  ASSUME IInv, Next, NEW u \in Users, wt[u] # Absent, u \notin new, u \notin hands'
  PROVE  /\ wt'[u] = wt[u] /\ index'[u] = index[u] /\ head'[u] \in {head[u], index[u]}
         /\ u \notin new'
<1> DEFINE P == /\ wt'[u] = wt[u] /\ index'[u] = index[u] /\ head'[u] \in {head[u], index[u]}
                /\ u \notin new'
<1>0. u \in Paths /\ u # Attributes /\ TypeOK
  BY AttributesAssumption DEF Paths, IInv
<1>a. wt \in [Paths -> File \cup {Absent}]
  BY <1>0 DEF TypeOK
<1> USE DEF tree, run
<1>1. ASSUME NEW us \in SUBSET Users, NEW m \in BOOLEAN, Start(us, m) PROVE P
  BY <1>1 DEF Start
<1>2. ASSUME NEW v \in Users, SkipExisting(v) \/ Encrypt(v) \/ EncryptDies(v) PROVE P
  BY <1>0, <1>a, <1>2 DEF SkipExisting, Encrypt, EncryptDies
<1>3. CASE FinishEncrypt \/ WriteAttributes \/ WriteAttributesDies
  BY <1>0, <1>a, <1>3 DEF FinishEncrypt, WriteAttributes, WriteAttributesDies
<1>4. CASE GitAdd
  BY <1>0, <1>4, StagingIsBlobs DEF GitAdd
<1>5. CASE GitCommit
  BY <1>0, <1>5, StagingIsBlobs DEF GitCommit
<1>6. CASE Abort \/ Return
  BY <1>6 DEF Abort, Return
<1>7. ASSUME NEW p \in Paths, Remove(p) PROVE P
  BY <1>0, <1>a, <1>7 DEF Remove, UserStep
<1>8. ASSUME NEW p \in Paths, Stage(p) PROVE P
  BY <1>0, <1>8, StagingIsBlobs DEF Stage, UserStep
<1>9. CASE UserCommit \/ (\E s \in Secrets : Rekey(s)) \/ EditPatterns
  BY <1>9 DEF UserCommit, Rekey, EditPatterns, UserStep
<1> QED
  BY <1>1, <1>2, <1>3, <1>4, <1>5, <1>6, <1>7, <1>8, <1>9 DEF Next

\* What the user had a hand in, and a torn file, are never forgotten.
LEMMA HandsGrow == ASSUME Next PROVE hands \subseteq hands' /\ (torn => torn')
<1> USE DEF tree, run
<1>1. ASSUME NEW us \in SUBSET Users, NEW m \in BOOLEAN, Start(us, m)
      PROVE  hands \subseteq hands' /\ (torn => torn')
  BY <1>1 DEF Start
<1>2. ASSUME NEW v \in Users, SkipExisting(v) \/ Encrypt(v) \/ EncryptDies(v)
      PROVE  hands \subseteq hands' /\ (torn => torn')
  BY <1>2 DEF SkipExisting, Encrypt, EncryptDies
<1>3. CASE FinishEncrypt \/ WriteAttributes \/ WriteAttributesDies
           \/ GitAdd \/ GitCommit \/ Abort \/ Return
  BY <1>3 DEF FinishEncrypt, WriteAttributes, WriteAttributesDies, GitAdd, GitCommit,
              Abort, Return
<1>4. ASSUME NEW p \in Paths, Remove(p) \/ Stage(p)
      PROVE  hands \subseteq hands' /\ (torn => torn')
  BY <1>4 DEF Remove, Stage, UserStep
<1>5. CASE UserCommit \/ (\E s \in Secrets : Rekey(s)) \/ EditPatterns
  BY <1>5 DEF UserCommit, Rekey, EditPatterns, UserStep
<1> QED
  BY <1>1, <1>2, <1>3, <1>4, <1>5 DEF Next

\* A run that is over is left by its Return alone.
LEMMA IdleByReturn == ASSUME Next, pc = "done", pc' = "idle" PROVE Return
BY DEF Next, Start, SkipExisting, Encrypt, EncryptDies, FinishEncrypt, WriteAttributes,
       WriteAttributesDies, GitAdd, GitCommit, Abort, Remove, Stage, UserCommit, Rekey,
       EditPatterns, UserStep, run

\* A successful run commits, and stages, the key in clear for whom it created a
\* file.
LEMMA GrantGood ==
  ASSUME IInv, pc = "done", exit = "ok", ~noCommit, NEW u \in (new \cap Users) \ meddled, Sound(u)
  PROVE  /\ wt[u] # Absent
         /\ index[u] = [file |-> key, wrapped |-> FALSE] /\ head[u] = index[u]
<1>1. u \in Paths /\ wt[u] = key /\ key \in Secrets
  BY DEF IInv, CreatedHoldKey, Paths, TypeOK
<1>2. wt[u] # Absent
  BY <1>1, AbsentAssumption DEF File
<1>3. \A s \in {index, head} : s[u] \in Blob /\ s[u].file = key
  BY <1>1 DEF IInv, CommittedAndStaged, TypeOK
<1>4. \A s \in {index, head} : ~s[u].wrapped
  BY <1>3, AbsentAssumption DEF IInv, KeysInClear, Sound
<1>5. \A s \in {index, head} : s[u] = [file |-> key, wrapped |-> FALSE]
  BY <1>3, <1>4 DEF Blob
<1> QED
  BY <1>2, <1>5

-----------------------------------------------------------------------------
LEMMA CollaborateStart == CollaborateInit => CInv
<1> SUFFICES ASSUME CollaborateInit PROVE CInv
  OBVIOUS
<1>1. granted = [u \in Users |-> Absent] /\ promise = Absent
  BY DEF CollaborateInit
<1>2. CASE phase = "shared"
  <2>1. Init /\ dir \in ValidNames /\ files = NoFiles /\ clean = TRUE
    BY <1>2 DEF CollaborateInit
  <2>2. IInv
    BY <2>1, InitIInv
  <2>3. files \in [Names -> [Users -> Contents]]
    BY <2>1 DEF NoFiles, Contents
  <2>4. UP!IInv
    BY <2>1, <2>3, SearchReady DEF CollaborateInit, Ready
  <2> QED
    BY <1>1, <1>2, <2>1, <2>2, <2>4
       DEF CInv, Phases, GrantKept, PromiseThere, CollaborateInit, NoFiles
<1>3. CASE phase = "clone"
  <2>1. files \in [Names -> [Users -> Contents]] /\ clean \in BOOLEAN
    BY <1>3 DEF CollaborateInit
  <2>2. UP!IInv
    BY <2>1, SearchReady DEF CollaborateInit, Ready
  <2>3. IInv
    <3>1. 0 \in 0..MaxUserSteps /\ 0 \in 0..MaxCommands
      BY BoundAssumption
    <3>2. Blank
      BY <1>3, <3>1 DEF CollaborateInit, Blank
    <3> QED
      BY <3>2, BlankIInv
  <2>4. pc = "idle"
    BY <1>3 DEF CollaborateInit
  <2> QED
    BY <1>1, <1>3, <2>2, <2>3, <2>4
       DEF CInv, Phases, GrantKept, PromiseThere
<1> QED
  BY <1>2, <1>3 DEF CollaborateInit

LEMMA ShareStep == ASSUME CInv, Share PROVE CInv'
<1>1. /\ phase = "shared" /\ Next /\ UNCHANGED <<phase, dir, promise, files, clean, search>>
      /\ IF pc = "done" /\ pc' = "idle" THEN Record ELSE UNCHANGED granted
  BY DEF Share
<1>2. IInv'
  BY <1>1, RunStep DEF CInv
<1>3. UP!IInv'
  <2>1. UNCHANGED UP!vars
    BY <1>1 DEF search, UP!vars
  <2> QED
    BY <2>1, SearchStay DEF CInv
<1>4. granted' \in [Users -> Secrets \cup {Absent}]
  BY <1>1 DEF CInv, IInv, TypeOK, Phases, Record
<1>5. GrantKept'
  <2> SUFFICES ASSUME NEW u \in Users, granted'[u] # Absent, Sound(u)'
               PROVE  /\ wt'[u] # Absent /\ u \notin new'
                      /\ index'[u] = [file |-> granted'[u], wrapped |-> FALSE]
                      /\ head'[u] = index'[u]
    BY DEF GrantKept
  <2>1. Sound(u)
    BY <1>1, HandsGrow DEF Sound
  <2>2. CASE granted'[u] = granted[u]
    <3>1. /\ wt[u] # Absent /\ u \notin new
          /\ index[u] = [file |-> granted[u], wrapped |-> FALSE] /\ head[u] = index[u]
      BY <2>1, <2>2 DEF CInv, GrantKept
    <3> QED
      BY <1>1, <2>2, <3>1, FileLeft DEF CInv, Sound
  <2>3. CASE granted'[u] # granted[u]
    <3>1. /\ pc = "done" /\ pc' = "idle" /\ exit = "ok" /\ ~noCommit
          /\ u \in new \ meddled /\ granted'[u] = key
      BY <1>1, <2>3 DEF Record, CInv, Phases
    <3>2. Return
      BY <1>1, <3>1, IdleByReturn
    <3> QED
      BY <2>1, <3>1, <3>2, GrantGood DEF Return, tree, CInv
  <2> QED
    BY <2>2, <2>3
<1>6. PromiseThere'
  BY <1>1 DEF PromiseThere, CInv
<1> QED
  BY <1>1, <1>2, <1>3, <1>4, <1>5, <1>6 DEF CInv, Phases, search

LEMMA CloneStep == ASSUME CInv, NEW u \in Users, Clone(u) PROVE CInv'
<1>1. phase = "shared" /\ phase' = "clone" /\ pc = "idle" /\ pc' = "idle" /\ dir \in ValidNames
  BY DEF Clone, CInv, Phases
<1>2. UNCHANGED <<dir, search, secret, pc, exit, given, noCommit, key, queue, new, meddled>>
  BY DEF Clone
<1>3. IInv'
  <2>1. /\ secret' \in Secrets /\ key' \in Secrets /\ exit' \in {"none", "ok", "failed"}
        /\ given' \subseteq Users /\ queue' \subseteq Users /\ noCommit' \in BOOLEAN
        /\ new' = {} /\ meddled' = {}
    BY <1>1, <1>2 DEF CInv, IInv, TypeOK, Meddling
  <2>2. steps' \in 0..MaxUserSteps /\ commands' \in 0..MaxCommands
    BY BoundAssumption DEF Clone
  <2>3. /\ wt' = [p \in Paths |-> Absent] /\ index' = wt' /\ head' = wt'
        /\ star' = FALSE /\ hands' = {} /\ torn' = FALSE
    BY DEF Clone
  <2>4. Blank'
    BY <1>1, <2>1, <2>2, <2>3 DEF Blank
  <2> QED
    BY <2>4, BlankIInv, PTL
<1> DEFINE b == head[u]
<1>4. files' = [NoFiles EXCEPT ![dir][u] = Received(b)] /\ clean' = TRUE
  BY DEF Clone
<1>5. Received(b) \in Contents
  BY <1>1, NamesAssumption DEF Received, Contents, KeyFile
<1>6. files' \in [Names -> [Users -> Contents]]
  BY <1>1, <1>4, <1>5, NamesAssumption DEF NoFiles, Contents
<1>7. UP!IInv'
  <2>1. Ready'
    BY <1>1, <1>2, <1>4, <1>6 DEF CInv, Phases, search, Ready
  <2> QED
    BY <2>1, SearchReady, PTL
<1>8. granted' = [v \in Users |-> Absent]
  BY DEF Clone
<1>9. PromiseThere'
  <2> SUFFICES ASSUME promise' # Absent PROVE PromiseThere'
    BY DEF PromiseThere
  <2>1. Sound(u) /\ promise' = granted[u]
    BY DEF Clone, Sound
  <2>2. b = [file |-> promise', wrapped |-> FALSE] /\ promise' \in Secrets
    BY <2>1 DEF CInv, GrantKept, Phases
  <2>3. Received(b) = [name |-> dir, secret |-> promise']
    <3> DEFINE r == [file |-> promise', wrapped |-> FALSE]
    <3>a. r \in Blob /\ ~r.wrapped /\ r.file = promise'
      BY <2>2 DEF Blob, File
    <3>1. b # Absent /\ ~b.wrapped /\ b.file = promise'
      BY <2>2, <3>a, AbsentAssumption
    <3>2. b.file \in Secrets
      BY <2>2, <3>1
    <3> HIDE DEF b
    <3>3. Received(b) = [name |-> dir, secret |-> b.file]
      BY <3>1, <3>2, Zenon DEF Received
    <3> QED
      BY <3>1, <3>3
  <2>4. files'[dir][u] = Received(b)
        /\ \A n \in Names, k \in Users : files'[n][k] # Absent => n = dir /\ k = u
    BY <1>1, <1>4, NamesAssumption DEF NoFiles
  <2> QED
    BY <1>1, <1>2, <1>4, <2>2, <2>3, <2>4 DEF PromiseThere
<1> QED
  BY <1>1, <1>3, <1>7, <1>8, <1>9 DEF CInv, Phases, GrantKept

LEMMA UnlockStep == ASSUME CInv, Unlock PROVE CInv'
<1>1. phase = "clone" /\ U!Next /\ UNCHANGED <<vars, between>>
  BY DEF Unlock
<1>2. UP!IInv'
  BY <1>1, SearchStep DEF CInv
<1>3. IInv'
  BY <1>1, RunStep DEF CInv
<1>4. files' = files /\ clean' = clean
  BY <1>1, SearchReads
<1> QED
  BY <1>1, <1>2, <1>3, <1>4
     DEF CInv, Phases, GrantKept, PromiseThere, Sound, between, vars, tree

\* The invariant holds in every state of the two together.
THEOREM CollaborateInvariance == CollaborateSpec => []CInv
<1>1. ASSUME CInv, [CollaborateNext]_allvars PROVE CInv'
  <2>1. CASE UNCHANGED allvars
    <3>1. UP!IInv'
      BY <1>1, <2>1, SearchStay DEF CInv, allvars, search, UP!vars
    <3>2. IInv'
      BY <1>1, <2>1, RunStep DEF CInv, allvars
    <3> QED
      BY <1>1, <2>1, <3>1, <3>2
         DEF CInv, Phases, GrantKept, PromiseThere, Sound, allvars, between, vars, tree, search
  <2> QED
    BY <1>1, <2>1, ShareStep, CloneStep, UnlockStep DEF CollaborateNext
<1> QED
  BY CollaborateStart, <1>1, PTL DEF CollaborateSpec
-----------------------------------------------------------------------------
\* What the run checks of unlock holds for every repository that is cloned.

\* unlock has a key for every name that has a file of the user's, or fails.
THEOREM CloneLeavesNothingOut == CollaborateSpec => []NothingLeftOut
<1>1. CInv => NothingLeftOut
  BY UP!NothingLeftOutHolds, NamesAssumption, FileAssumption
     DEF CInv, NothingLeftOut, U!NothingLeftOut, UP!NothingLeftOut, U!Mine, UP!Mine,
         U!FoundNames, UP!FoundNames, KeyFile, UP!KeyFile
<1> QED
  BY CollaborateInvariance, <1>1, PTL

\* That there is no key is said only when there is none.
THEOREM CloneNoKeyIsTrue == CollaborateSpec => []NoKeyIsTrue
<1>1. CInv => NoKeyIsTrue
  BY UP!NoKeyIsTrueHolds, NamesAssumption, FileAssumption
     DEF CInv, NoKeyIsTrue, U!NoKeyIsTrue, UP!NoKeyIsTrue, U!Mine, UP!Mine,
         KeyFile, UP!KeyFile
<1> QED
  BY CollaborateInvariance, <1>1, PTL

\* gpg's failure ends unlock only when it failed on every file of a name.
THEOREM CloneToleratesFailures == CollaborateSpec => []FailuresTolerated
<1>1. CInv => FailuresTolerated
  BY DEF CInv, UP!IInv, FailuresTolerated, U!FailuresTolerated, UP!FailuresTolerated,
         U!Mine, UP!Mine
<1> QED
  BY CollaborateInvariance, <1>1, PTL

\* A key is found under the name it was made for, one to a name.
THEOREM CloneKeysFitNames == CollaborateSpec => []KeysFitNames
<1>1. CInv => KeysFitNames
  BY DEF CInv, UP!IInv, KeysFitNames, U!KeysFitNames, UP!KeysFitNames
<1> QED
  BY CollaborateInvariance, <1>1, PTL

\* Whoever add-gpg-user succeeded for can unlock, for any collaborators and key
\* names, any keys, and any number of commands and of the user's steps.
THEOREM CollaboratorCanUnlock == CollaborateSpec => []PromiseKept
<1>1. ASSUME CInv, NothingLeftOut, NoKeyIsTrue PROVE PromiseKept
  <2> SUFFICES ASSUME phase = "clone", promise # Absent PROVE PromiseKept
    BY DEF PromiseKept
  <2> DEFINE kept == [name |-> dir, secret |-> promise]
  <2>1. PICK u \in Users : /\ files[dir][u] = kept
                           /\ \A n \in Names, k \in Users :
                                files[n][k] # Absent => n = dir /\ k = u
    BY <1>1 DEF CInv, PromiseThere
  <2>2. dir \in ValidNames /\ dir \in Names /\ promise \in Secrets /\ clean
    BY <1>1, NamesAssumption DEF CInv, PromiseThere
  <2>3. kept \in KeyFile /\ kept.name = dir /\ kept # Absent
    BY <2>2, FileAssumption DEF KeyFile
  <2> HIDE DEF kept
  <2>4. U!Mine(dir) # {}
    BY <2>1, <2>3 DEF U!Mine
  <2>5. ASSUME upc = "done" PROVE uexit \in {"gpg", "no gpg", "found"}
    <3>1. uexit \in {"none", "found", "dirty", "no key", "no gpg", "gpg", "malformed"}
      BY <1>1 DEF CInv, UP!IInv, UP!TypeOK
    <3>2. uexit # "none" /\ uexit # "dirty"
      BY <1>1, <2>2, <2>5 DEF CInv, UP!IInv, UP!Reasons
    <3>3. uexit # "no key"
      BY <1>1, <2>2, <2>4, <2>5 DEF NoKeyIsTrue, U!NoKeyIsTrue
    <3>4. ASSUME uexit = "malformed" PROVE FALSE
      <4>1. PICK n \in ValidNames, k \in Users :
              files[n][k] \notin {Absent, Opaque} /\ ~UP!Fits(n, files[n][k])
        BY <1>1, <2>5, <3>4 DEF CInv, UP!IInv, UP!Reasons
      <4>2. n = dir /\ k = u
        BY <2>1, <4>1, NamesAssumption
      <4> QED
        BY <2>1, <2>3, <4>1, <4>2 DEF UP!Fits, KeyFile, UP!KeyFile
    <3> QED
      BY <3>1, <3>2, <3>3, <3>4
  <2>6. ASSUME upc = "done", uexit = "found" PROVE found = {kept}
    <3>1. \E x \in found : x.name = dir
      BY <1>1, <2>2, <2>4, <2>6 DEF NothingLeftOut, U!NothingLeftOut, U!FoundNames
    <3>2. ASSUME NEW x \in found PROVE x = kept
      <4>1. x.name \in Names /\ x # Absent
        BY <1>1, NamesAssumption, FileAssumption
           DEF CInv, UP!IInv, UP!TypeOK, UP!Loadable, KeyFile
      <4>2. PICK k \in Users : files[x.name][k] = x
        BY <1>1 DEF CInv, UP!IInv, UP!KeysFitNames
      <4> QED
        BY <2>1, <4>1, <4>2
    <3> QED
      BY <3>1, <3>2
  <2> QED
    BY <2>1, <2>5, <2>6 DEF PromiseKept, kept
<1> QED
  BY CollaborateInvariance, CloneLeavesNothingOut, CloneNoKeyIsTrue, <1>1, PTL

\* Nor does the clone disturb what holds of add-gpg-user: the types, what it
\* created is committed, and no key file is encrypted by git-crypt itself.
THEOREM SharedStaysSound == CollaborateSpec => [](TypeOK /\ CreatedIsCommitted /\ KeysInClear)
<1>1. CInv => TypeOK /\ CreatedIsCommitted /\ KeysInClear
  BY DEF CInv, IInv, CommittedAndStaged, CreatedIsCommitted
<1> QED
  BY CollaborateInvariance, <1>1, PTL
=============================================================================
