-------------------------- MODULE GitCryptProofs --------------------------
(***************************************************************************)
(* Proofs about GitCrypt for every set of files, key names, secrets and    *)
(* texts, and every bound.  The second part is about what the exit status  *)
(* 0 of lock, unlock and status -f is worth: the files of the keys they    *)
(* were given are what they should be, and the tree is as clean as it was; *)
(* and about when a secret may be lost.                                    *)
(***************************************************************************)
EXTENDS GitCrypt, TLAPS

USE DEF past

-----------------------------------------------------------------------------
(* The filters on contents.                                                *)

\* clean and smudge return contents and keep the text they are given.
LEMMA Filters ==
  ASSUME RepoTypeOK, NEW f \in Files, NEW c \in Content
  PROVE  /\ ToGit(f, c) \in Content /\ ToGit(f, c).text = c.text
         /\ FromGit(f, c) \in Content /\ FromGit(f, c).text = c.text
<1>1. ASSUME NEW s \in Secrets PROVE EncryptWith(s, c) \in Content
  <2>1. <<s>> \o c.layers \in Seq(Secrets)
    BY DEF Content
  <2> QED BY <2>1 DEF Content, EncryptWith
<1>2. ASSUME Encrypted(c) PROVE DecryptOnce(c) \in Content
  <2>1. Tail(c.layers) \in Seq(Secrets)
    BY <1>2 DEF Content, Encrypted
  <2> QED BY <2>1 DEF Content, DecryptOnce
<1>3. ToGit(f, c) \in Content /\ ToGit(f, c).text = c.text
  BY <1>1 DEF ToGit, CleanRuns, Loads, EncryptWith
<1>4. FromGit(f, c) \in Content /\ FromGit(f, c).text = c.text
  BY <1>2 DEF FromGit, DecryptOnce
<1> QED BY <1>3, <1>4

\* A content is not the absence of one.
LEMMA ContentPresent == ASSUME NEW c \in Content PROVE c # Absent
BY AbsentAssumption

LEMMA PlainContent == ASSUME NEW t \in Texts PROVE Plain(t) \in Content
BY DEF Plain, Content

LEMMA GitCheckoutType ==
  ASSUME RepoTypeOK, NEW f \in Files, index[f] # Absent, GitCheckout(f)
  PROVE  wt' \in Slot /\ fresh' \in [Files -> BOOLEAN]
<1>1. FromGit(f, index[f]) \in Content
  BY Filters DEF RepoTypeOK, Slot
<1>2. CASE fresh[f]
  BY <1>2 DEF GitCheckout, RepoTypeOK
<1>3. CASE ~fresh[f] /\ GitCheckoutOK(f)
  <2>1. wt' = [wt EXCEPT ![f] = FromGit(f, index[f])]
    BY <1>3 DEF GitCheckout
  <2>2. fresh' = [fresh EXCEPT ![f] = TRUE]
    BY <1>3 DEF GitCheckout
  <2> QED BY <1>1, <2>1, <2>2 DEF RepoTypeOK, Slot
<1>4. CASE ~fresh[f] /\ ~GitCheckoutOK(f)
  <2>1. wt' = [wt EXCEPT ![f] = Absent] /\ fresh' = fresh
    BY <1>4 DEF GitCheckout
  <2> QED BY <2>1 DEF RepoTypeOK, Slot
<1> QED BY <1>2, <1>3, <1>4

LEMMA GitAddType ==
  ASSUME RepoTypeOK, NEW f \in Files, GitAdd(f)
  PROVE  index' \in Slot /\ fresh' \in [Files -> BOOLEAN]
<1>1. CASE fresh[f]
  BY <1>1 DEF GitAdd, RepoTypeOK
<1>2. CASE ~fresh[f]
  <2>1. PICK c \in Content \cup {Absent} : index' = [index EXCEPT ![f] = c]
    BY <1>2, Filters DEF GitAdd, RepoTypeOK, Slot
  <2>2. fresh' = [fresh EXCEPT ![f] = (wt[f] # Absent)]
    BY <1>2 DEF GitAdd
  <2> QED BY <2>1, <2>2 DEF RepoTypeOK, Slot
<1> QED BY <1>1, <1>2

-----------------------------------------------------------------------------
(* The shape of the loops: which command is at which step, and what the    *)
(* key file it is at may be.                                               *)
Syncing == op \in {"unlock", "lock", "lock --all"}

Shape ==
  /\ pc \in {"fix", "add", "verify"} => op = "fix"
  /\ pc \in {"list", "touch", "batch", "checkout"} => Syncing
  /\ pc \in {"unfilter", "undiff"} => Locking
  /\ pc \in {"write", "filter"} => op \in {"init", "unlock"}
  /\ pc = "key" => Syncing \/ (op = "init" /\ queue # {})
  /\ pc = "idle" => queue = {} /\ meddled = {} /\ listed = {}
  /\ op \in {"init", "unlock"} => queue \subseteq KeyFiles
  /\ pc = "write" => cur \in KeyFiles
  /\ pc \in {"filter", "unfilter", "undiff", "list"} => cur \in Jobs
  /\ pc = "filter" => n \in 1..4
  /\ pc = "checkout" => todo \subseteq listed /\ listed \subseteq Tracked

\* Starting a command keeps within the bound on commands.
LEMMA StartBound ==
  ASSUME TypeOK, NEW o, NEW frc, NEW names, Start(o, frc, names)
  PROVE  commands' \in 0..MaxCommands
<1>1. commands \in 0..MaxCommands
  BY DEF TypeOK
<1>2. commands > 0 /\ commands' = commands - 1
  BY DEF Start
<1> QED BY <1>1, <1>2, BoundAssumption

LEMMA StatusStopsExit ==
  ASSUME NEW S, NEW frc, StatusStops(S, frc)
  PROVE  exit' \in {"refused", "failed"}
BY DEF StatusStops

LEMMA TypeStep ==
  TypeOK /\ Shape /\ [Next]_vars => TypeOK'
<1> SUFFICES ASSUME TypeOK, Shape, [Next]_vars PROVE TypeOK'
  OBVIOUS
<1> USE KeyAssumption, KeyFileAssumption, BoundAssumption
<1>1. CASE UNCHANGED vars
  BY <1>1 DEF TypeOK, RepoTypeOK, vars, repo, store, loop, run
<1>2. ASSUME NEW k \in KeyNames, RefuseInit(k) PROVE TypeOK'
  <2>1. commands' \in 0..MaxCommands
    BY <1>2, StartBound DEF RefuseInit
  <2> QED BY <1>2, <2>1 DEF TypeOK, RepoTypeOK, RefuseInit, Start, Stop, repo,
                            store, Ops, PCs
<1>3. ASSUME NEW k \in KeyNames, NEW s \in Secrets, StartInit(k, s) PROVE TypeOK'
  <2>1. commands' \in 0..MaxCommands
    BY <1>3, StartBound DEF StartInit
  <2>2. queue' \subseteq Jobs
    BY <1>3 DEF StartInit, Jobs
  <2> QED BY <1>3, <2>1, <2>2 DEF TypeOK, RepoTypeOK, StartInit, Start, Proceed,
                                  repo, Ops, PCs
<1>4. ASSUME NEW xs \in SUBSET exported, NEW S \in SUBSET Files,
             StartUnlock(xs, S) \/ RefuseUnlock(xs, S) PROVE TypeOK'
  <2>1. commands' \in 0..MaxCommands
    BY <1>4, StartBound DEF StartUnlock, RefuseUnlock
  <2>2. {x.name : x \in xs} \subseteq KeyNames /\ xs \subseteq Jobs
    BY DEF TypeOK, KeyFiles, Jobs
  <2>3. CASE StartUnlock(xs, S)
    BY <2>3, <2>1, <2>2 DEF TypeOK, RepoTypeOK, StartUnlock, Start, Proceed, store,
                            Ops, PCs, Refreshed
  <2>4. CASE RefuseUnlock(xs, S)
    <3>1. exit' \in {"refused", "failed"}
      BY <2>4, StatusStopsExit DEF RefuseUnlock
    <3> QED BY <2>4, <2>1, <2>2, <3>1 DEF TypeOK, RepoTypeOK, RefuseUnlock, Start,
                                          store, Ops, PCs, Refreshed
  <2> QED BY <1>4, <2>3, <2>4
<1>5. ASSUME NEW o \in {"lock", "lock --all"}, NEW k \in KeyNames,
             NEW frc \in BOOLEAN, NEW S \in SUBSET Files,
             StartLock(o, k, frc, S) \/ RefuseLock(o, k, frc, S) PROVE TypeOK'
  <2>1. commands' \in 0..MaxCommands
    BY <1>5, StartBound DEF StartLock, RefuseLock
  <2>2. LockTargets(o, k) \subseteq KeyNames
    BY DEF LockTargets
  <2>3. CASE StartLock(o, k, frc, S)
    <3>1. ASSUME NEW j \in KeyNames PROVE Named(j) \in Jobs
      BY DEF Jobs, Named
    <3>2. queue' \subseteq Jobs
      BY <2>3, <2>2, <3>1 DEF StartLock
    <3> QED BY <2>3, <2>1, <2>2, <3>2 DEF TypeOK, RepoTypeOK, StartLock, Start,
                                          Proceed, store, Ops, PCs, Refreshed
  <2>4. CASE RefuseLock(o, k, frc, S)
    <3>1. exit' \in {"refused", "failed"}
      BY <2>4, StatusStopsExit DEF RefuseLock
    <3> QED BY <2>4, <2>1, <2>2, <3>1 DEF TypeOK, RepoTypeOK, RefuseLock, Start,
                                          store, Ops, PCs, Refreshed
  <2> QED BY <1>5, <2>3, <2>4
<1>6. CASE \E named \in SUBSET Files : StartFix(named)
  <2>1. commands' \in 0..MaxCommands
    BY <1>6, StartBound DEF StartFix
  <2> QED BY <1>6, <2>1 DEF TypeOK, RepoTypeOK, StartFix, Start, Proceed, repo,
                            store, Ops, PCs, Tracked
<1>7. ASSUME NEW k \in KeyNames, ExportKey(k) PROVE TypeOK'
  BY <1>7 DEF TypeOK, RepoTypeOK, ExportKey, Loads, repo, loop, run, KeyFiles
<1>8. ASSUME NEW s \in Secrets, Keygen(s) PROVE TypeOK'
  BY <1>8, DefaultAssumption DEF TypeOK, RepoTypeOK, Keygen, repo, loop, run, KeyFiles
<1>9. ASSUME NEW x \in queue, CreateKeyFile(x) PROVE TypeOK'
  BY <1>9 DEF TypeOK, RepoTypeOK, CreateKeyFile, Proceed, PCs, Jobs, KeyFile
<1>10. ASSUME NEW x \in queue, RemoveKeyFile(x) PROVE TypeOK'
  BY <1>10 DEF TypeOK, RepoTypeOK, RemoveKeyFile, Proceed, store, PCs, Jobs, KeyFile
<1>11. CASE WriteKeyFile
  BY <1>11 DEF TypeOK, RepoTypeOK, Shape, WriteKeyFile, Proceed, store, PCs,
                  KeyFiles, KeyFile
<1>12. CASE ConfigureFilter
  BY <1>12 DEF TypeOK, RepoTypeOK, Shape, ConfigureFilter, Proceed, Stop, store,
                  PCs, Jobs, DriverSet
<1>13. CASE ListFiles
  BY <1>13 DEF TypeOK, RepoTypeOK, ListFiles, Proceed, repo, store, PCs, Tracked
<1>14. CASE RemoveFilterSection \/ RemoveDiffSection
  BY <1>14 DEF TypeOK, RepoTypeOK, RemoveFilterSection, RemoveDiffSection,
                  Proceed, store, loop, PCs
<1>15. CASE AfterKeys \/ BeginCheckout \/ FinishBatch
  BY <1>15 DEF TypeOK, RepoTypeOK, AfterKeys, BeginCheckout, FinishBatch,
                  Proceed, Stop, repo, store, PCs
<1>151. ASSUME NEW b \in SUBSET later, BeginBatch(b) PROVE TypeOK'
  BY <1>151 DEF TypeOK, RepoTypeOK, BeginBatch, Proceed, Stop, repo, store, PCs
<1>16. ASSUME NEW f \in Files, Touch(f) PROVE TypeOK'
  BY <1>16 DEF TypeOK, RepoTypeOK, Touch, store
<1>17. ASSUME NEW f \in Files, CheckoutFile(f) PROVE TypeOK'
  <2>1. wt' \in Slot /\ fresh' \in [Files -> BOOLEAN]
    BY <1>17, GitCheckoutType DEF CheckoutFile, Shape, Tracked, TypeOK
  <2> QED BY <1>17, <2>1 DEF TypeOK, RepoTypeOK, CheckoutFile, store
<1>18. ASSUME NEW f \in Files, CheckoutDies(f) PROVE TypeOK'
  BY <1>18 DEF TypeOK, RepoTypeOK, CheckoutDies, Stop, Slot, store, loop, PCs
<1>19. CASE FinishCheckout \/ FinishFix \/ AddFixDies
  BY <1>19 DEF TypeOK, RepoTypeOK, FinishCheckout, FinishFix, AddFixDies, Stop,
               repo, store, loop, PCs
<1>20. ASSUME NEW f \in Files, SkipFix(f) \/ TouchFix(f) PROVE TypeOK'
  BY <1>20 DEF TypeOK, RepoTypeOK, SkipFix, TouchFix, Proceed, repo, store, run, PCs
<1>22. CASE AddFix
  <2>1. PICK f \in Files : GitAdd(f)
    BY <1>22 DEF AddFix, TypeOK
  <2>2. index' \in Slot /\ fresh' \in [Files -> BOOLEAN]
    BY <2>1, GitAddType DEF TypeOK
  <2> QED BY <1>22, <2>2 DEF TypeOK, RepoTypeOK, AddFix, Proceed, store, loop, PCs
<1>23. CASE VerifyFix
  BY <1>23 DEF TypeOK, RepoTypeOK, VerifyFix, Proceed, repo, store, PCs
<1>24. CASE Return
  <2>1. RepoTypeOK' /\ keysDir' = keysDir /\ born' = born /\ exported' = exported
    BY <1>24 DEF TypeOK, RepoTypeOK, Return, repo, store
  <2>2. op' \in Ops /\ pc' \in PCs /\ force' \in BOOLEAN
    BY <1>24 DEF Return, Ops, PCs
  <2>3. given' = {} /\ queue' = {} /\ cur' = NoJob /\ n' = 0 /\ exit' = "none"
        /\ listed' = {} /\ todo' = {} /\ later' = {} /\ errors' = FALSE
        /\ meddled' = {} /\ excused' = {}
    BY <1>24 DEF Return
  <2>4. secured' = secured /\ steps' = steps /\ commands' = commands
    BY <1>24 DEF Return
  <2>5. queue' \subseteq Jobs /\ cur' \in Jobs \cup {NoJob} /\ n' \in 0..4
    BY <2>3
  <2>6. given' \subseteq KeyNames /\ listed' \subseteq Files /\ todo' \subseteq Files
        /\ later' \subseteq Files /\ meddled' \subseteq Files
        /\ excused' \subseteq Files
    BY <2>3
  <2>7. errors' \in BOOLEAN /\ exit' \in {"none", "ok", "refused", "failed"}
    BY <2>3
  <2> QED BY <2>1, <2>2, <2>4, <2>5, <2>6, <2>7 DEF TypeOK
<1>25. CASE Abort
  BY <1>25 DEF TypeOK, RepoTypeOK, Abort, Stop, store, loop, PCs
<1>26. ASSUME NEW S \in SUBSET Files, NEW T \in SUBSET Files,
             UserStep(S, T), RepoTypeOK' PROVE TypeOK'
  <2>1. steps' \in 0..MaxUserSteps
    BY <1>26, BoundAssumption DEF UserStep, TypeOK
  <2> QED BY <1>26, <2>1 DEF UserStep, TypeOK, store, loop, run
<1>27. ASSUME NEW f \in Files, NEW t \in Texts, Edit(f, t) PROVE TypeOK'
  <2>1. RepoTypeOK'
    BY <1>27, PlainContent DEF Edit, UserStep, TypeOK, RepoTypeOK, Slot
  <2> QED BY <2>1, <1>26, <1>27 DEF Edit
<1>28. ASSUME NEW f \in Files, Delete(f) \/ UserTouch(f) PROVE TypeOK'
  <2>1. RepoTypeOK'
    BY <1>28 DEF Delete, UserTouch, UserStep, TypeOK, RepoTypeOK, Slot
  <2> QED BY <2>1, <1>26, <1>28 DEF Delete, UserTouch
<1>29. ASSUME NEW f \in Files, UserAdd(f) PROVE TypeOK'
  <2>1. RepoTypeOK'
    BY <1>29, GitAddType DEF UserAdd, UserStep, TypeOK, RepoTypeOK
  <2> QED BY <2>1, <1>26, <1>29 DEF UserAdd
<1>30. ASSUME NEW f \in Files, UserCheckout(f) PROVE TypeOK'
  <2>1. wt' \in Slot /\ fresh' \in [Files -> BOOLEAN]
    BY <1>30, GitCheckoutType DEF UserCheckout, Unfresh, Tracked, TypeOK
  <2>3. RepoTypeOK'
    BY <1>30, <2>1 DEF UserCheckout, UserStep, TypeOK, RepoTypeOK
  <2> QED BY <2>3, <1>26, <1>30 DEF UserCheckout
<1>31. ASSUME NEW f \in Files, NEW k \in KeyNames \cup {NoKey}, SetAttribute(f, k)
       PROVE TypeOK'
  <2>1. RepoTypeOK'
    BY <1>31 DEF SetAttribute, UserStep, TypeOK, RepoTypeOK
  <2> QED BY <2>1, <1>26, <1>31 DEF SetAttribute
<1>32. CASE UserCommit
  <2>1. RepoTypeOK'
    BY <1>32 DEF UserCommit, UserStep, TypeOK, RepoTypeOK
  <2> QED BY <2>1, <1>26, <1>32 DEF UserCommit
<1> QED
  BY <1>1, <1>2, <1>3, <1>4, <1>5, <1>6, <1>7, <1>8, <1>9, <1>10, <1>11, <1>12,
     <1>13, <1>14, <1>15, <1>151, <1>16, <1>17, <1>18, <1>19, <1>20, <1>22, <1>23, <1>24,
     <1>25, <1>27, <1>28, <1>29, <1>30, <1>31, <1>32
     DEF Next, Begin, Advance, User

LEMMA ShapeStep ==
  TypeOK /\ Shape /\ [Next]_vars => Shape'
<1> SUFFICES ASSUME TypeOK, Shape, [Next]_vars PROVE Shape'
  OBVIOUS
<1> USE DEF Shape, Syncing, Locking
<1>1. CASE UNCHANGED vars
  BY <1>1 DEF vars, repo, loop, run, Tracked
<1>2. ASSUME NEW k \in KeyNames, RefuseInit(k) PROVE Shape'
  BY <1>2 DEF RefuseInit, Start, Stop
<1>3. ASSUME NEW k \in KeyNames, NEW s \in Secrets, StartInit(k, s) PROVE Shape'
  BY <1>3 DEF StartInit, Start, Proceed, KeyFiles
<1>4. ASSUME NEW xs \in SUBSET exported, NEW S \in SUBSET Files,
             StartUnlock(xs, S) \/ RefuseUnlock(xs, S) PROVE Shape'
  BY <1>4 DEF StartUnlock, RefuseUnlock, Start, Proceed, TypeOK
<1>5. ASSUME NEW o \in {"lock", "lock --all"}, NEW k \in KeyNames,
             NEW frc \in BOOLEAN, NEW S \in SUBSET Files,
             StartLock(o, k, frc, S) \/ RefuseLock(o, k, frc, S) PROVE Shape'
  BY <1>5 DEF StartLock, RefuseLock, Start, Proceed
<1>6. CASE \E named \in SUBSET Files : StartFix(named)
  BY <1>6 DEF StartFix, Start, Proceed
<1>7. ASSUME NEW k \in KeyNames, ExportKey(k) PROVE Shape'
  BY <1>7 DEF ExportKey, loop, run
<1>8. ASSUME NEW s \in Secrets, Keygen(s) PROVE Shape'
  BY <1>8 DEF Keygen, loop, run
<1>9. ASSUME NEW x \in queue, CreateKeyFile(x) PROVE Shape'
  BY <1>9 DEF CreateKeyFile, Proceed
<1>10. ASSUME NEW x \in queue, RemoveKeyFile(x) PROVE Shape'
  BY <1>10 DEF RemoveKeyFile, Proceed, TypeOK
<1>11. CASE WriteKeyFile
  BY <1>11 DEF WriteKeyFile, Proceed, KeyFiles, Jobs
<1>12. CASE ConfigureFilter
  <2>1. CASE n < 4
    BY <1>12, <2>1 DEF ConfigureFilter, Proceed
  <2>2. CASE ~(n < 4)
    BY <1>12, <2>2 DEF ConfigureFilter, Proceed, Stop
  <2> QED BY <2>1, <2>2
<1>13. CASE ListFiles \/ AfterKeys
  BY <1>13 DEF ListFiles, AfterKeys, Proceed
<1>14. CASE RemoveFilterSection \/ RemoveDiffSection
  BY <1>14 DEF RemoveFilterSection, RemoveDiffSection, Proceed, loop
<1>15. CASE BeginCheckout \/ FinishBatch
  BY <1>15 DEF BeginCheckout, FinishBatch, Proceed, repo, Tracked
<1>151. ASSUME NEW b \in SUBSET later, BeginBatch(b) PROVE Shape'
  BY <1>151 DEF BeginBatch, Proceed, Stop, repo, Tracked
<1>16. ASSUME NEW f \in Files, Touch(f) PROVE Shape'
  BY <1>16 DEF Touch
<1>17. ASSUME NEW f \in Files, CheckoutFile(f) PROVE Shape'
  BY <1>17 DEF CheckoutFile, Tracked
<1>18. ASSUME NEW f \in Files, CheckoutDies(f) PROVE Shape'
  BY <1>18 DEF CheckoutDies, Stop, loop
<1>19. CASE FinishCheckout \/ FinishFix \/ AddFixDies
  BY <1>19 DEF FinishCheckout, FinishFix, AddFixDies, Stop, loop
<1>20. ASSUME NEW f \in Files, SkipFix(f) \/ TouchFix(f) PROVE Shape'
  BY <1>20 DEF SkipFix, TouchFix, Proceed, run
<1>21. CASE AddFix \/ VerifyFix
  BY <1>21 DEF AddFix, VerifyFix, Proceed, loop
<1>22. CASE Return
  BY <1>22 DEF Return
<1>23. CASE Abort
  BY <1>23 DEF Abort, Stop, loop
<1>24. ASSUME NEW S, NEW T, UserStep(S, T), pc = "checkout" => index' = index PROVE Shape'
  BY <1>24 DEF UserStep, loop, run, Tracked
<1>25. CASE User
  BY <1>24, <1>25 DEF User, Edit, Delete, UserTouch, UserAdd, UserCheckout,
     SetAttribute, UserCommit, IndexUnlocked
<1> QED
  BY <1>1, <1>2, <1>3, <1>4, <1>5, <1>6, <1>7, <1>8, <1>9, <1>10, <1>11, <1>12,
     <1>13, <1>14, <1>15, <1>151, <1>16, <1>17, <1>18, <1>19, <1>20, <1>21, <1>22, <1>23,
     <1>25 DEF Next, Begin, Advance

-----------------------------------------------------------------------------
(* The stat cache: a file git believes unchanged still has the text that   *)
(* is staged, however encrypted either is, so that a checkout and a git    *)
(* add skip only what they may skip.                                       *)
StatSound ==
  \A f \in Files : fresh[f] => /\ wt[f] # Absent /\ index[f] # Absent
                               /\ wt[f].text = index[f].text

\* git add and git checkout leave a file fresh only with the staged text.
LEMMA GitAddStat ==
  ASSUME TypeOK, StatSound, NEW f \in Files, GitAdd(f), wt' = wt PROVE StatSound'
<1>1. CASE fresh[f]
  BY <1>1 DEF GitAdd, StatSound
<1>2. CASE ~fresh[f]
  <2>1. CASE wt[f] = Absent
    BY <1>2, <2>1 DEF GitAdd, StatSound, TypeOK, RepoTypeOK, Slot
  <2>2. CASE wt[f] # Absent
    <3>1. wt[f] \in Content
      BY <2>2 DEF TypeOK, RepoTypeOK, Slot
    <3>2. ToGit(f, wt[f]) # Absent /\ ToGit(f, wt[f]).text = wt[f].text
      BY <3>1, Filters, ContentPresent DEF TypeOK
    <3>3. /\ index' = [index EXCEPT ![f] = ToGit(f, wt[f])]
          /\ fresh' = [fresh EXCEPT ![f] = TRUE]
      BY <1>2, <2>2 DEF GitAdd
    <3> QED BY <2>2, <3>2, <3>3 DEF StatSound, TypeOK, RepoTypeOK, Slot
  <2> QED BY <2>1, <2>2
<1> QED BY <1>1, <1>2

LEMMA GitCheckoutStat ==
  ASSUME TypeOK, StatSound, NEW f \in Tracked, GitCheckout(f), index' = index
  PROVE  StatSound'
<1>1. CASE fresh[f]
  BY <1>1 DEF GitCheckout, StatSound
<1>2. CASE ~fresh[f] /\ GitCheckoutOK(f)
  <2>1. index[f] \in Content /\ f \in Files
    BY DEF Tracked, TypeOK, RepoTypeOK, Slot
  <2>2. FromGit(f, index[f]) # Absent /\ FromGit(f, index[f]).text = index[f].text
    BY <2>1, Filters, ContentPresent DEF TypeOK
  <2>3. wt' = [wt EXCEPT ![f] = FromGit(f, index[f])]
    BY <1>2 DEF GitCheckout
  <2>4. fresh' = [fresh EXCEPT ![f] = TRUE]
    BY <1>2 DEF GitCheckout
  <2> QED BY <2>1, <2>2, <2>3, <2>4 DEF StatSound, TypeOK, RepoTypeOK, Slot, Tracked
<1>3. CASE ~fresh[f] /\ ~GitCheckoutOK(f)
  <2>1. wt' = [wt EXCEPT ![f] = Absent] /\ fresh' = fresh
    BY <1>3 DEF GitCheckout
  <2> QED BY <1>3, <2>1 DEF StatSound, TypeOK, RepoTypeOK, Slot
<1> QED BY <1>2, <1>1, <1>3

\* What git status finds unmodified has the staged text.
LEMMA UnmodifiedText ==
  ASSUME TypeOK, NEW f \in Unmodified
  PROVE  f \in Tracked /\ wt[f] # Absent /\ wt[f].text = index[f].text
<1>1. f \in Files /\ f \in Tracked /\ wt[f] # Absent /\ ToGit(f, wt[f]) = index[f]
  BY DEF Unmodified, Unfresh, Tracked
<1>2. wt[f] \in Content
  BY <1>1 DEF TypeOK, RepoTypeOK, Slot
<1> QED BY <1>1, <1>2, Filters DEF TypeOK

LEMMA RefreshedStat ==
  ASSUME TypeOK, StatSound, NEW S \in SUBSET Unmodified,
         fresh' = Refreshed(S), wt' = wt, index' = index
  PROVE  StatSound'
BY UnmodifiedText DEF Refreshed, StatSound, Tracked

LEMMA StatStep ==
  TypeOK /\ Shape /\ StatSound /\ [Next]_vars => StatSound'
<1> SUFFICES ASSUME TypeOK, Shape, StatSound, [Next]_vars PROVE StatSound'
  OBVIOUS
<1>1. CASE UNCHANGED <<wt, index, fresh>>
  BY <1>1 DEF StatSound
<1>2. ASSUME NEW xs \in SUBSET exported, NEW S \in SUBSET Files,
             StartUnlock(xs, S) \/ RefuseUnlock(xs, S) PROVE StatSound'
  BY <1>2, RefreshedStat DEF StartUnlock, RefuseUnlock, StatusPasses, StatusStops
<1>3. ASSUME NEW o, NEW k, NEW frc, NEW S \in SUBSET Files,
             StartLock(o, k, frc, S) \/ RefuseLock(o, k, frc, S) PROVE StatSound'
  BY <1>3, RefreshedStat DEF StartLock, RefuseLock, StatusPasses, StatusStops
<1>4. ASSUME NEW f \in Files, wt' = wt, index' = index,
             fresh' = [fresh EXCEPT ![f] = FALSE] PROVE StatSound'
  BY <1>4 DEF StatSound, TypeOK, RepoTypeOK
<1>5. ASSUME NEW f \in Files, Touch(f) \/ TouchFix(f) \/ UserTouch(f) PROVE StatSound'
  BY <1>5, <1>4 DEF Touch, TouchFix, UserTouch
<1>6. ASSUME NEW f \in Files, CheckoutFile(f) PROVE StatSound'
  BY <1>6, GitCheckoutStat DEF CheckoutFile, Shape
<1>7. ASSUME NEW f \in Files, CheckoutDies(f) PROVE StatSound'
  BY <1>7 DEF CheckoutDies, Shape, StatSound, TypeOK, RepoTypeOK, Slot
<1>8. CASE AddFix
  BY <1>8, GitAddStat DEF AddFix, TypeOK
<1>9. CASE Abort
  BY <1>9 DEF Abort, StatSound
<1>10. ASSUME NEW f \in Files, NEW c \in Content \cup {Absent},
              wt' = [wt EXCEPT ![f] = c], index' = index,
              fresh' = [fresh EXCEPT ![f] = FALSE] PROVE StatSound'
  BY <1>10 DEF StatSound, TypeOK, RepoTypeOK, Slot
<1>11. ASSUME NEW f \in Files, NEW t \in Texts, Edit(f, t) PROVE StatSound'
  BY <1>11, <1>10, PlainContent DEF Edit
<1>12. ASSUME NEW f \in Files, Delete(f) PROVE StatSound'
  BY <1>12, <1>10 DEF Delete
<1>13. ASSUME NEW f \in Files, UserAdd(f) PROVE StatSound'
  BY <1>13, GitAddStat DEF UserAdd
<1>14. ASSUME NEW f \in Files, UserCheckout(f) PROVE StatSound'
  BY <1>14, GitCheckoutStat DEF UserCheckout, Unfresh
<1>15. CASE UNCHANGED vars
  BY <1>1, <1>15 DEF vars, repo
<1>16. CASE Begin
  BY <1>1, <1>2, <1>3, <1>16 DEF Begin, RefuseInit, StartInit, StartFix, ExportKey,
     Keygen, repo
<1>17. CASE Advance
  BY <1>1, <1>5, <1>6, <1>7, <1>8, <1>17 DEF Advance, CreateKeyFile, RemoveKeyFile,
     WriteKeyFile, ConfigureFilter, ListFiles, RemoveFilterSection,
     RemoveDiffSection, AfterKeys, BeginCheckout, BeginBatch, FinishBatch,
     FinishCheckout, SkipFix, AddFixDies, VerifyFix, FinishFix, Return, repo
<1>18. CASE User
  BY <1>1, <1>5, <1>11, <1>12, <1>13, <1>14, <1>18 DEF User, SetAttribute, UserCommit
<1> QED BY <1>9, <1>15, <1>16, <1>17, <1>18 DEF Next

-----------------------------------------------------------------------------
(* Under guard, the files the user leaves alone agree with the index.      *)
Agree ==
  Guarded => \A f \in Tracked \ meddled : wt[f] # Absent /\ wt[f].text = index[f].text

\* A tree that passes the status check agrees with the index.
LEMMA PassingTree ==
  ASSUME TypeOK, StatSound, NEW S, StatusPasses(S, FALSE), NEW f \in Tracked
  PROVE  wt[f] # Absent /\ wt[f].text = index[f].text
<1>1. CASE fresh[f]
  BY <1>1 DEF StatSound, Tracked
<1>2. CASE ~fresh[f]
  BY <1>2, UnmodifiedText DEF StatusPasses, Unfresh
<1> QED BY <1>1, <1>2

LEMMA AgreeStep ==
  TypeOK /\ Shape /\ StatSound /\ Agree /\ [Next]_vars => Agree'
<1> SUFFICES ASSUME TypeOK, Shape, StatSound, Agree, [Next]_vars PROVE Agree'
  OBVIOUS
<1>1. ASSUME Guarded' => Guarded, UNCHANGED <<wt, index, meddled>> PROVE Agree'
  BY <1>1 DEF Agree, Tracked
<1>2. ASSUME ~Guarded' PROVE Agree'
  BY <1>2 DEF Agree
<1>3. CASE UNCHANGED vars
  BY <1>1, <1>3 DEF vars, repo, run, Guarded
<1>4. ASSUME NEW k \in KeyNames, RefuseInit(k) \/ (\E s \in Secrets : StartInit(k, s))
      PROVE Agree'
  BY <1>4, <1>2 DEF RefuseInit, StartInit, Start, Guarded
<1>5. ASSUME NEW xs \in SUBSET exported, NEW S \in SUBSET Files, StartUnlock(xs, S)
      PROVE Agree'
  BY <1>5, PassingTree DEF StartUnlock, Agree, Tracked
<1>6. ASSUME NEW xs \in SUBSET exported, NEW S \in SUBSET Files, RefuseUnlock(xs, S)
      PROVE Agree'
  BY <1>6, <1>2 DEF RefuseUnlock, Guarded
<1>7. ASSUME NEW o, NEW k, NEW frc \in BOOLEAN, NEW S \in SUBSET Files,
             StartLock(o, k, frc, S) PROVE Agree'
  <2>1. CASE frc
    BY <1>7, <1>2, <2>1 DEF StartLock, Start, Guarded
  <2>2. CASE ~frc
    BY <1>7, <2>2, PassingTree DEF StartLock, Agree, Tracked
  <2> QED BY <2>1, <2>2
<1>8. ASSUME NEW o, NEW k, NEW frc, NEW S \in SUBSET Files, RefuseLock(o, k, frc, S)
      PROVE Agree'
  BY <1>8, <1>2 DEF RefuseLock, Guarded
<1>9. CASE \E named \in SUBSET Files : StartFix(named)
  BY <1>9, <1>2 DEF StartFix, Start, Guarded
<1>10. ASSUME NEW f \in Files, CheckoutFile(f) PROVE Agree'
  <2>1. f \in Tracked
    BY <1>10 DEF CheckoutFile, Shape
  <2>2. index[f] \in Content
    BY <2>1 DEF Tracked, TypeOK, RepoTypeOK, Slot
  <2>3. FromGit(f, index[f]) # Absent /\ FromGit(f, index[f]).text = index[f].text
    BY <2>2, Filters, ContentPresent DEF TypeOK
  <2>4. wt' = wt \/ wt' = [wt EXCEPT ![f] = FromGit(f, index[f])]
    BY <1>10 DEF CheckoutFile, GitCheckout
  <2> QED BY <1>10, <2>1, <2>3, <2>4
          DEF CheckoutFile, Agree, Guarded, Tracked, TypeOK, RepoTypeOK, Slot
<1>11. ASSUME NEW f \in Files, CheckoutDies(f) PROVE Agree'
  BY <1>11, <1>2 DEF CheckoutDies, Stop, Guarded
<1>12. CASE AddFix
  BY <1>12, <1>2 DEF AddFix, Shape, Guarded
<1>13. CASE Return \/ Abort \/ AddFixDies
  BY <1>13, <1>2 DEF Return, Abort, AddFixDies, Stop, Guarded
<1>14. ASSUME pc \notin {"idle", "done"}, UNCHANGED <<op, force, wt, index, meddled>>
       PROVE  Agree'
  BY <1>14, <1>1 DEF Guarded
<1>15. ASSUME NEW x, CreateKeyFile(x) \/ RemoveKeyFile(x) PROVE Agree'
  BY <1>15, <1>14 DEF CreateKeyFile, RemoveKeyFile
<1>16. CASE WriteKeyFile \/ ConfigureFilter \/ ListFiles
  BY <1>16, <1>14 DEF WriteKeyFile, ConfigureFilter, ListFiles, repo
<1>17. CASE RemoveFilterSection \/ RemoveDiffSection \/ AfterKeys \/ BeginCheckout
            \/ FinishBatch
  BY <1>17, <1>14 DEF RemoveFilterSection, RemoveDiffSection, AfterKeys, BeginCheckout,
     FinishBatch, repo, loop
<1>171. ASSUME NEW b \in SUBSET later, BeginBatch(b) PROVE Agree'
  BY <1>171, <1>14 DEF BeginBatch, repo
<1>18. ASSUME NEW f \in Files, Touch(f) \/ SkipFix(f) \/ TouchFix(f) PROVE Agree'
  BY <1>18, <1>14 DEF Touch, SkipFix, TouchFix, repo, run
<1>19. CASE VerifyFix \/ FinishFix \/ FinishCheckout
  BY <1>19, <1>14 DEF VerifyFix, FinishFix, FinishCheckout, repo, loop
<1>20. ASSUME NEW S \in SUBSET Files, NEW T, UserStep(S, T),
              \A f \in Files \ S : wt'[f] = wt[f] /\ index'[f] = index[f]
       PROVE  Agree'
  <2>1. CASE pc = "idle"
    BY <1>20, <2>1, <1>2 DEF UserStep, run, Guarded
  <2>2. CASE pc # "idle"
    BY <1>20, <2>2 DEF UserStep, run, Agree, Guarded, Tracked
  <2> QED BY <2>1, <2>2
<1>21. CASE User
  <2>1. ASSUME NEW f \in Files, NEW t \in Texts, Edit(f, t) PROVE Agree'
    BY <2>1, <1>20 DEF Edit, TypeOK, RepoTypeOK, Slot
  <2>2. ASSUME NEW f \in Files, Delete(f) \/ UserTouch(f) PROVE Agree'
    BY <2>2, <1>20 DEF Delete, UserTouch, TypeOK, RepoTypeOK, Slot
  <2>3. ASSUME NEW f \in Files, UserAdd(f) PROVE Agree'
    <3>1. \A g \in Files \ {f} : index'[g] = index[g]
      BY <2>3 DEF UserAdd, GitAdd, TypeOK, RepoTypeOK, Slot
    <3> QED BY <2>3, <3>1, <1>20 DEF UserAdd
  <2>4. ASSUME NEW f \in Files, UserCheckout(f) PROVE Agree'
    <3>1. \A g \in Files \ {f} : wt'[g] = wt[g]
      BY <2>4 DEF UserCheckout, GitCheckout, TypeOK, RepoTypeOK, Slot
    <3> QED BY <2>4, <3>1, <1>20 DEF UserCheckout
  <2>5. ASSUME NEW f \in Files, NEW k, SetAttribute(f, k) PROVE Agree'
    BY <2>5, <1>20 DEF SetAttribute
  <2>6. CASE UserCommit
    BY <2>6, <1>20 DEF UserCommit
  <2> QED BY <1>21, <2>1, <2>2, <2>3, <2>4, <2>5, <2>6 DEF User
<1>22. ASSUME NEW k, ExportKey(k) PROVE Agree'
  BY <1>22, <1>1 DEF ExportKey, Guarded, repo, run
<1>23. ASSUME NEW s, Keygen(s) PROVE Agree'
  BY <1>23, <1>1 DEF Keygen, Guarded, repo, run
<1>24. CASE Begin
  BY <1>4, <1>5, <1>6, <1>7, <1>8, <1>9, <1>22, <1>23, <1>24 DEF Begin
<1>25. CASE Advance
  BY <1>10, <1>11, <1>12, <1>13, <1>14, <1>15, <1>16, <1>17, <1>171, <1>18,
     <1>19, <1>25 DEF Advance
<1> QED BY <1>3, <1>13, <1>21, <1>24, <1>25 DEF Next

-----------------------------------------------------------------------------
(* A secured key has its clean driver, and the driver is required.         *)
Configured ==
  /\ \A k \in secured : {"clean", "required"} \subseteq cfg[k]
  /\ pc = "filter" => /\ n > 2 => "clean" \in cfg[cur.name]
                      /\ n > 3 => "required" \in cfg[cur.name]

LEMMA ConfiguredStep ==
  TypeOK /\ Shape /\ Configured /\ [Next]_vars => Configured'
<1> SUFFICES ASSUME TypeOK, Shape, Configured, [Next]_vars PROVE Configured'
  OBVIOUS
<1>1. ASSUME UNCHANGED <<cfg, secured>>, pc' # "filter" PROVE Configured'
  BY <1>1 DEF Configured
<1>2. ASSUME UNCHANGED <<cfg, secured, pc, n, cur>> PROVE Configured'
  BY <1>2 DEF Configured
<1>3. CASE WriteKeyFile
  BY <1>3 DEF WriteKeyFile, Configured
<1>4. CASE ConfigureFilter
  <2>1. cur.name \in KeyNames /\ n \in 1..4
    BY <1>4 DEF ConfigureFilter, Shape, Jobs
  <2>2. cfg' = [cfg EXCEPT ![cur.name] = @ \cup {Drivers[n]}]
    BY <1>4 DEF ConfigureFilter
  <2>3. \A k \in KeyNames : cfg[k] \subseteq cfg'[k]
    BY <2>1, <2>2 DEF TypeOK, RepoTypeOK
  <2>4. /\ n = 2 => "clean" \in cfg'[cur.name]
        /\ n = 3 => "required" \in cfg'[cur.name]
    BY <2>1, <2>2 DEF Drivers, TypeOK, RepoTypeOK
  <2>5. /\ n > 2 => "clean" \in cfg[cur.name]
        /\ n > 3 => "required" \in cfg[cur.name]
    BY <1>4 DEF ConfigureFilter, Configured
  <2>6. \A k \in secured : {"clean", "required"} \subseteq cfg'[k]
    BY <2>3 DEF Configured, TypeOK
  <2>7. CASE n < 4
    <3>1. n' = n + 1 /\ cur' = cur /\ secured' = secured
      BY <1>4, <2>7 DEF ConfigureFilter
    <3>2. (n' > 2 => n = 2 \/ n > 2) /\ (n' > 3 => n = 3)
      BY <3>1, <2>1, <2>7
    <3>3. n' > 2 => "clean" \in cfg'[cur.name]
      BY <3>2, <2>1, <2>3, <2>4, <2>5
    <3>4. n' > 3 => "required" \in cfg'[cur.name]
      BY <3>2, <2>4
    <3> QED BY <3>1, <3>3, <3>4, <2>6 DEF Configured
  <2>8. CASE ~(n < 4)
    <3>1. secured' = secured \cup {cur.name} /\ pc' # "filter"
      BY <1>4, <2>8 DEF ConfigureFilter, Stop, Proceed
    <3>2. {"clean", "required"} \subseteq cfg'[cur.name]
      BY <2>1, <2>3, <2>5, <2>8
    <3> QED BY <3>1, <3>2, <2>6 DEF Configured
  <2> QED BY <2>7, <2>8
<1>5. CASE RemoveFilterSection
  BY <1>5 DEF RemoveFilterSection, Proceed, Configured, TypeOK, RepoTypeOK
<1>6. CASE RemoveDiffSection
  BY <1>6 DEF RemoveDiffSection, Proceed, Configured, TypeOK, RepoTypeOK
<1>7. CASE UNCHANGED vars
  BY <1>2, <1>7 DEF vars, repo, loop, run
<1>8. CASE Begin
  <2>1. ASSUME NEW k, RefuseInit(k) \/ (\E s \in Secrets : StartInit(k, s))
        PROVE  Configured'
    BY <2>1, <1>1 DEF RefuseInit, StartInit, Stop, Proceed, repo
  <2>2. ASSUME NEW xs, NEW S, StartUnlock(xs, S) \/ RefuseUnlock(xs, S)
        PROVE  Configured'
    BY <2>2, <1>1 DEF StartUnlock, RefuseUnlock, Proceed
  <2>3. ASSUME NEW o, NEW k, NEW frc, NEW S,
               StartLock(o, k, frc, S) \/ RefuseLock(o, k, frc, S) PROVE Configured'
    BY <2>3, <1>1 DEF StartLock, RefuseLock, Proceed
  <2>4. CASE \E named \in SUBSET Files : StartFix(named)
    BY <2>4, <1>1 DEF StartFix, Proceed, repo
  <2>5. ASSUME NEW x, ExportKey(x) \/ Keygen(x) PROVE Configured'
    BY <2>5, <1>2 DEF ExportKey, Keygen, repo, loop, run
  <2> QED BY <1>8, <2>1, <2>2, <2>3, <2>4, <2>5 DEF Begin
<1>9. CASE Advance
  BY <1>1, <1>2, <1>3, <1>4, <1>5, <1>6, <1>9 DEF Advance, CreateKeyFile,
     RemoveKeyFile, ListFiles, AfterKeys, Touch, BeginCheckout, BeginBatch,
     FinishBatch, CheckoutFile, CheckoutDies, FinishCheckout, SkipFix,
     TouchFix, AddFix, AddFixDies, VerifyFix, FinishFix, Return, Stop, Proceed,
     repo, loop, run
<1>10. CASE Abort
  BY <1>1, <1>10 DEF Abort, Stop
<1>11. CASE User
  BY <1>2, <1>11 DEF User, Edit, Delete, UserTouch, UserAdd, UserCheckout,
     SetAttribute, UserCommit, UserStep, loop, run
<1> QED BY <1>7, <1>8, <1>9, <1>10, <1>11 DEF Next

-----------------------------------------------------------------------------
(* The inductive invariant and what follows from it.                       *)
IInv == TypeOK /\ Shape /\ StatSound /\ Agree /\ Configured

LEMMA CommittedContent ==
  ASSUME NEW o \in Origins, NEW f \in Files PROVE Committed(o, f) \subseteq Content
<1>1. ASSUME NEW s \in Secrets, NEW t \in Texts
      PROVE  EncryptWith(s, Plain(t)) \in Content
  <2>1. <<s>> \o <<>> \in Seq(Secrets)
    OBVIOUS
  <2> QED BY <2>1 DEF EncryptWith, Plain, Content
<1> QED BY <1>1, PlainContent DEF Committed

LEMMA InitInvariant == Init => IInv
<1> SUFFICES ASSUME Init PROVE IInv
  OBVIOUS
<1>1. PICK o \in Origins :
        /\ head \in [Files -> UNION {Committed(o, f) : f \in Files}]
        /\ born = {o[k] : k \in KeyNames} \ {NoFile}
        /\ exported = {x \in KeyFiles : o[x.name] = x.secret}
  BY DEF Init
<1>2. head \in [Files -> Content]
  BY <1>1, CommittedContent
<1>3. born \subseteq Secrets
  BY <1>1 DEF Origins
<1>4. RepoTypeOK
  BY <1>2 DEF Init, RepoTypeOK, Slot, KeyFile, DriverSet
<1>5. TypeOK
  <2>1. op \in Ops /\ pc \in PCs
    BY DEF Init, Ops, PCs
  <2>2. steps \in 0..MaxUserSteps /\ commands \in 0..MaxCommands
    BY BoundAssumption DEF Init
  <2>3. queue \subseteq Jobs /\ cur \in Jobs \cup {NoJob} /\ n \in 0..4
    BY DEF Init
  <2>4. exported \subseteq KeyFiles /\ keysDir \in BOOLEAN
    BY <1>1 DEF Init
  <2>5. given \subseteq KeyNames /\ listed \subseteq Files /\ todo \subseteq Files
        /\ later \subseteq Files /\ meddled \subseteq Files /\ excused \subseteq Files
        /\ secured \subseteq KeyNames
    BY DEF Init
  <2>6. force \in BOOLEAN /\ errors \in BOOLEAN
        /\ exit \in {"none", "ok", "refused", "failed"}
    BY DEF Init
  <2> QED BY <1>3, <1>4, <2>1, <2>2, <2>3, <2>4, <2>5, <2>6 DEF TypeOK
<1>6. Shape
  BY DEF Init, Shape
<1>7. StatSound
  BY <1>2, ContentPresent DEF Init, StatSound
<1>8. Agree /\ Configured
  BY DEF Init, Agree, Guarded, Configured
<1> QED BY <1>5, <1>6, <1>7, <1>8 DEF IInv

\* Every reachable state has the invariant.
THEOREM Invariance == Spec => []IInv
<1>1. IInv /\ [Next]_vars => IInv'
  BY TypeStep, ShapeStep, StatStep, AgreeStep, ConfiguredStep DEF IInv
<1> QED BY <1>1, InitInvariant, PTL DEF Spec

\* The variables of GitCrypt keep their types.
THEOREM TypeCorrect == Spec => []TypeOK
<1>1. IInv => TypeOK
  BY DEF IInv
<1> QED BY <1>1, Invariance, PTL

\* No command destroys a text the user had only in the work tree, unless it was
\* forced to or the user changed the file while it ran.
THEOREM NoEditLost == Spec => EditsSurvive
<1> DEFINE A == \A f \in Files :
       wt[f] # Absent /\ TextOf(wt'[f]) # wt[f].text =>
         \/ pc = "idle" \/ force \/ f \in meddled'
         \/ TextOf(index[f]) = wt[f].text
<1>1. IInv /\ [Next]_vars => [A]_vars
  <2> SUFFICES ASSUME IInv, Next, NEW f \in Files, wt[f] # Absent,
                      TextOf(wt'[f]) # wt[f].text, pc # "idle", ~force, f \notin meddled'
               PROVE  TextOf(index[f]) = wt[f].text
    OBVIOUS
  <2>1. wt[f] \in Content /\ TextOf(wt[f]) = wt[f].text
    BY DEF IInv, TypeOK, RepoTypeOK, Slot, TextOf
  <2>2. ASSUME wt' = wt PROVE FALSE
    BY <2>1, <2>2
  <2>3. ASSUME NEW g \in Files, CheckoutFile(g) \/ CheckoutDies(g)
        PROVE  TextOf(index[f]) = wt[f].text
    <3>1. Guarded /\ g \in Tracked
      BY <2>3 DEF CheckoutFile, CheckoutDies, IInv, Shape, Syncing, Guarded
    <3>2. f = g
      BY <2>2, <2>3, <2>1 DEF CheckoutFile, CheckoutDies, GitCheckout, IInv, TypeOK,
         RepoTypeOK, Slot
    <3>3. f \in Tracked \ meddled
      BY <3>1, <3>2, <2>3 DEF CheckoutFile, CheckoutDies
    <3> QED BY <3>1, <3>3 DEF IInv, Agree, TextOf, Tracked
  <2>4. CASE User
    <3>1. ASSUME NEW g \in Files, NEW T, UserStep({g}, T) PROVE f # g
      BY <3>1 DEF UserStep, IInv, TypeOK
    <3>2. ASSUME NEW g \in Files, NEW c, wt' = [wt EXCEPT ![g] = c], f # g PROVE FALSE
      BY <3>2, <2>1 DEF IInv, TypeOK, RepoTypeOK, Slot
    <3>3. ASSUME NEW g \in Files, GitCheckout(g), f # g PROVE FALSE
      BY <3>2, <3>3, <2>2 DEF GitCheckout
    <3> QED BY <2>2, <3>1, <3>2, <3>3, <2>4 DEF User, Edit, Delete, UserTouch, UserAdd,
               UserCheckout, SetAttribute, UserCommit
  <2>5. CASE Begin
    BY <2>5, ZenonT(60) DEF Begin, RefuseInit, StartInit, StartUnlock, RefuseUnlock, StartLock,
       RefuseLock, StartFix, ExportKey, Keygen, Start
  <2>6. CASE Abort
    BY <2>2, <2>6 DEF Abort
  <2>7. CASE Advance
    BY <2>2, <2>3, <2>7 DEF Advance, CreateKeyFile, RemoveKeyFile, WriteKeyFile,
       ConfigureFilter, ListFiles, RemoveFilterSection, RemoveDiffSection, AfterKeys,
       Touch, BeginCheckout, BeginBatch, FinishBatch, FinishCheckout, SkipFix, TouchFix,
       AddFix, AddFixDies, VerifyFix, FinishFix, Return, repo
  <2> QED BY <2>4, <2>5, <2>6, <2>7 DEF Next
<1> QED BY <1>1, Invariance, PTL DEF EditsSurvive, Spec, A

\* Nothing is staged in the clear under a secured key.
THEOREM SecuredStagedEncrypted == Spec => SecuredStaging
<1> DEFINE A == \A f \in Files :
       index'[f] # index[f] /\ index'[f] # Absent /\ attr[f] \in secured
         => Encrypted(index'[f])
<1>1. IInv /\ [Next]_vars => [A]_vars
  <2> SUFFICES ASSUME IInv, Next, NEW f \in Files, index'[f] # index[f],
                      index'[f] # Absent, attr[f] \in secured
               PROVE  Encrypted(index'[f])
    OBVIOUS
  <2>1. ASSUME NEW g \in Files, GitAdd(g) PROVE Encrypted(index'[f])
    <3>1. f = g /\ wt[f] # Absent /\ ~ToGitDies(f) /\ index'[f] = ToGit(f, wt[f])
      BY <2>1 DEF GitAdd, IInv, TypeOK, RepoTypeOK, Slot
    <3>2. Driver(f, "required")
      BY KeyAssumption DEF IInv, Configured, TypeOK, Driver
    <3>3. index'[f] = EncryptWith(ikey[attr[f]], wt[f])
      BY <3>1, <3>2 DEF ToGitDies, ToGit
    <3>4. wt[f].layers \in Seq(Secrets) /\ ikey[attr[f]] \in Secrets
      BY <3>1, <3>2 DEF ToGitDies, CleanRuns, Loads, IInv, TypeOK, RepoTypeOK, Slot, Content
    <3>5. <<ikey[attr[f]]>> \o wt[f].layers # <<>>
      BY <3>4
    <3> QED BY <3>3, <3>5 DEF EncryptWith, Encrypted
  <2>2. index' # index
    OBVIOUS
  <2>3. AddFix \/ (\E g \in Files : UserAdd(g))
    BY <2>2, ZenonT(60) DEF Next, Begin, Advance, User, RefuseInit, StartInit, StartUnlock,
       RefuseUnlock, StartLock, RefuseLock, StartFix, ExportKey, Keygen,
       CreateKeyFile, RemoveKeyFile, WriteKeyFile, ConfigureFilter, ListFiles,
       RemoveFilterSection, RemoveDiffSection, AfterKeys, Touch, BeginCheckout,
       BeginBatch, FinishBatch, CheckoutFile, CheckoutDies, FinishCheckout,
       SkipFix, TouchFix, AddFixDies, VerifyFix, FinishFix, Return, Abort,
       Edit, Delete, UserTouch, UserCheckout, SetAttribute, UserCommit, repo
  <2> QED BY <2>1, <2>3 DEF AddFix, UserAdd, IInv, TypeOK
<1> QED BY <1>1, Invariance, PTL DEF SecuredStaging, Spec, A

-----------------------------------------------------------------------------
(* GitCrypt implements PlainGit: proof of the refinement mapping Look of   *)
(* module GitCrypt.                                                        *)

lookVars == <<TextsOf(wt), TextsOf(index), TextsOf(head), Exposed>>

LEMMA InitTransparent == Init => Look!Init
<1> SUFFICES ASSUME Init PROVE Look!Init
  OBVIOUS
<1>1. head \in [Files -> Content]
  <2>1. PICK o \in Origins : head \in [Files -> UNION {Committed(o, f) : f \in Files}]
    BY DEF Init
  <2> QED BY <2>1, CommittedContent
<1>2. TextsOf(wt) \in [Files -> Texts]
  BY <1>1, ContentPresent DEF Init, TextOf, TextsOf, Content
<1> QED BY <1>2 DEF Init, Look!Init, Guarded, Exposed

LEMMA NextTransparent == IInv /\ IInv' /\ [Next]_vars => [Look!Next]_lookVars
<1> SUFFICES ASSUME IInv, IInv', [Next]_vars
             PROVE  Look!Next \/ UNCHANGED lookVars
  OBVIOUS
<1> USE DEF IInv
<1>1. DOMAIN wt = Files /\ DOMAIN index = Files /\ meddled \subseteq Files
  BY DEF TypeOK, RepoTypeOK, Slot
\* Steps that change no text.
<1>2. ASSUME UNCHANGED <<wt, index, head>>, Guarded' => Guarded /\ meddled' = meddled
      PROVE  Look!Next \/ UNCHANGED lookVars
  BY <1>2 DEF lookVars, Exposed, TextsOf, Look!Next, Look!End, Look!texts
<1>3. ASSUME UNCHANGED <<wt, index, head, meddled, op, force>>, pc \notin {"idle", "done"}
      PROVE  Look!Next \/ UNCHANGED lookVars
  BY <1>2, <1>3 DEF Guarded
<1>4. ASSUME pc = "idle" \/ pc = "done" PROVE Exposed = Files /\ ~Guarded
  BY <1>4 DEF Exposed, Guarded
<1>5. ASSUME UNCHANGED <<wt, index, head>>, ~Guarded'
      PROVE  Look!Next \/ UNCHANGED lookVars
  BY <1>5, <1>2
\* unlock, or lock without --force, starts.
<1>6. ASSUME NEW S, UNCHANGED <<wt, index, head, meddled>>, pc = "idle",
             StatusPasses(S, FALSE), Guarded'
      PROVE  Look!Next
  <2>1. Exposed = Files /\ Exposed' = {}
    BY <1>6, <1>4 DEF Shape, Exposed
  <2>2. index = head
    BY <1>6 DEF StatusPasses
  <2>3. ASSUME NEW f \in Files, TextsOf(index)[f] # Absent
        PROVE  TextsOf(wt)[f] = TextsOf(index)[f]
    <3>1. f \in Tracked
      BY <2>3 DEF Tracked, TextsOf, TextOf
    <3>2. wt[f] # Absent /\ wt[f].text = index[f].text /\ index[f] # Absent
      BY <1>6, <3>1, PassingTree DEF Tracked
    <3> QED BY <3>2 DEF TextsOf, TextOf
  <2>4. Look!Clean
    BY <2>2, <2>3 DEF Look!Clean
  <2> QED BY <1>6, <2>1, <2>4 DEF Look!Next, Look!Begin, Look!texts, TextsOf
<1>7. ASSUME NEW xs \in SUBSET exported, NEW S \in SUBSET Files,
             StartUnlock(xs, S) \/ RefuseUnlock(xs, S)
      PROVE  Look!Next \/ UNCHANGED lookVars
  <2>1. CASE StartUnlock(xs, S)
    BY <2>1, <1>5, <1>6 DEF StartUnlock, Start
  <2>2. CASE RefuseUnlock(xs, S)
    BY <2>2, <1>5 DEF RefuseUnlock, Guarded
  <2> QED BY <1>7, <2>1, <2>2
<1>8. ASSUME NEW o, NEW k, NEW frc \in BOOLEAN, NEW S \in SUBSET Files,
             StartLock(o, k, frc, S) \/ RefuseLock(o, k, frc, S)
      PROVE  Look!Next \/ UNCHANGED lookVars
  <2>1. CASE StartLock(o, k, frc, S) /\ frc
    BY <2>1, <1>5 DEF StartLock, Start, Guarded
  <2>2. CASE StartLock(o, k, frc, S) /\ ~frc
    <3>1. StatusPasses(S, FALSE)
      BY <2>2 DEF StartLock
    <3> QED BY <2>2, <3>1, <1>5, <1>6 DEF StartLock, Start
  <2>3. CASE RefuseLock(o, k, frc, S)
    BY <2>3, <1>5 DEF RefuseLock, Guarded
  <2> QED BY <1>8, <2>1, <2>2, <2>3
<1>9. CASE Begin
  <2>1. ASSUME NEW k, RefuseInit(k) \/ (\E s \in Secrets : StartInit(k, s))
        PROVE  Look!Next \/ UNCHANGED lookVars
    BY <2>1, <1>5 DEF RefuseInit, StartInit, Start, Guarded, repo
  <2>2. CASE \E named \in SUBSET Files : StartFix(named)
    BY <2>2, <1>5 DEF StartFix, Start, Guarded, repo
  <2>3. ASSUME NEW x, ExportKey(x) \/ Keygen(x) PROVE Look!Next \/ UNCHANGED lookVars
    BY <2>3, <1>2 DEF ExportKey, Keygen, Guarded, repo, run
  <2> QED BY <1>9, <1>7, <1>8, <2>1, <2>2, <2>3 DEF Begin
\* git checkout, under guard or forced.
<1>10. ASSUME NEW f \in Files, CheckoutFile(f) PROVE Look!Next \/ UNCHANGED lookVars
  <2>1. Exposed' = Exposed /\ f \in Tracked
    BY <1>10 DEF CheckoutFile, Shape, Exposed, Guarded
  <2>2. index[f] \in Content
    BY <2>1 DEF Tracked, TypeOK, RepoTypeOK, Slot
  <2>3. TextOf(FromGit(f, index[f])) = TextOf(index[f])
    BY <2>2, Filters, ContentPresent DEF TypeOK, TextOf
  <2>4. CASE wt' = wt
    BY <1>10, <2>1, <2>4 DEF CheckoutFile, lookVars, TextsOf
  <2>5. CASE wt' = [wt EXCEPT ![f] = FromGit(f, index[f])]
    <3>1. TextsOf(wt)' = [TextsOf(wt) EXCEPT ![f] = TextsOf(index)[f]]
      BY <1>1, <2>3, <2>5 DEF TextsOf
    <3>2. CASE f \in Exposed
      BY <1>10, <2>1, <3>1, <3>2 DEF CheckoutFile, Look!Next, Look!Restore, TextsOf
    <3>3. CASE f \notin Exposed
      <4>1. wt[f] # Absent /\ wt[f].text = index[f].text
        BY <3>3, <2>1, <1>1 DEF Exposed, Agree
      <4>2. TextsOf(wt)[f] = TextsOf(index)[f]
        BY <4>1, <2>1 DEF TextsOf, TextOf, Tracked
      <4>3. TextsOf(wt)' = TextsOf(wt)
        BY <3>1, <4>2 DEF TextsOf
      <4> QED BY <1>10, <2>1, <4>3 DEF CheckoutFile, lookVars, TextsOf
    <3> QED BY <3>2, <3>3
  <2> QED BY <1>10, <2>4, <2>5 DEF CheckoutFile, GitCheckout
<1>11. ASSUME NEW f \in Files, CheckoutDies(f) PROVE Look!Next
  <2>1. f \in Tracked /\ Exposed' = Files
    BY <1>11 DEF CheckoutDies, Shape, Stop, Exposed, Guarded
  <2>2. f \in Exposed \/ TextsOf(wt)[f] = TextsOf(index)[f]
    BY <2>1 DEF Exposed, Agree, Tracked, TextsOf, TextOf
  <2>3. TextsOf(wt)' = [TextsOf(wt) EXCEPT ![f] = Absent]
    BY <1>11, <1>1 DEF CheckoutDies, TextsOf, TextOf
  <2> QED BY <1>11, <2>1, <2>2, <2>3 DEF CheckoutDies, Look!Next, Look!Drop, TextsOf
\* git add.
<1>12. ASSUME NEW f \in Files, GitAdd(f), wt' = wt, head' = head,
              Exposed' = Exposed \cup {f}
       PROVE  Look!Next
  <2>1. CASE index' = index
    BY <1>12, <2>1 DEF Look!Next, Look!Look, Look!Expose, Look!texts, TextsOf
  <2>2. CASE index' = [index EXCEPT ![f] = IF wt[f] = Absent THEN Absent ELSE ToGit(f, wt[f])]
    <3>1. wt[f] # Absent => TextOf(ToGit(f, wt[f])) = TextOf(wt[f])
      BY Filters, ContentPresent DEF TypeOK, RepoTypeOK, Slot, TextOf
    <3>2. TextsOf(index)' = [TextsOf(index) EXCEPT ![f] = TextsOf(wt)[f]]
      BY <1>1, <2>2, <3>1 DEF TextsOf, TextOf
    <3> QED BY <1>12, <3>2 DEF Look!Next, Look!Stage, Look!Expose, TextsOf
  <2> QED BY <1>12, <2>1, <2>2 DEF GitAdd
<1>13. CASE AddFix
  <2>1. PICK f \in listed : GitAdd(f)
    BY <1>13 DEF AddFix
  <2>2. f \in Files /\ Exposed = Files /\ Exposed' = Files
    BY <1>13 DEF AddFix, TypeOK, Shape, Exposed, Guarded
  <2> QED BY <1>13, <2>1, <2>2, <1>12 DEF AddFix
<1>14. CASE Advance
  <2>1. ASSUME NEW x, CreateKeyFile(x) \/ RemoveKeyFile(x)
        PROVE  Look!Next \/ UNCHANGED lookVars
    BY <2>1, <1>3 DEF CreateKeyFile, RemoveKeyFile
  <2>2. CASE WriteKeyFile \/ ConfigureFilter \/ ListFiles
    BY <2>2, <1>3 DEF WriteKeyFile, ConfigureFilter, ListFiles, repo
  <2>3. CASE \/ RemoveFilterSection \/ RemoveDiffSection \/ AfterKeys
             \/ BeginCheckout \/ FinishBatch
    BY <2>3, <1>3 DEF RemoveFilterSection, RemoveDiffSection, AfterKeys,
       BeginCheckout, FinishBatch, repo, loop
  <2>4. ASSUME NEW f \in Files, Touch(f) \/ SkipFix(f) \/ TouchFix(f)
        PROVE  Look!Next \/ UNCHANGED lookVars
    BY <2>4, <1>3 DEF Touch, SkipFix, TouchFix, repo, run
  <2>5. CASE VerifyFix \/ FinishFix \/ FinishCheckout \/ AddFixDies
    BY <2>5, <1>3 DEF VerifyFix, FinishFix, FinishCheckout, AddFixDies, repo, loop
  <2>6. CASE Return
    BY <2>6, <1>5 DEF Return, Guarded, repo
  <2>7. ASSUME NEW b \in SUBSET later, BeginBatch(b)
        PROVE  Look!Next \/ UNCHANGED lookVars
    BY <2>7, <1>3 DEF BeginBatch, repo
  <2> QED BY <1>10, <1>11, <1>13, <1>14, <2>1, <2>2, <2>3, <2>4, <2>5, <2>6, <2>7
          DEF Advance
<1>15. CASE Abort
  BY <1>15, <1>3 DEF Abort, loop
\* The user.
<1>16. ASSUME NEW f \in Files, NEW T, UserStep({f}, T) PROVE Exposed' = Exposed \cup {f}
  <2>1. CASE pc = "idle"
    BY <1>16, <2>1 DEF UserStep, run, Exposed, Guarded
  <2>2. CASE pc # "idle"
    BY <1>16, <2>2 DEF UserStep, run, Exposed, Guarded
  <2> QED BY <2>1, <2>2
<1>17. ASSUME NEW f \in Files, NEW T, NEW c \in Content \cup {Absent}, UserStep({f}, T),
              wt' = [wt EXCEPT ![f] = c], index' = index, head' = head
       PROVE  Look!Next
  <2>1. TextOf(c) \in Texts \cup {Absent}
    BY DEF Content, TextOf
  <2>2. TextsOf(wt)' = [TextsOf(wt) EXCEPT ![f] = TextOf(c)]
    BY <1>1, <1>17 DEF TextsOf
  <2> QED BY <1>16, <1>17, <2>1, <2>2 DEF Look!Next, Look!Write, Look!Expose, TextsOf
<1>18. ASSUME NEW f \in Files, NEW T, UserStep({f}, T), UNCHANGED <<wt, index, head>>
       PROVE  Look!Next
  BY <1>16, <1>18 DEF Look!Next, Look!Look, Look!Expose, Look!texts, TextsOf
<1>19. CASE User
  <2>1. ASSUME NEW f \in Files, NEW t \in Texts, Edit(f, t) PROVE Look!Next
    BY <2>1, <1>17, PlainContent DEF Edit
  <2>2. ASSUME NEW f \in Files, Delete(f) PROVE Look!Next
    BY <2>2, <1>17 DEF Delete
  <2>3. ASSUME NEW f \in Files, NEW k, UserTouch(f) \/ SetAttribute(f, k)
        PROVE  Look!Next
    BY <2>3, <1>18 DEF UserTouch, SetAttribute
  <2>4. ASSUME NEW f \in Files, UserAdd(f) PROVE Look!Next
    BY <2>4, <1>12, <1>16 DEF UserAdd
  <2>5. ASSUME NEW f \in Files, UserCheckout(f) PROVE Look!Next
    <3>1. index[f] \in Content
      BY <2>5 DEF UserCheckout, Unfresh, Tracked, TypeOK, RepoTypeOK, Slot
    <3>2. FromGit(f, index[f]) \in Content
      BY <3>1, Filters DEF TypeOK
    <3>3. \E c \in Content \cup {Absent} : wt' = [wt EXCEPT ![f] = c]
      BY <2>5, <3>2 DEF UserCheckout, Unfresh, GitCheckout
    <3> QED BY <2>5, <3>3, <1>17 DEF UserCheckout
  <2>6. CASE UserCommit
    <3>1. meddled' = meddled /\ pc' = pc /\ op' = op /\ force' = force
      BY <2>6, <1>1 DEF UserCommit, UserStep, run
    <3>2. TextsOf(head)' = TextsOf(index) /\ Exposed' = Exposed
      BY <2>6, <3>1 DEF UserCommit, TextsOf, Exposed, Guarded
    <3> QED BY <2>6, <3>2 DEF UserCommit, Look!Next, Look!Commit, TextsOf
  <2>7. ASSUME NEW f \in Files, NEW k \in KeyNames \cup {NoKey}, SetAttribute(f, k)
        PROVE  Look!Next
    BY <2>3, <2>7
  <2> QED BY <1>19, <2>1, <2>2, <2>3, <2>4, <2>5, <2>6, <2>7 DEF User
<1>20. CASE UNCHANGED vars
  BY <1>20 DEF vars, repo, run, lookVars, TextsOf, Exposed, Guarded
<1> QED BY <1>9, <1>14, <1>15, <1>19, <1>20 DEF Next

\* Looked through the encryption, GitCrypt is PlainGit: unlock and lock leave the
\* texts of every file they do not find changed behind their back as they are.
THEOREM GitCryptIsTransparent == Spec => Transparent
<1>1. IInv /\ IInv' /\ [Next]_vars =>
        [Look!Next]_<<TextsOf(wt), TextsOf(index), TextsOf(head), Exposed>>
  BY NextTransparent DEF lookVars
<1> QED BY <1>1, InitTransparent, Invariance, PTL DEF Transparent, Look!Spec, Spec

-----------------------------------------------------------------------------
(* lock and unlock.  A key is done when it is no longer queued, nor at     *)
(* hand: its key file, filters and list of files have been dealt with.     *)
AtHand == {"write", "filter", "unfilter", "undiff", "list"}
Done == {k \in given : /\ \A x \in queue : x.name # k
                       /\ pc \in AtHand => k # cur.name}

\* What makes a checkout of the files of a key right.
KeySet(k) ==
  IF op = "unlock" THEN {"smudge", "required"} \subseteq cfg[k] /\ ikey[k] \in Secrets
  ELSE "smudge" \notin cfg[k]

KeysDone ==
  Syncing /\ pc \notin {"idle", "done"} =>
    /\ \A k \in Done : KeySet(k)
    /\ pc \in {"undiff", "list"} => KeySet(cur.name)
    /\ pc = "filter" => /\ ikey[cur.name] \in Secrets
                        /\ n > 1 => "smudge" \in cfg[cur.name]

\* No key is left when the files are touched.
LoopOver ==
  Syncing /\ (pc \in {"touch", "batch", "checkout"} \/ (pc = "done" /\ exit = "ok"))
    => queue = {}

\* A file of a key that is done is listed, then touched, then in a batch, until
\* it is checked out.
Right(f) == IF op = "unlock" THEN Encrypted(index[f]) => wt[f] = DecryptOnce(index[f])
            ELSE wt[f] = index[f]
Reached(f) ==
  /\ pc \in {"key"} \cup AtHand => f \in listed
  /\ pc = "touch" => f \in listed /\ (f \in todo \/ ~fresh[f])
  /\ pc = "batch" => (f \in later /\ ~fresh[f]) \/ Right(f)
  /\ pc = "checkout" => (f \in later \cup todo /\ ~fresh[f]) \/ Right(f)
  /\ pc = "done" => Right(f)
FilesReached ==
  Syncing /\ pc # "idle" /\ (pc = "done" => exit = "ok") =>
    \A f \in Tracked \ meddled : attr[f] \in Done => Reached(f)

\* Only files still to be checked out are not fresh.
OnlyTouched ==
  Syncing /\ ~force /\ meddled = {} /\ pc # "idle" /\ (pc = "done" => exit = "ok") =>
    /\ index = head
    /\ \A f \in Unfresh : \/ pc = "touch" /\ f \in listed
                          \/ pc = "batch" /\ f \in later
                          \/ pc = "checkout" /\ f \in later \cup todo
    /\ pc = "touch" => todo \subseteq listed

\* A blob that status -f has to fix is queued, at hand, or an error.
FixesKept ==
  op = "fix" =>
    /\ pc \in {"fix", "add", "verify"} =>
         \A f \in Tracked \ excused :
           attr[f] # NoKey /\ ~Encrypted(index[f]) =>
             f \in todo \/ (pc \in {"add", "verify"} /\ f \in listed) \/ errors
    /\ pc = "fix" => listed = {}
    /\ pc = "done" /\ exit = "ok" => listed = {} /\ todo = {}

\* init writes over no key; unlock over those it was given.
Overwrites ==
  /\ op = "init" /\ pc = "key" => \A x \in queue : ikey[x.name] = NoFile
  /\ op = "unlock" => \A x \in queue : x.name \in given
  /\ pc = "write" => ikey[cur.name] = Broken

SInv == /\ KeysDone /\ LoopOver /\ FilesReached /\ OnlyTouched /\ FixesKept
        /\ FixComplete /\ Overwrites

-----------------------------------------------------------------------------
\* While a command runs, the user changes nothing of its own state, and of the
\* files those the command knows the user meddled with.
LEMMA UserLeaves ==
  ASSUME TypeOK, User
  PROVE  /\ UNCHANGED <<cfg, ikey, store, loop, run>>
         /\ pc = "idle" => meddled' = meddled
         /\ pc # "idle" => /\ meddled \subseteq meddled'
                           /\ \A f \in Files \ meddled' :
                                /\ wt'[f] = wt[f] /\ index'[f] = index[f]
                                /\ fresh'[f] = fresh[f] /\ attr'[f] = attr[f]
                           /\ head' = head \/ index # head
<1> DEFINE P == /\ UNCHANGED <<cfg, ikey, store, loop, run>>
                /\ pc = "idle" => meddled' = meddled
                /\ pc # "idle" => /\ meddled \subseteq meddled'
                                  /\ \A f \in Files \ meddled' :
                                       /\ wt'[f] = wt[f] /\ index'[f] = index[f]
                                       /\ fresh'[f] = fresh[f] /\ attr'[f] = attr[f]
                                  /\ head' = head \/ index # head
<1> USE DEF TypeOK, RepoTypeOK, Slot, UserStep
<1>1. ASSUME NEW f \in Files, NEW t \in Texts, Edit(f, t) PROVE P
  BY <1>1 DEF Edit
<1>2. ASSUME NEW f \in Files, Delete(f) \/ UserTouch(f) PROVE P
  BY <1>2 DEF Delete, UserTouch
<1>3. ASSUME NEW f \in Files, UserAdd(f) PROVE P
  <2>1. \A g \in Files \ {f} : index'[g] = index[g] /\ fresh'[g] = fresh[g]
    BY <1>3 DEF UserAdd, GitAdd
  <2> QED BY <1>3, <2>1 DEF UserAdd
<1>4. ASSUME NEW f \in Files, UserCheckout(f) PROVE P
  <2>1. \A g \in Files \ {f} : wt'[g] = wt[g] /\ fresh'[g] = fresh[g]
    BY <1>4 DEF UserCheckout, GitCheckout
  <2> QED BY <1>4, <2>1 DEF UserCheckout
<1>5. ASSUME NEW f \in Files, NEW k, SetAttribute(f, k) PROVE P
  BY <1>5 DEF SetAttribute
<1>6. CASE UserCommit
  BY <1>6 DEF UserCommit
<1> QED BY <1>1, <1>2, <1>3, <1>4, <1>5, <1>6 DEF User

\* Of the files status -f answers for, the user stages, or changes the attribute
\* of, only those it has still to come to.
LEMMA UserExcused ==
  ASSUME TypeOK, User
  PROVE  /\ UNCHANGED <<loop, run>>
         /\ op = "fix" => /\ excused \subseteq excused'
                          /\ \A f \in Files \ (excused' \cup todo \cup listed) :
                               index'[f] = index[f] /\ attr'[f] = attr[f]
<1> DEFINE P == /\ UNCHANGED <<loop, run>>
                /\ op = "fix" => /\ excused \subseteq excused'
                                 /\ \A f \in Files \ (excused' \cup todo \cup listed) :
                                      index'[f] = index[f] /\ attr'[f] = attr[f]
<1> USE DEF TypeOK, RepoTypeOK, Slot, UserStep
<1>1. ASSUME NEW f \in Files, \/ Delete(f) \/ UserTouch(f) \/ UserCheckout(f)
                              \/ \E t \in Texts : Edit(f, t) PROVE P
  BY <1>1 DEF Edit, Delete, UserTouch, UserCheckout
<1>2. ASSUME NEW f \in Files, UserAdd(f) PROVE P
  <2>1. \A g \in Files \ {f} : index'[g] = index[g]
    BY <1>2 DEF UserAdd, GitAdd
  <2> QED BY <1>2, <2>1 DEF UserAdd
<1>3. ASSUME NEW f \in Files, NEW k, SetAttribute(f, k) PROVE P
  BY <1>3 DEF SetAttribute
<1>4. CASE UserCommit
  BY <1>4 DEF UserCommit
<1> QED BY <1>1, <1>2, <1>3, <1>4 DEF User

-----------------------------------------------------------------------------
(* status -f                                                               *)

LEMMA FixesStep ==
  ASSUME TypeOK, Shape, FixesKept, FixComplete, [Next]_vars
  PROVE  FixesKept' /\ FixComplete'
<1> DEFINE P == FixesKept' /\ FixComplete'
<1> USE DEF FixesKept, FixComplete
<1>1. ASSUME op' # "fix" \/ (pc' = "done" /\ exit' # "ok") PROVE P
  BY <1>1
<1>2. ASSUME UNCHANGED <<op, pc, exit, attr, index, excused, todo, listed, errors>> PROVE P
  BY <1>2 DEF Tracked
<1>3. CASE UNCHANGED vars
  BY <1>3, <1>2 DEF vars, repo, loop, run
<1>4. ASSUME NEW named, StartFix(named) PROVE P
  BY <1>4 DEF StartFix, Start, Proceed, repo, Tracked, Shape, TypeOK
<1>5. CASE Begin
  <2>1. ASSUME NEW k, RefuseInit(k) \/ (\E s \in Secrets : StartInit(k, s)) PROVE P
    BY <2>1, <1>1 DEF RefuseInit, StartInit, Start
  <2>2. ASSUME NEW xs, NEW S, StartUnlock(xs, S) \/ RefuseUnlock(xs, S) PROVE P
    BY <2>2, <1>1 DEF StartUnlock, RefuseUnlock, Start
  <2>3. ASSUME NEW o \in {"lock", "lock --all"}, NEW k, NEW frc, NEW S,
               StartLock(o, k, frc, S) \/ RefuseLock(o, k, frc, S) PROVE P
    <3>1. o # "fix"
      OBVIOUS
    <3> QED BY <2>3, <3>1, <1>1 DEF StartLock, RefuseLock, Start
  <2>4. ASSUME NEW x, ExportKey(x) \/ Keygen(x) PROVE P
    BY <2>4, <1>2 DEF ExportKey, Keygen, repo, loop, run
  <2> QED BY <1>4, <1>5, <2>1, <2>2, <2>3, <2>4 DEF Begin
<1>6. ASSUME pc \notin {"idle", "fix", "add", "verify", "done"}, op' = op PROVE P
  BY <1>6, <1>1 DEF Shape, Syncing, Locking, TypeOK, PCs
<1>7. ASSUME NEW x, CreateKeyFile(x) \/ RemoveKeyFile(x) PROVE P
  BY <1>7, <1>6 DEF CreateKeyFile, RemoveKeyFile
<1>8. CASE \/ WriteKeyFile \/ ConfigureFilter \/ ListFiles \/ RemoveFilterSection
           \/ RemoveDiffSection \/ AfterKeys \/ BeginCheckout \/ FinishCheckout
           \/ FinishBatch
  BY <1>8, <1>6 DEF WriteKeyFile, ConfigureFilter, ListFiles, RemoveFilterSection,
     RemoveDiffSection, AfterKeys, BeginCheckout, FinishCheckout, FinishBatch
<1>9. ASSUME NEW b, BeginBatch(b) PROVE P
  BY <1>9, <1>6 DEF BeginBatch
<1>10. ASSUME NEW f, Touch(f) \/ CheckoutFile(f) \/ CheckoutDies(f) PROVE P
  BY <1>10, <1>6 DEF Touch, CheckoutFile, CheckoutDies
<1>11. ASSUME NEW f \in Files, SkipFix(f) PROVE P
  BY <1>11 DEF SkipFix, repo, run, Tracked, TypeOK
<1>12. ASSUME NEW f \in Files, TouchFix(f) PROVE P
  BY <1>12 DEF TouchFix, Proceed, Tracked
<1>13. CASE AddFix
  <2>1. PICK f \in listed : GitAdd(f)
    BY <1>13 DEF AddFix
  <2>2. \A g \in Files \ {f} : index'[g] = index[g]
    BY <2>1 DEF GitAdd, TypeOK, RepoTypeOK, Slot
  <2>3. \A g \in Tracked' \ excused' : g = f \/ (g \in Tracked \ excused /\ index'[g] = index[g])
    BY <1>13, <2>2 DEF AddFix, Tracked
  <2>4. op' = op /\ pc = "add" /\ pc' = "verify" /\ attr' = attr /\ UNCHANGED <<loop, excused>>
    BY <1>13 DEF AddFix, Proceed
  <2> QED BY <2>1, <2>3, <2>4 DEF loop, Shape
<1>14. CASE VerifyFix
  BY <1>14 DEF VerifyFix, Proceed, repo, Tracked, Shape, TypeOK
<1>15. CASE FinishFix
  BY <1>15 DEF FinishFix, Stop, repo, loop, Tracked, Shape
<1>16. CASE AddFixDies \/ Abort \/ Return
  BY <1>16, <1>1 DEF AddFixDies, Abort, Return, Stop
<1>17. CASE User
  <2>1. /\ UNCHANGED <<loop, run>>
        /\ op = "fix" => /\ excused \subseteq excused'
                         /\ \A f \in Files \ (excused' \cup todo \cup listed) :
                              index'[f] = index[f] /\ attr'[f] = attr[f]
    BY <1>17, UserExcused
  <2> QED BY <2>1 DEF loop, run, Tracked
<1>18. CASE Advance
  BY <1>7, <1>8, <1>9, <1>10, <1>11, <1>12, <1>13, <1>14, <1>15, <1>16, <1>18 DEF Advance
<1> QED BY <1>3, <1>5, <1>16, <1>17, <1>18 DEF Next
-----------------------------------------------------------------------------
(* The loop over keys.                                                     *)

LEMMA OverwritesStep == ASSUME TypeOK, Shape, Overwrites, [Next]_vars PROVE Overwrites'
<1> USE DEF Overwrites
<1>1. ASSUME UNCHANGED <<op, queue, given, ikey>>, pc' = pc \/ pc' \notin {"key", "write"},
             cur' = cur \/ pc' # "write"
      PROVE  Overwrites'
  BY <1>1
<1>2. CASE UNCHANGED vars
  BY <1>2, <1>1 DEF vars, repo, loop, run
<1>3. ASSUME NEW k \in KeyNames, RefuseInit(k) \/ \E s \in Secrets : StartInit(k, s)
      PROVE  Overwrites'
  <2>1. CASE RefuseInit(k)
    BY <2>1 DEF RefuseInit, Start, Stop
  <2>2. ASSUME NEW s \in Secrets, StartInit(k, s) PROVE Overwrites'
    BY <2>2 DEF StartInit, Start, Proceed, repo
  <2> QED BY <1>3, <2>1, <2>2
<1>4. ASSUME NEW xs, NEW S, StartUnlock(xs, S) PROVE Overwrites'
  BY <1>4 DEF StartUnlock, Start, Proceed
<1>5. ASSUME NEW xs, NEW S, RefuseUnlock(xs, S) PROVE Overwrites'
  BY <1>5 DEF RefuseUnlock, Start, Shape
<1>6. ASSUME NEW o \in {"lock", "lock --all"}, NEW k, NEW frc, NEW S,
             StartLock(o, k, frc, S) \/ RefuseLock(o, k, frc, S) PROVE Overwrites'
  <2>1. o # "init" /\ o # "unlock"
    OBVIOUS
  <2> QED BY <1>6, <2>1 DEF StartLock, RefuseLock, Start, Proceed
<1>7. CASE \E named \in SUBSET Files : StartFix(named)
  BY <1>7 DEF StartFix, Start, Proceed
<1>8. ASSUME NEW x, ExportKey(x) \/ Keygen(x) PROVE Overwrites'
  BY <1>8, <1>1 DEF ExportKey, Keygen, repo, loop, run
<1>9. CASE Begin
  BY <1>3, <1>4, <1>5, <1>6, <1>7, <1>8, <1>9 DEF Begin
<1>10. ASSUME NEW x \in queue, CreateKeyFile(x) PROVE Overwrites'
  <2>1. x.name \in KeyNames
    BY DEF TypeOK, Jobs
  <2> QED BY <1>10, <2>1 DEF CreateKeyFile, Proceed, TypeOK, RepoTypeOK
<1>11. ASSUME NEW x \in queue, RemoveKeyFile(x) PROVE Overwrites'
  BY <1>11 DEF RemoveKeyFile, Proceed, Locking
<1>12. CASE WriteKeyFile
  BY <1>12 DEF WriteKeyFile, Proceed, Shape
<1>13. CASE ConfigureFilter \/ RemoveFilterSection \/ RemoveDiffSection
  BY <1>13, <1>1 DEF ConfigureFilter, RemoveFilterSection, RemoveDiffSection, Proceed, Stop, loop
<1>14. CASE ListFiles
  BY <1>14 DEF ListFiles, Proceed, Shape, Syncing, repo
<1>15. CASE \/ AfterKeys \/ BeginCheckout \/ FinishCheckout \/ FinishBatch
            \/ AddFix \/ AddFixDies \/ VerifyFix \/ FinishFix \/ Abort
  BY <1>15, <1>1 DEF AfterKeys, BeginCheckout, FinishCheckout, FinishBatch, AddFix, AddFixDies,
     VerifyFix, FinishFix, Abort, Proceed, Stop, repo, loop
<1>16. ASSUME NEW f, \/ Touch(f) \/ CheckoutFile(f) \/ CheckoutDies(f) \/ SkipFix(f)
                     \/ TouchFix(f) \/ BeginBatch(f)
       PROVE  Overwrites'
  BY <1>16, <1>1 DEF Touch, CheckoutFile, CheckoutDies, SkipFix, TouchFix, BeginBatch,
     Proceed, Stop, repo, loop, run
<1>17. CASE Return
  BY <1>17 DEF Return
<1>18. CASE User
  BY <1>18, <1>1, UserLeaves DEF loop, run
<1>19. CASE Advance
  BY <1>10, <1>11, <1>12, <1>13, <1>14, <1>15, <1>16, <1>17, <1>19 DEF Advance
<1> QED BY <1>2, <1>9, <1>15, <1>18, <1>19 DEF Next

LEMMA LoopStep == ASSUME TypeOK, Shape, LoopOver, [Next]_vars PROVE LoopOver'
<1> USE DEF LoopOver, Syncing
<1> DEFINE over == pc \in {"touch", "batch", "checkout"} \/ (pc = "done" /\ exit = "ok")
<1>1. ASSUME UNCHANGED <<op, queue>>, over' => over PROVE LoopOver'
  BY <1>1
<1>2. CASE UNCHANGED vars
  BY <1>2, <1>1 DEF vars, loop, run
<1>3. ASSUME ~over' PROVE LoopOver'
  BY <1>3
<1>4. CASE Begin
  <2>1. ASSUME NEW k, RefuseInit(k) PROVE LoopOver'
    BY <2>1 DEF RefuseInit, Start
  <2>2. ASSUME NEW k, NEW s, StartInit(k, s) PROVE LoopOver'
    BY <2>2 DEF StartInit, Start
  <2>3. ASSUME NEW xs, NEW S, StartUnlock(xs, S) PROVE LoopOver'
    BY <2>3, <1>3 DEF StartUnlock, Proceed
  <2>4. ASSUME NEW xs, NEW S, RefuseUnlock(xs, S) PROVE LoopOver'
    <3>1. exit' \in {"refused", "failed"} /\ pc' = "done"
      BY <2>4, StatusStopsExit DEF RefuseUnlock
    <3> QED BY <3>1, <1>3
  <2>5. ASSUME NEW o, NEW k, NEW frc, NEW S, StartLock(o, k, frc, S) PROVE LoopOver'
    BY <2>5, <1>3 DEF StartLock, Proceed
  <2>6. ASSUME NEW o, NEW k, NEW frc, NEW S, RefuseLock(o, k, frc, S) PROVE LoopOver'
    <3>1. exit' \in {"refused", "failed"} /\ pc' = "done"
      BY <2>6, StatusStopsExit DEF RefuseLock
    <3> QED BY <3>1, <1>3
  <2>7. CASE \E named \in SUBSET Files : StartFix(named)
    BY <2>7, <1>3 DEF StartFix, Proceed
  <2>8. ASSUME NEW x, ExportKey(x) \/ Keygen(x) PROVE LoopOver'
    BY <2>8, <1>1 DEF ExportKey, Keygen, loop, run
  <2> QED BY <1>4, <2>1, <2>2, <2>3, <2>4, <2>5, <2>6, <2>7, <2>8 DEF Begin
<1>5. ASSUME NEW x, CreateKeyFile(x) \/ RemoveKeyFile(x) PROVE LoopOver'
  BY <1>5, <1>3 DEF CreateKeyFile, RemoveKeyFile, Proceed
<1>6. CASE \/ WriteKeyFile \/ ListFiles \/ RemoveFilterSection \/ RemoveDiffSection
           \/ AddFix \/ VerifyFix \/ Abort \/ AddFixDies \/ Return
  BY <1>6, <1>3 DEF WriteKeyFile, ListFiles, RemoveFilterSection, RemoveDiffSection,
     AddFix, VerifyFix, Abort, AddFixDies, Return, Proceed, Stop
<1>7. CASE ConfigureFilter
  BY <1>7 DEF ConfigureFilter, Proceed, Stop
<1>8. CASE AfterKeys
  BY <1>8 DEF AfterKeys
<1>9. CASE BeginCheckout \/ FinishCheckout \/ FinishBatch
  BY <1>9, <1>1 DEF BeginCheckout, FinishCheckout, FinishBatch, loop
<1>10. CASE FinishFix
  BY <1>10 DEF FinishFix, Shape
<1>11. ASSUME NEW f, Touch(f) \/ CheckoutFile(f) \/ BeginBatch(f) PROVE LoopOver'
  BY <1>11, <1>1 DEF Touch, CheckoutFile, BeginBatch, Proceed, Stop
<1>12. ASSUME NEW f, SkipFix(f) \/ TouchFix(f) \/ CheckoutDies(f) PROVE LoopOver'
  BY <1>12, <1>3 DEF SkipFix, TouchFix, CheckoutDies, Proceed, Stop, run
<1>13. CASE User
  BY <1>13, <1>1, UserLeaves DEF loop, run
<1>14. CASE Advance
  BY <1>5, <1>6, <1>7, <1>8, <1>9, <1>10, <1>11, <1>12, <1>14 DEF Advance
<1> QED BY <1>2, <1>4, <1>6, <1>13, <1>14 DEF Next
\* What of the repository the loop over keys has set: KeysDone, step by step.
LEMMA KeysStep ==
  ASSUME TypeOK, Shape, Configured, Overwrites, KeysDone, [Next]_vars PROVE KeysDone'
<1> USE DEF KeysDone
<1>1. ASSUME UNCHANGED <<op, given, queue, cur, n, cfg, ikey>>,
             pc' = pc \/ (pc \notin AtHand \cup {"idle", "done"} /\ pc' \notin AtHand)
      PROVE  KeysDone'
  BY <1>1 DEF Done, KeySet, AtHand, Syncing
<1>2. ASSUME pc' \in {"idle", "done"} \/ op' \in {"none", "init", "fix"} PROVE KeysDone'
  BY <1>2 DEF Syncing
<1>3. CASE UNCHANGED vars
  BY <1>3, <1>1 DEF vars, repo, loop, run
<1>4. ASSUME pc' = "key", queue' # {} => \A k \in given' : \E x \in queue' : x.name = k,
             queue' = {} => given' = {}
      PROVE  KeysDone'
  BY <1>4 DEF Done, AtHand
<1>5. CASE Begin
  <2>1. ASSUME NEW k, RefuseInit(k) \/ (\E s \in Secrets : StartInit(k, s)) PROVE KeysDone'
    BY <2>1, <1>2 DEF RefuseInit, StartInit, Start
  <2>2. ASSUME NEW xs, NEW S, StartUnlock(xs, S) PROVE KeysDone'
    BY <2>2, <1>4 DEF StartUnlock, Start, Proceed
  <2>3. ASSUME NEW xs, NEW S, RefuseUnlock(xs, S) PROVE KeysDone'
    BY <2>3, <1>2 DEF RefuseUnlock
  <2>4. ASSUME NEW o, NEW k, NEW frc, NEW S, StartLock(o, k, frc, S) PROVE KeysDone'
    <3>1. \A j \in given' : \E x \in queue' : x.name = j
      <4>1. given' = LockTargets(o, k) /\ queue' = {Named(j) : j \in LockTargets(o, k)}
        BY <2>4 DEF StartLock, Start
      <4>2. \A j \in given' : Named(j) \in queue' /\ Named(j).name = j
        BY <4>1 DEF Named
      <4> QED BY <4>2
    <3>2. queue' = {} => given' = {}
      BY <3>1
    <3> QED BY <2>4, <3>1, <3>2, <1>4 DEF StartLock, Proceed
  <2>5. ASSUME NEW o, NEW k, NEW frc, NEW S, RefuseLock(o, k, frc, S) PROVE KeysDone'
    BY <2>5, <1>2 DEF RefuseLock
  <2>6. CASE \E named \in SUBSET Files : StartFix(named)
    BY <2>6, <1>2 DEF StartFix, Start
  <2>7. ASSUME NEW x, ExportKey(x) \/ Keygen(x) PROVE KeysDone'
    BY <2>7, <1>1 DEF ExportKey, Keygen, repo, loop, run
  <2> QED BY <1>5, <2>1, <2>2, <2>3, <2>4, <2>5, <2>6, <2>7 DEF Begin
<1>6. ASSUME NEW x \in queue, CreateKeyFile(x) PROVE KeysDone'
  <2>1. /\ pc = "key" /\ pc' = "write" /\ cur' = x /\ queue' = queue \ {x}
        /\ ikey' = [ikey EXCEPT ![x.name] = Broken] /\ UNCHANGED <<cfg, op, given>>
    BY <1>6 DEF CreateKeyFile, Proceed
  <2>2. \A k \in Done' : k \in Done /\ k # x.name
    BY <2>1 DEF Done, AtHand
  <2>3. \A k \in KeyNames : k # x.name => ikey'[k] = ikey[k]
    BY <2>1 DEF TypeOK, RepoTypeOK
  <2>4. Done' \subseteq KeyNames
    BY <2>1 DEF Done, TypeOK
  <2> QED BY <2>1, <2>2, <2>3, <2>4 DEF KeySet, Syncing
<1>7. ASSUME NEW x \in queue, RemoveKeyFile(x) PROVE KeysDone'
  <2>1. /\ pc = "key" /\ pc' = "unfilter" /\ cur' = x /\ queue' = queue \ {x}
        /\ UNCHANGED <<cfg, op, given>> /\ op # "unlock"
    BY <1>7 DEF RemoveKeyFile, Proceed, Locking
  <2>2. \A k \in Done' : k \in Done
    BY <2>1 DEF Done, AtHand
  <2> QED BY <2>1, <2>2 DEF KeySet, Syncing
<1>8. CASE WriteKeyFile
  <2>1. /\ pc = "write" /\ pc' = "filter" /\ n' = 1 /\ UNCHANGED <<cfg, op, given, queue, cur>>
        /\ ikey' = [ikey EXCEPT ![cur.name] = cur.secret]
    BY <1>8 DEF WriteKeyFile, Proceed
  <2>2. cur.name \in KeyNames /\ cur.secret \in Secrets
    BY <2>1 DEF Shape, KeyFiles
  <2>3. ikey'[cur.name] \in Secrets /\ \A k \in KeyNames \ {cur.name} : ikey'[k] = ikey[k]
    BY <2>1, <2>2 DEF TypeOK, RepoTypeOK
  <2>4. Done' = Done /\ Done \subseteq KeyNames \ {cur.name}
    BY <2>1 DEF Done, AtHand, TypeOK
  <2>5. Syncing' => \A k \in Done' : KeySet(k)'
    BY <2>1, <2>3, <2>4 DEF KeySet, Syncing
  <2>6. pc' = "filter" /\ n' = 1 /\ ikey'[cur'.name] \in Secrets
    BY <2>1, <2>3
  <2> QED BY <2>5, <2>6
<1>9. CASE ConfigureFilter
  <2>1. /\ pc = "filter" /\ UNCHANGED <<op, given, queue, cur, ikey>>
        /\ cfg' = [cfg EXCEPT ![cur.name] = @ \cup {Drivers[n]}]
        /\ n < 4 => n' = n + 1 /\ pc' = "filter"
        /\ ~(n < 4) => pc' \in {"done", "list"}
    BY <1>9 DEF ConfigureFilter, Proceed, Stop
  <2>2. cur.name \in KeyNames /\ n \in 1..4 /\ op \in {"init", "unlock"}
    BY <2>1 DEF Shape, Jobs
  <2>3. \A k \in KeyNames : cfg[k] \subseteq cfg'[k]
    BY <2>1, <2>2 DEF TypeOK, RepoTypeOK
  <2>4. Drivers[n] \in cfg'[cur.name]
    BY <2>1, <2>2 DEF TypeOK, RepoTypeOK
  <2>5. Drivers[1] = "smudge"
    BY DEF Drivers
  <2>6. n = 1 \/ n > 1
    BY <2>2
  <2>7. op = "unlock" => "smudge" \in cfg'[cur.name]
    BY <2>1, <2>2, <2>3, <2>4, <2>5, <2>6 DEF Syncing
  <2>8. n > 3 => "required" \in cfg'[cur.name]
    BY <2>1, <2>2, <2>3 DEF Configured
  <2>9. ~(n < 4) => n > 3
    BY <2>2
  <2>10. pc' \in {"list", "filter"} => Done' = Done
    BY <2>1 DEF Done, AtHand
  <2>11. Done \subseteq KeyNames
    BY DEF Done, TypeOK
  <2> QED BY <2>1, <2>2, <2>3, <2>7, <2>8, <2>9, <2>10, <2>11 DEF KeySet, Syncing
<1>10. CASE RemoveFilterSection
  <2>1. /\ pc = "unfilter" /\ pc' = "undiff" /\ UNCHANGED <<op, given, queue, cur, ikey>>
        /\ cfg' = [cfg EXCEPT ![cur.name] = @ \ FilterSection]
    BY <1>10 DEF RemoveFilterSection, Proceed, loop
  <2>2. cur.name \in KeyNames /\ op # "unlock"
    BY <2>1 DEF Shape, Jobs, Locking
  <2>3. /\ \A k \in KeyNames : cfg'[k] \subseteq cfg[k]
        /\ "smudge" \notin cfg'[cur.name]
    BY <2>1, <2>2 DEF TypeOK, RepoTypeOK, FilterSection
  <2>4. Done' = Done /\ Done \subseteq KeyNames
    BY <2>1 DEF Done, AtHand, TypeOK
  <2> QED BY <2>1, <2>2, <2>3, <2>4 DEF KeySet, Syncing
<1>11. CASE RemoveDiffSection
  <2>1. /\ pc = "undiff" /\ pc' = "list" /\ UNCHANGED <<op, given, queue, cur, ikey>>
        /\ cfg' = [cfg EXCEPT ![cur.name] = @ \ {"textconv"}]
    BY <1>11 DEF RemoveDiffSection, Proceed, loop
  <2>2. cur.name \in KeyNames
    BY <1>11 DEF RemoveDiffSection, Shape, Jobs
  <2>3. /\ \A k \in KeyNames : cfg'[k] = cfg[k] \ (IF k = cur.name THEN {"textconv"} ELSE {})
    BY <2>1, <2>2 DEF TypeOK, RepoTypeOK
  <2>4. Done' = Done /\ Done \subseteq KeyNames
    BY <2>1 DEF Done, AtHand, TypeOK
  <2>5. op # "unlock"
    BY <2>1 DEF Shape, Locking
  <2> QED BY <2>1, <2>2, <2>3, <2>4, <2>5 DEF KeySet, Syncing
<1>12. CASE ListFiles
  <2>1. pc = "list" /\ pc' = "key" /\ UNCHANGED <<op, given, queue, cur, n, cfg, ikey>>
    BY <1>12 DEF ListFiles, Proceed, repo
  <2>2. Done' \subseteq Done \cup {cur.name}
    BY <2>1 DEF Done, AtHand
  <2> QED BY <2>1, <2>2 DEF KeySet, Syncing
<1>13. CASE AfterKeys \/ BeginCheckout \/ FinishBatch \/ AddFix \/ VerifyFix
  BY <1>13, <1>1 DEF AfterKeys, BeginCheckout, FinishBatch, AddFix, VerifyFix, Proceed,
     AtHand, repo, loop
<1>14. CASE FinishCheckout \/ AddFixDies \/ FinishFix \/ Abort \/ Return
  BY <1>14, <1>2 DEF FinishCheckout, AddFixDies, FinishFix, Abort, Return, Stop
<1>15. ASSUME NEW f, Touch(f) \/ CheckoutFile(f) \/ SkipFix(f) \/ TouchFix(f) PROVE KeysDone'
  BY <1>15, <1>1 DEF Touch, CheckoutFile, SkipFix, TouchFix, Proceed, AtHand, repo, run
<1>16. ASSUME NEW f, CheckoutDies(f) PROVE KeysDone'
  BY <1>16, <1>2 DEF CheckoutDies, Stop
<1>17. ASSUME NEW b, BeginBatch(b) PROVE KeysDone'
  BY <1>17, <1>1, <1>2 DEF BeginBatch, Proceed, Stop, AtHand, repo
<1>18. CASE User
  BY <1>18, <1>1, UserLeaves DEF loop, run
<1>19. CASE Advance
  BY <1>6, <1>7, <1>8, <1>9, <1>10, <1>11, <1>12, <1>13, <1>14, <1>15, <1>16, <1>17, <1>19
     DEF Advance
<1> QED BY <1>3, <1>5, <1>14, <1>18, <1>19 DEF Next
-----------------------------------------------------------------------------
(* The files of the keys.                                                  *)

LEMMA FilesStep ==
  ASSUME TypeOK, Shape, KeysDone, LoopOver, FilesReached, [Next]_vars PROVE FilesReached'
<1> USE DEF FilesReached
<1>1. ASSUME UNCHANGED <<op, exit, pc, given, queue, cur, listed, todo, later>>, pc # "idle",
             meddled \subseteq meddled',
             \A f \in Files \ meddled' : /\ wt'[f] = wt[f] /\ index'[f] = index[f]
                                         /\ fresh'[f] = fresh[f] /\ attr'[f] = attr[f]
      PROVE  FilesReached'
  <2> SUFFICES ASSUME Syncing', (pc = "done" => exit = "ok")', NEW f \in (Tracked \ meddled)',
                      (attr[f] \in Done)'
               PROVE  Reached(f)'
    OBVIOUS
  <2>1. Syncing /\ (pc = "done" => exit = "ok") /\ f \in Tracked \ meddled /\ attr[f] \in Done
    BY <1>1 DEF Syncing, Done, Tracked
  <2>2. Reached(f)
    BY <1>1, <2>1
  <2>3. f \in Files \ meddled'
    BY DEF Tracked
  <2> QED BY <1>1, <2>2, <2>3 DEF Reached, Right
<1>2. ASSUME pc' = "idle" \/ (pc' = "done" /\ exit' # "ok") \/ op' \in {"none", "init", "fix"}
      PROVE  FilesReached'
  BY <1>2 DEF Syncing
<1>3. ASSUME pc = "idle", UNCHANGED <<pc>> PROVE FilesReached'
  BY <1>3
<1>4. CASE UNCHANGED vars
  BY <1>4, <1>1, <1>3 DEF vars, repo, loop, run
<1>5. ASSUME Done' = {} PROVE FilesReached'
  BY <1>5
<1>6. CASE Begin
  <2>1. ASSUME NEW k, RefuseInit(k) \/ (\E s \in Secrets : StartInit(k, s)) PROVE FilesReached'
    BY <2>1, <1>2 DEF RefuseInit, StartInit, Start
  <2>2. ASSUME NEW xs, NEW S, StartUnlock(xs, S) PROVE FilesReached'
    BY <2>2, <1>5 DEF StartUnlock, Start, Done
  <2>3. ASSUME NEW xs, NEW S, RefuseUnlock(xs, S) PROVE FilesReached'
    <3>1. exit' \in {"refused", "failed"} /\ pc' = "done"
      BY <2>3, StatusStopsExit DEF RefuseUnlock
    <3> QED BY <3>1, <1>2
  <2>4. ASSUME NEW o, NEW k, NEW frc, NEW S, StartLock(o, k, frc, S) PROVE FilesReached'
    <3>1. given' = LockTargets(o, k) /\ queue' = {Named(j) : j \in LockTargets(o, k)}
      BY <2>4 DEF StartLock, Start
    <3>2. \A j \in given' : Named(j) \in queue' /\ Named(j).name = j
      BY <3>1 DEF Named
    <3> QED BY <3>2, <1>5 DEF Done
  <2>5. ASSUME NEW o, NEW k, NEW frc, NEW S, RefuseLock(o, k, frc, S) PROVE FilesReached'
    <3>1. exit' \in {"refused", "failed"} /\ pc' = "done"
      BY <2>5, StatusStopsExit DEF RefuseLock
    <3> QED BY <3>1, <1>2
  <2>6. CASE \E named \in SUBSET Files : StartFix(named)
    BY <2>6, <1>2 DEF StartFix, Start
  <2>7. ASSUME NEW x, ExportKey(x) \/ Keygen(x) PROVE FilesReached'
    BY <2>7, <1>3 DEF ExportKey, Keygen, run
  <2> QED BY <1>6, <2>1, <2>2, <2>3, <2>4, <2>5, <2>6, <2>7 DEF Begin
\* The steps of the loop over keys.
<1>7. ASSUME UNCHANGED <<op, listed, attr, index, meddled>>, Done' \subseteq Done,
             pc \in {"key"} \cup AtHand, pc' \in {"key"} \cup AtHand
      PROVE  FilesReached'
  <2> SUFFICES ASSUME Syncing', NEW f \in (Tracked \ meddled)', (attr[f] \in Done)'
               PROVE  f \in listed'
    BY <1>7 DEF Reached, AtHand
  <2>1. Syncing /\ f \in Tracked \ meddled /\ attr[f] \in Done
    BY <1>7 DEF Syncing, Tracked
  <2>2. Reached(f)
    BY <1>7, <2>1 DEF AtHand
  <2> QED BY <1>7, <2>2 DEF Reached
<1>8. ASSUME NEW x \in queue, CreateKeyFile(x) \/ RemoveKeyFile(x) PROVE FilesReached'
  <2>1. /\ pc = "key" /\ pc' \in AtHand /\ cur' = x /\ queue' = queue \ {x} /\ given' = given
    BY <1>8 DEF CreateKeyFile, RemoveKeyFile, Proceed, AtHand
  <2>2. Done' \subseteq Done
    BY <2>1 DEF Done, AtHand
  <2> QED BY <1>8, <2>1, <2>2, <1>7 DEF CreateKeyFile, RemoveKeyFile
<1>9. CASE WriteKeyFile \/ RemoveFilterSection \/ RemoveDiffSection
  <2>1. pc \in AtHand /\ pc' \in AtHand /\ UNCHANGED <<given, queue, cur>>
    BY <1>9 DEF WriteKeyFile, RemoveFilterSection, RemoveDiffSection, Proceed, loop, AtHand
  <2>2. Done' \subseteq Done
    BY <2>1 DEF Done
  <2> QED BY <1>9, <2>1, <2>2, <1>7 DEF WriteKeyFile, RemoveFilterSection, RemoveDiffSection, loop
<1>10. CASE ConfigureFilter
  <2>1. CASE op = "init"
    BY <1>10, <2>1, <1>2 DEF ConfigureFilter
  <2>2. CASE op # "init"
    <3>1. pc \in AtHand /\ pc' \in AtHand /\ UNCHANGED <<given, queue, cur>>
      BY <1>10, <2>2 DEF ConfigureFilter, Proceed, AtHand
    <3>2. Done' \subseteq Done
      BY <3>1 DEF Done
    <3> QED BY <1>10, <3>1, <3>2, <1>7 DEF ConfigureFilter
  <2> QED BY <2>1, <2>2
<1>11. CASE ListFiles
  <2>1. /\ pc = "list" /\ pc' = "key" /\ UNCHANGED <<op, given, queue, cur, index, attr, meddled>>
        /\ listed' = listed \cup {f \in Tracked : attr[f] = cur.name}
    BY <1>11 DEF ListFiles, Proceed, repo
  <2>2. Done' \subseteq Done \cup {cur.name}
    BY <2>1 DEF Done, AtHand
  <2> SUFFICES ASSUME Syncing', NEW f \in (Tracked \ meddled)', (attr[f] \in Done)'
               PROVE  f \in listed'
    BY <2>1 DEF Reached, AtHand
  <2>3. f \in Tracked \ meddled /\ Syncing
    BY <2>1 DEF Tracked, Syncing
  <2>4. CASE attr[f] = cur.name
    BY <2>1, <2>3, <2>4
  <2>5. CASE attr[f] # cur.name
    <3>1. attr[f] \in Done
      BY <2>1, <2>2, <2>5
    <3>2. Reached(f)
      BY <2>1, <2>3, <3>1
    <3> QED BY <2>1, <3>2 DEF Reached, AtHand
  <2> QED BY <2>4, <2>5
<1>12. CASE AfterKeys
  <2>1. /\ pc = "key" /\ pc' = "touch" /\ todo' = listed
        /\ UNCHANGED <<op, given, queue, cur, index, attr, meddled, listed>>
    BY <1>12 DEF AfterKeys, Proceed, repo
  <2>2. Done' = Done
    BY <2>1 DEF Done, AtHand
  <2> QED BY <2>1, <2>2 DEF Reached, Tracked, Syncing
\* The steps of the loops over files.
<1>13. ASSUME UNCHANGED <<op, given, queue, cur, index, attr, meddled>>,
              pc \in {"touch", "batch", "checkout"}, pc' \in {"touch", "batch", "checkout", "done"}
       PROVE  (Syncing => Syncing') /\ Done' = Done /\ Tracked' = Tracked
  BY <1>13 DEF Done, AtHand, Tracked, Syncing
<1>14. ASSUME NEW g \in Files, Touch(g) PROVE FilesReached'
  <2>1. /\ pc = "touch" /\ todo' = todo \ {g} /\ fresh' = [fresh EXCEPT ![g] = FALSE]
        /\ UNCHANGED <<op, given, queue, cur, index, attr, meddled, listed, pc>>
    BY <1>14 DEF Touch
  <2>2. \A f \in Files : fresh'[f] = (f # g /\ fresh[f])
    BY <2>1 DEF TypeOK, RepoTypeOK
  <2>3. Done' = Done /\ Tracked' = Tracked /\ Tracked \subseteq Files
    BY <2>1, <1>13 DEF Tracked
  <2> QED BY <2>1, <2>2, <2>3 DEF Reached, Syncing
<1>15. CASE BeginCheckout
  <2>1. /\ pc = "touch" /\ pc' = "batch" /\ todo = {} /\ later' = listed
        /\ UNCHANGED <<op, given, queue, cur, index, attr, meddled, fresh>>
    BY <1>15 DEF BeginCheckout, Proceed, repo
  <2>2. Done' = Done /\ Tracked' = Tracked
    BY <2>1, <1>13
  <2> QED BY <2>1, <2>2 DEF Reached, AtHand, Syncing
<1>16. ASSUME NEW b \in SUBSET later, BeginBatch(b) PROVE FilesReached'
  <2>1. CASE pc' = "done"
    BY <1>16, <2>1, <1>2 DEF BeginBatch, Proceed, Stop
  <2>2. CASE pc' # "done"
    <3>1. /\ pc = "batch" /\ pc' = "checkout" /\ todo' = b /\ later' = later \ b
          /\ UNCHANGED <<op, given, queue, cur, index, attr, meddled, fresh, wt>>
      BY <1>16, <2>2 DEF BeginBatch, Proceed, Stop, repo
    <3>2. Done' = Done /\ Tracked' = Tracked
      BY <3>1, <1>13
    <3> QED BY <3>1, <3>2 DEF Reached, AtHand, Right, Syncing
  <2> QED BY <2>1, <2>2
<1>17. ASSUME NEW g \in Files, CheckoutFile(g) PROVE FilesReached'
  <2>1. /\ pc = "checkout" /\ todo' = todo \ {g} /\ g \in todo
        /\ GitCheckoutOK(g) /\ GitCheckout(g)
        /\ UNCHANGED <<op, given, queue, cur, index, attr, meddled, later, pc>>
    BY <1>17 DEF CheckoutFile
  <2>2. Done' = Done /\ Tracked' = Tracked
    BY <2>1, <1>13
  <2>3. \A f \in Files : f # g => wt'[f] = wt[f] /\ fresh'[f] = fresh[f]
    BY <2>1 DEF GitCheckout, TypeOK, RepoTypeOK, Slot
  <2> SUFFICES ASSUME Syncing, NEW f \in Tracked \ meddled, attr[f] \in Done
               PROVE  Reached(f)'
    BY <2>1, <2>2 DEF Syncing
  <2>4. Reached(f) /\ f \in Files
    BY <2>1 DEF Tracked
  <2>5. CASE f # g
    BY <2>1, <2>3, <2>4, <2>5 DEF Reached, AtHand, Right
  <2>6. CASE f = g /\ fresh[g]
    <3>1. Right(f) /\ wt' = wt
      BY <2>1, <2>4, <2>6 DEF Reached, GitCheckout
    <3> QED BY <2>1, <3>1 DEF Reached, AtHand, Right
  <2>7. CASE f = g /\ ~fresh[g]
    <3>1. wt'[g] = FromGit(g, index[g]) /\ ~FromGitDies(g, index[g])
      BY <2>1, <2>4, <2>7 DEF GitCheckout, GitCheckoutOK, TypeOK, RepoTypeOK, Slot
    <3>2. KeySet(attr[g]) /\ attr[g] # NoKey
      <4>1. attr[g] \in Done /\ pc \notin {"idle", "done"}
        BY <2>1, <2>7
      <4> QED BY <4>1, KeyAssumption DEF KeysDone, Done, TypeOK
    <3>3. Right(f)'
      <4>1. CASE op = "unlock"
        BY <2>1, <2>7, <3>1, <3>2, <4>1 DEF Right, KeySet, FromGit, FromGitDies, Driver
      <4>2. CASE op # "unlock"
        BY <2>1, <2>7, <3>1, <3>2, <4>2 DEF Right, KeySet, FromGit, SmudgeRuns, Driver
      <4> QED BY <4>1, <4>2
    <3> QED BY <2>1, <3>3 DEF Reached, AtHand
  <2> QED BY <2>5, <2>6, <2>7
<1>18. CASE FinishBatch
  <2>1. /\ pc = "checkout" /\ pc' = "batch" /\ todo = {}
        /\ UNCHANGED <<op, given, queue, cur, index, attr, meddled, fresh, wt, later>>
    BY <1>18 DEF FinishBatch, Proceed, repo
  <2>2. Done' = Done /\ Tracked' = Tracked
    BY <2>1, <1>13
  <2> QED BY <2>1, <2>2 DEF Reached, AtHand, Right, Syncing
<1>19. CASE FinishCheckout
  <2>1. /\ pc = "batch" /\ pc' = "done" /\ later = {}
        /\ UNCHANGED <<op, given, queue, cur, index, attr, meddled, fresh, wt, later>>
    BY <1>19 DEF FinishCheckout, Stop, repo, loop
  <2>2. Done' = Done /\ Tracked' = Tracked
    BY <2>1, <1>13
  <2> QED BY <2>1, <2>2 DEF Reached, Right, Syncing, AtHand
<1>20. CASE AddFix \/ AddFixDies \/ VerifyFix \/ FinishFix \/ Abort \/ Return
  <2>1. CASE AddFix \/ VerifyFix \/ FinishFix
    BY <2>1, <1>2 DEF AddFix, VerifyFix, FinishFix, Shape
  <2>2. CASE AddFixDies \/ Abort \/ Return
    BY <2>2, <1>2 DEF AddFixDies, Abort, Return, Stop
  <2> QED BY <1>20, <2>1, <2>2
<1>21. ASSUME NEW f, SkipFix(f) \/ TouchFix(f) PROVE FilesReached'
  BY <1>21, <1>2 DEF SkipFix, TouchFix, Shape, run
<1>22. ASSUME NEW f, CheckoutDies(f) PROVE FilesReached'
  BY <1>22, <1>2 DEF CheckoutDies, Stop
<1>23. CASE User
  BY <1>23, <1>1, <1>3, UserLeaves DEF loop, run
<1>24. CASE Advance
  BY <1>8, <1>9, <1>10, <1>11, <1>12, <1>14, <1>15, <1>16, <1>17, <1>18, <1>19, <1>20,
     <1>21, <1>22, <1>24 DEF Advance
<1> QED BY <1>4, <1>6, <1>20, <1>23, <1>24 DEF Next
-----------------------------------------------------------------------------
(* The tree stays clean.                                                   *)

LEMMA CleanStep == ASSUME TypeOK, Shape, OnlyTouched, [Next]_vars PROVE OnlyTouched'
<1> USE DEF OnlyTouched
<1>1. ASSUME UNCHANGED <<op, force, meddled, index, head, fresh, listed, todo, later>>,
             pc # "idle", pc # "done", pc' = pc \/ (pc \notin {"touch", "batch", "checkout"} /\ pc' # "touch")
      PROVE  OnlyTouched'
  BY <1>1 DEF Syncing, Unfresh, Tracked
<1>2. ASSUME \/ pc' = "idle"
             \/ pc' = "done" /\ exit' # "ok"
             \/ op' \notin {"unlock", "lock", "lock --all"}
      PROVE  OnlyTouched'
  BY <1>2 DEF Syncing
<1>3. CASE UNCHANGED vars
  BY <1>3 DEF vars, repo, loop, run, Syncing, Unfresh, Tracked
<1>4. ASSUME NEW S, StatusPasses(S, FALSE), fresh' = Refreshed(S), UNCHANGED <<index, head>>,
             pc' # "touch"
      PROVE  OnlyTouched'
  <2>1. index' = head' /\ Unfresh' = {}
    BY <1>4 DEF StatusPasses, Refreshed, Unfresh, Tracked
  <2> QED BY <1>4, <2>1
<1>5. CASE Begin
  <2>1. ASSUME NEW k, RefuseInit(k) \/ (\E s \in Secrets : StartInit(k, s)) PROVE OnlyTouched'
    BY <2>1, <1>2 DEF RefuseInit, StartInit, Start
  <2>2. ASSUME NEW xs, NEW S, StartUnlock(xs, S) PROVE OnlyTouched'
    BY <2>2, <1>4 DEF StartUnlock, Proceed
  <2>3. ASSUME NEW xs, NEW S, RefuseUnlock(xs, S) PROVE OnlyTouched'
    BY <2>3, <1>2, StatusStopsExit DEF RefuseUnlock
  <2>4. ASSUME NEW o, NEW k, NEW frc \in BOOLEAN, NEW S, StartLock(o, k, frc, S)
        PROVE  OnlyTouched'
    <3>1. CASE frc
      BY <2>4, <3>1 DEF StartLock, Start
    <3>2. CASE ~frc
      <4>1. StatusPasses(S, FALSE)
        BY <2>4, <3>2 DEF StartLock
      <4> QED BY <2>4, <4>1, <1>4 DEF StartLock, Proceed
    <3> QED BY <3>1, <3>2
  <2>5. ASSUME NEW o, NEW k, NEW frc, NEW S, RefuseLock(o, k, frc, S) PROVE OnlyTouched'
    BY <2>5, <1>2, StatusStopsExit DEF RefuseLock
  <2>6. CASE \E named \in SUBSET Files : StartFix(named)
    BY <2>6, <1>2 DEF StartFix, Start
  <2>7. ASSUME NEW x, ExportKey(x) \/ Keygen(x) PROVE OnlyTouched'
    BY <2>7, <1>2 DEF ExportKey, Keygen, run
  <2> QED BY <1>5, <2>1, <2>2, <2>3, <2>4, <2>5, <2>6, <2>7 DEF Begin
<1>6. ASSUME NEW x, CreateKeyFile(x) \/ RemoveKeyFile(x) PROVE OnlyTouched'
  BY <1>6, <1>1 DEF CreateKeyFile, RemoveKeyFile, Proceed
<1>7. CASE WriteKeyFile \/ RemoveFilterSection \/ RemoveDiffSection
  BY <1>7, <1>1 DEF WriteKeyFile, RemoveFilterSection, RemoveDiffSection, loop, Proceed
<1>8. CASE ConfigureFilter
  BY <1>8, <1>1 DEF ConfigureFilter, Proceed, Stop
<1>9. CASE ListFiles \/ AfterKeys
  BY <1>9 DEF ListFiles, AfterKeys, Proceed, repo, Syncing, Unfresh, Tracked
<1>10. ASSUME NEW f \in Files, Touch(f) PROVE OnlyTouched'
  <2>1. pc = "touch" /\ UNCHANGED <<op, force, pc, exit, meddled, index, head, listed>>
        /\ fresh' = [fresh EXCEPT ![f] = FALSE] /\ f \in todo /\ todo' = todo \ {f}
    BY <1>10 DEF Touch
  <2>2. \A g \in Unfresh' : g = f \/ g \in Unfresh
    BY <2>1 DEF Unfresh, Tracked, TypeOK, RepoTypeOK
  <2> QED BY <2>1, <2>2 DEF Syncing
<1>11. CASE BeginCheckout \/ FinishCheckout \/ FinishBatch
  BY <1>11 DEF BeginCheckout, FinishCheckout, FinishBatch, Proceed, Stop, repo, loop,
     Syncing, Unfresh, Tracked
<1>12. ASSUME NEW b, BeginBatch(b) PROVE OnlyTouched'
  <2>1. CASE b \subseteq Tracked
    BY <1>12, <2>1 DEF BeginBatch, Proceed, repo, Syncing, Unfresh, Tracked
  <2>2. CASE ~(b \subseteq Tracked)
    BY <1>12, <2>2, <1>2 DEF BeginBatch, Stop
  <2> QED BY <2>1, <2>2
<1>13. ASSUME NEW f \in Files, CheckoutFile(f) PROVE OnlyTouched'
  <2>1. pc = "checkout" /\ todo' = todo \ {f} /\ GitCheckoutOK(f) /\ GitCheckout(f)
        /\ UNCHANGED <<op, force, pc, exit, meddled, index, head, later>>
    BY <1>13 DEF CheckoutFile
  <2>2. \A g \in Unfresh' : g # f /\ g \in Unfresh
    BY <2>1 DEF GitCheckout, Unfresh, Tracked, TypeOK, RepoTypeOK
  <2> QED BY <2>1, <2>2 DEF Syncing
<1>14. CASE AddFix \/ VerifyFix \/ FinishFix \/ AddFixDies \/ Abort \/ Return
  BY <1>14, <1>2 DEF AddFix, VerifyFix, FinishFix, AddFixDies, Abort, Return, Stop, Shape
<1>15. ASSUME NEW f, SkipFix(f) \/ TouchFix(f) \/ CheckoutDies(f) PROVE OnlyTouched'
  BY <1>15, <1>2 DEF SkipFix, TouchFix, CheckoutDies, Stop, Shape, run
<1>16. CASE User
  <2>1. UNCHANGED <<loop, run>>
    BY <1>16, UserLeaves
  <2>2. ASSUME NEW f \in Files, NEW T, UserStep({f}, T) PROVE OnlyTouched'
    <3>1. pc = "idle" \/ f \in meddled'
      BY <2>2 DEF UserStep
    <3> QED BY <3>1, <1>2, <2>1 DEF run
  <2>3. CASE UserCommit
    <3>1. meddled' = meddled /\ index # head
      BY <2>3 DEF UserCommit, UserStep, TypeOK
    <3> QED BY <3>1, <1>2, <2>1 DEF run, Syncing
  <2> QED BY <1>16, <2>2, <2>3 DEF User, Edit, Delete, UserTouch, UserAdd, UserCheckout,
             SetAttribute
<1>17. CASE Advance
  BY <1>6, <1>7, <1>8, <1>9, <1>10, <1>11, <1>12, <1>13, <1>14, <1>15, <1>17 DEF Advance
<1> QED BY <1>3, <1>5, <1>14, <1>16, <1>17 DEF Next

-----------------------------------------------------------------------------
(* What holds of every behaviour.                                          *)

LEMMA InitSuccess == Init => SInv
BY DEF Init, SInv, KeysDone, LoopOver, FilesReached, OnlyTouched, FixesKept, FixComplete,
   Overwrites, Syncing

\* Every reachable state has the parts of the success argument.
THEOREM SuccessInvariance == Spec => []SInv
<1>1. IInv /\ SInv /\ [Next]_vars => SInv'
  BY KeysStep, LoopStep, FilesStep, CleanStep, FixesStep, OverwritesStep DEF IInv, SInv
<1> QED BY <1>1, InitSuccess, Invariance, PTL DEF Spec

\* When lock or unlock succeeds, every key it was given is done, and so is every
\* file of it.
LEMMA AllReached ==
  ASSUME SInv, Syncing, pc = "done", exit = "ok", NEW f \in Tracked \ meddled,
         attr[f] \in given
  PROVE  Right(f)
<1>1. queue = {}
  BY DEF SInv, LoopOver
<1>2. attr[f] \in Done
  BY <1>1 DEF Done, AtHand
<1> QED BY <1>2 DEF SInv, FilesReached, Reached

\* When status -f succeeds, every file it was asked about that has a git-crypt
\* attribute is staged encrypted, whatever it met on the way: files that were
\* missing, blobs that git add left as they were, attributes and drivers that
\* changed and files that were edited or staged before their turn was over.
THEOREM FixSucceeds == Spec => []FixComplete
<1>1. SInv => FixComplete
  BY DEF SInv
<1> QED BY <1>1, SuccessInvariance, PTL

\* When unlock succeeds, it decrypted every file of every key it was given, in
\* whatever batches, and whatever an earlier command had left behind.
THEOREM UnlockSucceeds == Spec => []UnlockDecrypts
<1>1. SInv => UnlockDecrypts
  BY AllReached DEF UnlockDecrypts, Right, Syncing
<1> QED BY <1>1, SuccessInvariance, PTL

\* When lock succeeds, the work tree has the staged blob of every file of every
\* key it locked.
THEOREM LockSucceeds == Spec => []LockEncrypts
<1>1. SInv => LockEncrypts
  BY AllReached DEF LockEncrypts, Right, Syncing, Locking
<1> QED BY <1>1, SuccessInvariance, PTL

\* A lock or unlock that ran undisturbed leaves git status nothing to report: the
\* only files git has to look at again are those still to be checked out.
THEOREM CleanTree == Spec => []TreeStaysClean
<1>1. SInv => TreeStaysClean
  BY DEF SInv, OnlyTouched, TreeStaysClean, Syncing, Settled
<1> QED BY <1>1, SuccessInvariance, PTL

\* The last copy of a secret that a staged or committed blob needs goes only with
\* a lock, or with an unlock that is given another key of that name: no init, no
\* killed command and no write that was cut short takes it.
THEOREM LastCopiesKept == Spec => LastCopies
<1> DEFINE A == \A s \in Needed \cap (Held \ Held') :
       \/ Locking
       \/ op = "unlock" /\ \E k \in given : ikey[k] = s /\ ikey'[k] = Broken
<1>1. IInv /\ SInv /\ [Next]_vars => [A]_vars
  <2> SUFFICES ASSUME IInv, SInv, Next, NEW s \in Needed, s \in Held, s \notin Held', ~Locking
               PROVE  op = "unlock" /\ \E k \in given : ikey[k] = s /\ ikey'[k] = Broken
    OBVIOUS
  <2>1. s \in Secrets
    <3>1. PICK f \in Files, slot \in {index, head} :
            s \in LET c == IF slot[f] = Absent THEN <<>> ELSE slot[f].layers
                  IN {c[i] : i \in DOMAIN c}
      BY DEF Needed
    <3>2. slot[f] # Absent /\ s \in {slot[f].layers[i] : i \in DOMAIN slot[f].layers}
      BY <3>1
    <3>3. slot[f].layers \in Seq(Secrets)
      BY <3>2 DEF IInv, TypeOK, RepoTypeOK, Slot, Content
    <3> QED BY <3>2, <3>3
  <2>2. exported \subseteq exported' /\ ikey' # ikey
    <3>1. exported \subseteq exported'
      BY ZenonT(60) DEF Next, Begin, Advance, User, RefuseInit, StartInit, StartUnlock, RefuseUnlock,
         StartLock, RefuseLock, StartFix, ExportKey, Keygen, CreateKeyFile, WriteKeyFile,
         ConfigureFilter, ListFiles, RemoveKeyFile, RemoveFilterSection, RemoveDiffSection,
         AfterKeys, Touch, BeginCheckout, BeginBatch, FinishBatch, CheckoutFile,
         CheckoutDies, FinishCheckout, SkipFix, TouchFix, AddFix, AddFixDies, VerifyFix,
         FinishFix, Return, Abort, Edit, Delete, UserTouch, UserAdd, UserCheckout,
         SetAttribute, UserCommit, UserStep, store
    <3> QED BY <3>1 DEF Held
  <2>3. (\E x \in queue : CreateKeyFile(x)) \/ WriteKeyFile
    BY <2>2, ZenonT(60) DEF Next, Begin, Advance, User, RefuseInit, StartInit, StartUnlock, RefuseUnlock,
       StartLock, RefuseLock, StartFix, ExportKey, Keygen, ConfigureFilter, ListFiles,
       RemoveKeyFile, RemoveFilterSection, RemoveDiffSection, AfterKeys, Touch,
       BeginCheckout, BeginBatch, FinishBatch, CheckoutFile, CheckoutDies, FinishCheckout,
       SkipFix, TouchFix, AddFix, AddFixDies, VerifyFix, FinishFix, Return, Abort, Edit,
       Delete, UserTouch, UserAdd, UserCheckout, SetAttribute, UserCommit, UserStep, repo
  <2>4. PICK k \in KeyNames : ikey[k] = s /\ ikey'[k] # s
    BY <2>2 DEF Held
  <2>5. ASSUME WriteKeyFile PROVE FALSE
    <3>1. k = cur.name /\ ikey[k] = Broken
      BY <2>4, <2>5 DEF WriteKeyFile, IInv, TypeOK, RepoTypeOK, SInv, Overwrites
    <3> QED BY <3>1, <2>1, <2>4, KeyFileAssumption
  <2>6. PICK x \in queue : CreateKeyFile(x)
    BY <2>3, <2>5
  <2>7. k = x.name /\ ikey'[k] = Broken
    BY <2>4, <2>6 DEF CreateKeyFile, IInv, TypeOK, RepoTypeOK
  <2>8. op # "init"
    BY <2>1, <2>4, <2>6, <2>7, KeyFileAssumption DEF CreateKeyFile, SInv, Overwrites
  <2> QED BY <2>4, <2>6, <2>7, <2>8 DEF CreateKeyFile, SInv, Overwrites
<1> QED BY <1>1, Invariance, SuccessInvariance, PTL DEF LastCopies, Spec, A
=============================================================================
