----------------------------- MODULE GitCrypt -----------------------------
(***************************************************************************)
(* The commands of git-crypt that change a repository: init, unlock, lock, *)
(* status -f, export-key and keygen (commands.cpp).  A command runs as a   *)
(* sequence of steps, one per system call or git invocation that changes   *)
(* state; between two steps the user may edit files, run git, or kill the  *)
(* command, and a command that throws stops where it is.                   *)
(***************************************************************************)
EXTENDS GitRepo, FiniteSets

CONSTANTS Default,       \* the key name of the key file keys/default
          BatchSize,     \* GIT_CHECKOUT_BATCH_SIZE
          MaxUserSteps,  \* bound: what the user does in a behaviour
          MaxCommands,   \* bound: git-crypt commands started in a behaviour
          Racing         \* may the user act while a command runs?

ASSUME DefaultAssumption == Default \in KeyNames
ASSUME BatchAssumption == BatchSize \in Nat \ {0}
ASSUME BoundAssumption == /\ MaxUserSteps \in Nat /\ MaxCommands \in Nat
                          /\ Racing \in BOOLEAN

VARIABLES
  keysDir,   \* does .git/git-crypt/keys exist?
  born,      \* secrets generated so far
  exported,  \* symmetric key files outside the repository: [name, secret]
  op,        \* the command running
  force,     \* its --force
  pc,        \* its next step
  given,     \* the key names it was given, or found
  queue,     \* key files of the loop over keys it has still to do
  cur,       \* the key file it is at
  n,         \* the driver entry it writes next
  listed,    \* encrypted_files; what git checkout was given, then; in
             \* status -f, the file it is fixing
  todo,      \* files of the current loop over files still to do
  later,     \* files of the batches still to check out
  errors,    \* nbr_of_fix_errors # 0
  exit,      \* how it ended
  \* history variables
  meddled,   \* files the user acted on since the command looked at them
  excused,   \* files a status -f does not answer for
  secured,   \* keys whose drivers were completely written, and not locked since
  \* bounds
  steps, commands

store == <<keysDir, born, exported>>
loop  == <<given, queue, cur, n, listed, todo, later, errors>>
run   == <<op, force, pc, exit>>
past  == <<meddled, excused>>
vars  == <<repo, store, loop, run, past, secured, steps, commands>>

KeyFiles == [name : KeyNames, secret : Secrets]
\* A key of lock's loop: only its name is used.
Named(k) == [name |-> k, secret |-> NoFile]
NoJob == [name |-> NoKey, secret |-> NoFile]
Jobs == [name : KeyNames, secret : Secrets \cup {NoFile}]

Ops == {"none", "init", "unlock", "lock", "lock --all", "fix"}
Locking == op \in {"lock", "lock --all"}
PCs == {"idle", "key", "write", "filter", "unfilter", "undiff", "list",
        "touch", "batch", "checkout", "fix", "add", "verify", "done"}

TypeOK ==
  /\ RepoTypeOK
  /\ keysDir \in BOOLEAN /\ born \subseteq Secrets /\ exported \subseteq KeyFiles
  /\ op \in Ops /\ force \in BOOLEAN /\ pc \in PCs
  /\ given \subseteq KeyNames /\ queue \subseteq Jobs /\ cur \in Jobs \cup {NoJob}
  /\ n \in 0..4 /\ listed \subseteq Files
  /\ todo \subseteq Files /\ later \subseteq Files
  /\ errors \in BOOLEAN /\ exit \in {"none", "ok", "refused", "failed"}
  /\ meddled \subseteq Files /\ excused \subseteq Files
  /\ secured \subseteq KeyNames
  /\ steps \in 0..MaxUserSteps /\ commands \in 0..MaxCommands

-----------------------------------------------------------------------------
(* A new repository, or a clone of one already encrypted: origin names the *)
(* secret each key name stands for there, and the clone's owner holds the  *)
(* exported key files.  A path whose attribute was added after it was      *)
(* committed is still plain.                                               *)
Origins == {o \in [KeyNames -> Secrets \cup {NoFile}] :
              \A j, k \in KeyNames : o[j] = o[k] /\ o[j] # NoFile => j = k}

Committed(o, f) ==
  {Plain(t) : t \in Texts} \cup
  {EncryptWith(s, Plain(t)) : s \in Secrets \cap {o[k] : k \in {attr[f]} \ {NoKey}},
                              t \in Texts}

Init ==
  /\ attr \in [Files -> KeyNames \cup {NoKey}]
  /\ \E o \in Origins :
       /\ head \in {h \in [Files -> UNION {Committed(o, f) : f \in Files}] :
                      \A f \in Files : h[f] \in Committed(o, f)}
       /\ born = {o[k] : k \in KeyNames} \ {NoFile}
       /\ exported = {x \in KeyFiles : o[x.name] = x.secret}
  /\ index = head /\ wt = head
  /\ fresh = [f \in Files |-> TRUE]
  /\ cfg = [k \in KeyNames |-> {}]
  /\ ikey = [k \in KeyNames |-> NoFile]
  /\ keysDir = FALSE
  /\ op = "none" /\ force = FALSE /\ pc = "idle" /\ exit = "none"
  /\ given = {} /\ queue = {} /\ cur = NoJob /\ n = 0
  /\ listed = {} /\ todo = {} /\ later = {} /\ errors = FALSE
  /\ meddled = {} /\ excused = {} /\ secured = {}
  /\ steps = MaxUserSteps /\ commands = MaxCommands

-----------------------------------------------------------------------------
(* What every command does: start, with exit status pending, stop, return. *)

Start(o, frc, names) ==
  /\ pc = "idle" /\ commands > 0
  /\ commands' = commands - 1
  /\ op' = o /\ force' = frc /\ given' = names

Proceed(next) == pc' = next /\ exit' = "none"
Stop(how) == pc' = "done" /\ exit' = how

Return ==
  /\ pc = "done"
  /\ pc' = "idle" /\ op' = "none" /\ exit' = "none" /\ force' = FALSE
  /\ given' = {} /\ queue' = {} /\ cur' = NoJob /\ n' = 0
  /\ listed' = {} /\ todo' = {} /\ later' = {} /\ errors' = FALSE
  /\ meddled' = {} /\ excused' = {}
  /\ UNCHANGED <<repo, store, secured, steps, commands>>

\* Mutants of StatusPasses: the tree is not looked at; staged changes are not.
StatusUnchecked(S, frc) == S \subseteq Unmodified
StatusWorkTreeOnly(S, frc) == /\ S \subseteq Unmodified
                              /\ ~frc => S = Unfresh

\* get_git_status found nothing it objects to, after refreshing S.
StatusPasses(S, frc) ==
  /\ S \subseteq Unmodified
  /\ ~frc => index = head /\ S = Unfresh
\* It printed something, or git died.
StatusStops(S, frc) ==
  /\ S \subseteq Unmodified
  /\ \/ ~frc /\ ~Settled /\ exit' = "refused"
     \/ StatusMayDie /\ S = {} /\ exit' = "failed"

-----------------------------------------------------------------------------
(* init                                                                    *)

\* The key file is already there.
RefuseInit(k) ==
  /\ Start("init", FALSE, {k}) /\ ikey[k] # NoFile
  /\ Stop("refused")
  /\ UNCHANGED <<repo, store, queue, cur, n, listed, todo, later, errors,
                 past, secured, steps>>

\* Mutant of StartInit: the key file is not looked for.
StartInitAnyway(k, s) ==
  /\ Start("init", FALSE, {k})
  /\ s \notin born /\ born' = born \cup {s}
  /\ queue' = {[name |-> k, secret |-> s]}
  /\ Proceed("key")
  /\ UNCHANGED <<repo, keysDir, exported, cur, n, listed, todo, later, errors,
                 past, secured, steps>>

\* Key_file::generate draws a secret nobody has.
StartInit(k, s) ==
  /\ Start("init", FALSE, {k}) /\ ikey[k] = NoFile
  /\ s \notin born /\ born' = born \cup {s}
  /\ queue' = {[name |-> k, secret |-> s]}
  /\ Proceed("key")
  /\ UNCHANGED <<repo, keysDir, exported, cur, n, listed, todo, later, errors,
                 past, secured, steps>>

-----------------------------------------------------------------------------
(* unlock, with key files                                                  *)

\* The key files xs load: they were written by export-key or keygen.
StartUnlock(xs, S) ==
  /\ Start("unlock", FALSE, {x.name : x \in xs})
  /\ StatusPasses(S, FALSE)
  /\ fresh' = Refreshed(S)
  /\ queue' = xs
  /\ Proceed("key")
  /\ UNCHANGED <<wt, index, head, attr, cfg, ikey, store, cur, n, listed,
                 todo, later, errors, past, secured, steps>>

RefuseUnlock(xs, S) ==
  /\ Start("unlock", FALSE, {x.name : x \in xs})
  /\ StatusStops(S, FALSE) /\ pc' = "done"
  /\ fresh' = Refreshed(S)
  /\ UNCHANGED <<wt, index, head, attr, cfg, ikey, store, queue, cur, n,
                 listed, todo, later, errors, past, secured, steps>>

-----------------------------------------------------------------------------
(* Installing a key: init and each turn of unlock's loop                   *)

\* mkdir_parent, create_protected_file, and the ofstream that truncates.
CreateKeyFile(x) ==
  /\ pc = "key" /\ op \in {"init", "unlock"} /\ x \in queue
  /\ ikey' = [ikey EXCEPT ![x.name] = Broken]
  /\ keysDir' = TRUE
  /\ cur' = x /\ queue' = queue \ {x}
  /\ Proceed("write")
  /\ UNCHANGED <<wt, index, head, fresh, attr, cfg, born, exported, op, force,
                 given, n, listed, todo, later, errors, past, secured, steps,
                 commands>>

\* The ofstream is flushed and closed.
WriteKeyFile ==
  /\ pc = "write"
  /\ ikey' = [ikey EXCEPT ![cur.name] = cur.secret]
  /\ n' = 1
  /\ Proceed("filter")
  /\ UNCHANGED <<wt, index, head, fresh, attr, cfg, store, op, force, given,
                 queue, cur, listed, todo, later, errors, past, secured, steps,
                 commands>>

\* Mutant of ConfigureFilter: one entry too many.
ConfigureFilterPastEnd ==
  /\ pc = "filter"
  /\ cfg' = [cfg EXCEPT ![cur.name] = @ \cup {Drivers[n]}]
  /\ n' = n + 1 /\ Proceed("filter")
  /\ UNCHANGED <<wt, index, head, fresh, attr, ikey, store, op, force, given,
                 queue, cur, listed, todo, later, errors, past, secured, steps,
                 commands>>

\* configure_git_filters, one git config each.
ConfigureFilter ==
  /\ pc = "filter"
  /\ cfg' = [cfg EXCEPT ![cur.name] = @ \cup {Drivers[n]}]
  /\ IF n < 4
     THEN n' = n + 1 /\ Proceed("filter") /\ UNCHANGED secured
     ELSE /\ n' = 0
          /\ secured' = secured \cup {cur.name}
          /\ IF op = "init" THEN Stop("ok") ELSE Proceed("list")
  /\ UNCHANGED <<wt, index, head, fresh, attr, ikey, store, op, force, given,
                 queue, cur, listed, todo, later, errors, past, steps, commands>>

\* Mutant of ListFiles: the files of the last key only.
ListFilesOfLastKey ==
  /\ pc = "list"
  /\ listed' = {f \in Tracked : attr[f] = cur.name}
  /\ Proceed("key")
  /\ UNCHANGED <<repo, store, op, force, given, queue, cur, n, todo, later, errors,
                 past, secured, steps, commands>>

\* get_encrypted_files: git ls-files and the filter attribute of each path.
ListFiles ==
  /\ pc = "list"
  /\ listed' = listed \cup {f \in Tracked : attr[f] = cur.name}
  /\ Proceed("key")
  /\ UNCHANGED <<repo, store, op, force, given, queue, cur, n, todo, later, errors,
                 past, secured, steps, commands>>

-----------------------------------------------------------------------------
(* lock                                                                    *)

\* lock --all takes every entry of the keys directory, which must exist.
LockTargets(o, k) ==
  IF o = "lock --all" THEN {j \in KeyNames : ikey[j] # NoFile} ELSE {k}
LockRefuses(o, k) ==
  IF o = "lock --all" THEN ~keysDir ELSE ikey[k] = NoFile

StartLock(o, k, frc, S) ==
  /\ Start(o, frc, LockTargets(o, k))
  /\ StatusPasses(S, frc) /\ ~LockRefuses(o, k)
  /\ fresh' = Refreshed(S)
  /\ queue' = {Named(j) : j \in LockTargets(o, k)}
  /\ Proceed("key")
  /\ UNCHANGED <<wt, index, head, attr, cfg, ikey, store, cur, n, listed,
                 todo, later, errors, past, secured, steps>>

\* The tree is not clean, git died, the repository is already locked, or the
\* keys directory cannot be read.
RefuseLock(o, k, frc, S) ==
  /\ Start(o, frc, LockTargets(o, k))
  /\ \/ StatusStops(S, frc)
     \/ /\ StatusPasses(S, frc) /\ LockRefuses(o, k)
        /\ exit' = IF o = "lock --all" THEN "failed" ELSE "refused"
  /\ pc' = "done"
  /\ fresh' = Refreshed(S)
  /\ UNCHANGED <<wt, index, head, attr, cfg, ikey, store, queue, cur, n,
                 listed, todo, later, errors, past, secured, steps>>

RemoveKeyFile(x) ==
  /\ pc = "key" /\ Locking /\ x \in queue
  /\ ikey' = [ikey EXCEPT ![x.name] = NoFile]
  /\ cur' = x /\ queue' = queue \ {x}
  /\ Proceed("unfilter")
  /\ UNCHANGED <<wt, index, head, fresh, attr, cfg, store, op, force, given, n,
                 listed, todo, later, errors, past, secured, steps, commands>>

\* git config --remove-section filter.<attribute>
RemoveFilterSection ==
  /\ pc = "unfilter"
  /\ cfg' = [cfg EXCEPT ![cur.name] = @ \ FilterSection]
  /\ secured' = secured \ {cur.name}
  /\ Proceed("undiff")
  /\ UNCHANGED <<wt, index, head, fresh, attr, ikey, store, op, force, loop,
                 past, steps, commands>>

\* git config --remove-section diff.<attribute>
RemoveDiffSection ==
  /\ pc = "undiff"
  /\ cfg' = [cfg EXCEPT ![cur.name] = @ \ {"textconv"}]
  /\ Proceed("list")
  /\ UNCHANGED <<wt, index, head, fresh, attr, ikey, store, op, force, loop,
                 past, secured, steps, commands>>

-----------------------------------------------------------------------------
(* The end of unlock and of lock: touch the listed files, check them out.  *)

AfterKeys ==
  /\ pc = "key" /\ queue = {}
  /\ todo' = listed
  /\ Proceed("touch")
  /\ UNCHANGED <<repo, store, op, force, given, queue, cur, n, listed, later, errors,
                 past, secured, steps, commands>>

\* Mutant of Touch: the modification time stays.
TouchNothing(f) ==
  /\ pc = "touch" /\ f \in todo
  /\ todo' = todo \ {f}
  /\ UNCHANGED <<repo, store, op, force, pc, exit, given, queue, cur, n, listed,
                 later, errors, past, secured, steps, commands>>

\* touch_file, which does not mind a file that is gone.
Touch(f) ==
  /\ pc = "touch" /\ f \in todo
  /\ fresh' = [fresh EXCEPT ![f] = FALSE]
  /\ todo' = todo \ {f}
  /\ UNCHANGED <<wt, index, head, attr, cfg, ikey, store, op, force, pc, exit,
                 given, queue, cur, n, listed, later, errors, past, secured,
                 steps, commands>>

\* git_checkout: batches of BatchSize paths, and one of what is left.
BeginCheckout ==
  /\ pc = "touch" /\ todo = {}
  /\ later' = listed /\ listed' = {}
  /\ Proceed("batch")
  /\ UNCHANGED <<repo, store, op, force, given, queue, cur, n, todo, errors,
                 past, secured, steps, commands>>

\* git checkout takes the index lock; it refuses a path it does not track.
BeginBatch(b) ==
  /\ pc = "batch" /\ b # {}
  /\ Cardinality(b) = BatchSize \/ (b = later /\ Cardinality(b) < BatchSize)
  /\ IF b \subseteq Tracked
     THEN todo' = b /\ listed' = b /\ later' = later \ b /\ Proceed("checkout")
     ELSE UNCHANGED <<todo, listed, later>> /\ Stop("failed")
  /\ UNCHANGED <<repo, store, op, force, given, queue, cur, n, errors,
                 past, secured, steps, commands>>

CheckoutFile(f) ==
  /\ pc = "checkout" /\ f \in todo
  /\ GitCheckoutOK(f)
  /\ GitCheckout(f)
  /\ todo' = todo \ {f}
  /\ UNCHANGED <<index, head, attr, cfg, ikey, store, op, force, pc, exit,
                 given, queue, cur, n, listed, later, errors, past, secured,
                 steps, commands>>

\* git dies between unlinking a file and writing it: a required smudge fails, or
\* git is killed with the command.  Its index is not written: the stat data of
\* the files it did check out is lost.
CheckoutDies(f) ==
  /\ pc = "checkout" /\ f \in todo
  /\ ~fresh[f]
  /\ wt' = [wt EXCEPT ![f] = Absent]
  /\ fresh' = [g \in Files |-> fresh[g] /\ g \notin listed]
  /\ Stop("failed")
  /\ UNCHANGED <<index, head, attr, cfg, ikey, store, op, force, loop, past,
                 secured, steps, commands>>

FinishBatch ==
  /\ pc = "checkout" /\ todo = {}
  /\ listed' = {}
  /\ Proceed("batch")
  /\ UNCHANGED <<repo, store, op, force, given, queue, cur, n, todo, later, errors,
                 past, secured, steps, commands>>

\* Mutant of FinishCheckout: the last batch is not checked out.
FinishCheckoutEarly ==
  /\ pc = "batch" /\ Cardinality(later) <= BatchSize
  /\ Stop("ok")
  /\ UNCHANGED <<repo, store, op, force, loop, past, secured, steps,
                 commands>>

FinishCheckout ==
  /\ pc = "batch" /\ later = {}
  /\ Stop("ok")
  /\ UNCHANGED <<repo, store, op, force, loop, past, secured, steps,
                 commands>>

-----------------------------------------------------------------------------
(* status -f                                                               *)

\* git ls-files shows the blobs of the files that were named, or of all; the
\* ones to fix are the plain ones.
StartFix(named) ==
  /\ Start("fix", FALSE, {})
  /\ todo' = {f \in Tracked \cap named : ~Encrypted(index[f])}
  /\ excused' = Files \ named
  /\ Proceed("fix")
  /\ UNCHANGED <<repo, store, queue, cur, n, listed, later, errors, meddled, secured,
                 steps>>

\* Mutant of SkipFix: the entry is not consumed.
SkipFixAgain(f) ==
  /\ pc = "fix" /\ f \in todo
  /\ attr[f] = NoKey \/ wt[f] = Absent
  /\ errors' = (errors \/ attr[f] # NoKey)
  /\ UNCHANGED <<repo, store, run, given, queue, cur, n, listed, todo, later,
                 past, secured, steps, commands>>

SkipFix(f) ==
  /\ pc = "fix" /\ f \in todo
  /\ attr[f] = NoKey \/ wt[f] = Absent
  /\ todo' = todo \ {f}
  /\ errors' = (errors \/ attr[f] # NoKey)
  /\ UNCHANGED <<repo, store, run, given, queue, cur, n, listed, later, past,
                 secured, steps, commands>>

TouchFix(f) ==
  /\ pc = "fix" /\ f \in todo
  /\ attr[f] # NoKey /\ wt[f] # Absent
  /\ fresh' = [fresh EXCEPT ![f] = FALSE]
  /\ todo' = todo \ {f} /\ listed' = {f}
  /\ Proceed("add")
  /\ UNCHANGED <<wt, index, head, attr, cfg, ikey, store, op, force, given,
                 queue, cur, n, later, errors, past, secured, steps, commands>>

AddFix ==
  /\ pc = "add"
  /\ \E f \in listed : GitAdd(f)
  /\ Proceed("verify")
  /\ UNCHANGED <<wt, head, attr, cfg, ikey, store, op, force, loop, past,
                 secured, steps, commands>>

\* 'git-add' failed
AddFixDies ==
  /\ pc = "add"
  /\ \E f \in listed : wt[f] # Absent /\ ToGitDies(f)
  /\ Stop("failed")
  /\ UNCHANGED <<repo, store, op, force, loop, past, secured, steps,
                 commands>>

\* Mutant of VerifyFix: what was staged is not looked at.
VerifyNothing ==
  /\ pc = "verify"
  /\ listed' = {}
  /\ Proceed("fix")
  /\ UNCHANGED <<repo, store, op, force, given, queue, cur, n, todo, later, errors,
                 past, secured, steps, commands>>

\* check_if_file_is_encrypted reads the index again.
VerifyFix ==
  /\ pc = "verify"
  /\ errors' = (errors \/ \E f \in listed : f \in Tracked => ~Encrypted(index[f]))
  /\ listed' = {}
  /\ Proceed("fix")
  /\ UNCHANGED <<repo, store, op, force, given, queue, cur, n, todo, later, past,
                 secured, steps, commands>>

FinishFix ==
  /\ pc = "fix" /\ todo = {}
  /\ Stop(IF errors THEN "failed" ELSE "ok")
  /\ UNCHANGED <<repo, store, op, force, loop, past, secured, steps,
                 commands>>

-----------------------------------------------------------------------------
(* export-key and keygen write one file outside the repository.            *)

ExportKey(k) ==
  /\ pc = "idle" /\ commands > 0 /\ Loads(k)
  /\ commands' = commands - 1
  /\ exported' = exported \cup {[name |-> k, secret |-> ikey[k]]}
  /\ UNCHANGED <<repo, keysDir, born, loop, run, past, secured, steps>>

\* The key file of keygen names no key.
Keygen(s) ==
  /\ pc = "idle" /\ commands > 0 /\ s \notin born
  /\ commands' = commands - 1
  /\ born' = born \cup {s}
  /\ exported' = exported \cup {[name |-> Default, secret |-> s]}
  /\ UNCHANGED <<repo, keysDir, loop, run, past, secured, steps>>

-----------------------------------------------------------------------------
(* A command is killed, or a system call or git invocation fails and it    *)
(* throws.  If git checkout was running, its index is never written.       *)

Abort ==
  /\ pc \notin {"idle", "done"}
  /\ fresh' = IF pc = "checkout"
              THEN [f \in Files |-> fresh[f] /\ f \notin listed] ELSE fresh
  /\ Stop("failed")
  /\ UNCHANGED <<wt, index, head, attr, cfg, ikey, store, op, force, loop,
                 past, secured, steps, commands>>

-----------------------------------------------------------------------------
(* The user, and the git commands the user runs.                           *)

\* The user acts on the files S, and stages those of T or changes their attribute.
UserStep(S, T) ==
  /\ steps > 0 /\ steps' = steps - 1
  /\ pc # "idle" => Racing
  /\ meddled' = IF pc = "idle" THEN meddled ELSE meddled \cup S
  /\ excused' = IF op = "fix" THEN excused \cup (T \ (todo \cup listed)) ELSE excused
  /\ UNCHANGED <<cfg, ikey, store, loop, run, secured, commands>>

\* git checkout holds the index lock.
IndexUnlocked == pc # "checkout"

Edit(f, t) ==
  /\ UserStep({f}, {})
  /\ wt' = [wt EXCEPT ![f] = Plain(t)]
  /\ fresh' = [fresh EXCEPT ![f] = FALSE]
  /\ UNCHANGED <<index, head, attr>>

Delete(f) ==
  /\ UserStep({f}, {}) /\ wt[f] # Absent
  /\ wt' = [wt EXCEPT ![f] = Absent]
  /\ fresh' = [fresh EXCEPT ![f] = FALSE]
  /\ UNCHANGED <<index, head, attr>>

UserTouch(f) ==
  /\ UserStep({f}, {}) /\ fresh[f]
  /\ fresh' = [fresh EXCEPT ![f] = FALSE]
  /\ UNCHANGED <<wt, index, head, attr>>

UserAdd(f) ==
  /\ UserStep({f}, {f}) /\ IndexUnlocked /\ ~fresh[f]
  /\ wt[f] # Absent \/ index[f] # Absent
  /\ GitAdd(f)
  /\ UNCHANGED <<wt, head, attr>>

UserCommit ==
  /\ UserStep({}, {}) /\ IndexUnlocked /\ index # head
  /\ head' = index
  /\ UNCHANGED <<wt, index, fresh, attr>>

UserCheckout(f) ==
  /\ UserStep({f}, {}) /\ IndexUnlocked /\ f \in Unfresh
  /\ GitCheckout(f)
  /\ UNCHANGED <<index, head, attr>>

\* Edit and commit .gitattributes.
SetAttribute(f, k) ==
  /\ UserStep({f}, {f}) /\ attr[f] # k
  /\ attr' = [attr EXCEPT ![f] = k]
  /\ UNCHANGED <<wt, index, head, fresh>>

-----------------------------------------------------------------------------
Begin ==
  \/ \E k \in KeyNames : RefuseInit(k) \/ (\E s \in Secrets : StartInit(k, s))
  \/ \E xs \in SUBSET exported \ {{}}, S \in SUBSET Files :
       StartUnlock(xs, S) \/ RefuseUnlock(xs, S)
  \/ \E o \in {"lock", "lock --all"}, k \in KeyNames, frc \in BOOLEAN,
        S \in SUBSET Files :
       StartLock(o, k, frc, S) \/ RefuseLock(o, k, frc, S)
  \/ \E named \in SUBSET Files : StartFix(named)
  \/ \E k \in KeyNames : ExportKey(k)
  \/ \E s \in Secrets : Keygen(s)

Advance ==
  \/ \E x \in queue : CreateKeyFile(x) \/ RemoveKeyFile(x)
  \/ WriteKeyFile \/ ConfigureFilter \/ ListFiles
  \/ RemoveFilterSection \/ RemoveDiffSection
  \/ AfterKeys
  \/ \E f \in Files : Touch(f)
  \/ BeginCheckout \/ FinishCheckout
  \/ (\E b \in SUBSET later : BeginBatch(b)) \/ FinishBatch
  \/ \E f \in Files : CheckoutFile(f) \/ CheckoutDies(f)
  \/ \E f \in Files : SkipFix(f) \/ TouchFix(f)
  \/ AddFix \/ AddFixDies \/ VerifyFix \/ FinishFix
  \/ Return

User ==
  \/ \E f \in Files : \/ \E t \in Texts : Edit(f, t)
                      \/ Delete(f) \/ UserTouch(f) \/ UserAdd(f)
                      \/ UserCheckout(f)
                      \/ \E k \in KeyNames \cup {NoKey} : SetAttribute(f, k)
  \/ UserCommit

Next == Begin \/ Advance \/ Abort \/ User

Spec == Init /\ [][Next]_vars

\* A command that runs takes its next step; the user need do nothing.
FairSpec == Spec /\ WF_vars(Advance)

-----------------------------------------------------------------------------
(* Properties.                                                             *)

\* A command never destroys a text the user had only in the work tree: what it
\* takes out of the tree was staged too, unless --force was given or the user
\* changed the file after the command had found the tree clean.
EditsSurvive ==
  [][\A f \in Files :
       wt[f] # Absent /\ TextOf(wt'[f]) # wt[f].text =>
         \/ pc = "idle" \/ force \/ f \in meddled'
         \/ TextOf(index[f]) = wt[f].text]_vars

\* Once the drivers of a key are completely configured, and until it is locked,
\* nothing is staged in the clear under its attribute: not even while a later
\* unlock, killed half way, has left a key file that does not load.
SecuredStaging ==
  [][\A f \in Files :
       index'[f] # index[f] /\ index'[f] # Absent /\ attr[f] \in secured
         => Encrypted(index'[f])]_vars

\* When unlock succeeds, every encrypted file of the keys it was given is
\* decrypted in the work tree, unless the user got in the way.
UnlockDecrypts ==
  pc = "done" /\ op = "unlock" /\ exit = "ok" =>
    \A f \in Tracked \ meddled :
      attr[f] \in given /\ Encrypted(index[f]) => wt[f] = DecryptOnce(index[f])

\* When lock succeeds, every file of the keys it locked has the staged blob
\* itself in the work tree, unless the user got in the way.
LockEncrypts ==
  pc = "done" /\ Locking /\ exit = "ok" =>
    \A f \in Tracked \ meddled : attr[f] \in given => wt[f] = index[f]

\* unlock and lock leave the tree as clean as they found it: from their status
\* check to the first touch, and again when they succeed, git status has nothing
\* to report, so that the next unlock or lock is not refused.
TreeStaysClean ==
  /\ op \in {"unlock", "lock", "lock --all"} /\ ~force /\ meddled = {}
  /\ pc \notin {"idle", "touch", "batch", "checkout"}
  /\ pc = "done" => exit = "ok"
  => Settled

\* When status -f succeeds, every file it was asked about that has a git-crypt
\* attribute is staged encrypted, whatever the user did to it until its turn was
\* over, and whatever the user writes or removes: only what the user stages
\* afterwards, and an attribute changed afterwards, is not its business.
FixComplete ==
  pc = "done" /\ op = "fix" /\ exit = "ok" =>
    \A f \in Tracked \ excused : attr[f] # NoKey => Encrypted(index[f])

\* The secret of a staged or committed blob has its last copy removed only by
\* lock, or by unlock when it is given another key of the same name.
Held == {ikey[k] : k \in KeyNames} \cup {x.secret : x \in exported}
Needed == UNION {LET c == IF s[f] = Absent THEN <<>> ELSE s[f].layers
                 IN {c[i] : i \in DOMAIN c} : f \in Files, s \in {index, head}}
LastCopies ==
  [][\A s \in Needed \cap (Held \ Held') :
       \/ Locking
       \/ op = "unlock" /\ \E k \in given : ikey[k] = s /\ ikey'[k] = Broken]_vars

\* A command that starts stops and returns: no step waits for the user.
CommandsFinish == pc # "idle" ~> pc = "idle"

\* Looked through the encryption, unlock and lock change nothing.
Guarded == /\ op \in {"unlock", "lock", "lock --all"} /\ ~force
           /\ pc \notin {"idle", "done"}
TextsOf(slot) == [f \in Files |-> TextOf(slot[f])]
Exposed == IF Guarded THEN meddled ELSE Files
Look == INSTANCE PlainGit WITH work <- TextsOf(wt), staged <- TextsOf(index),
                               committed <- TextsOf(head), exposed <- Exposed
Transparent == Look!Spec

\* When lock --all succeeds, all keys are locked (commands.cpp:1120) and the
\* work tree is encrypted again (git-crypt.cpp:56): it holds the staged blob of
\* every file with a git-crypt attribute.
LockAllReencrypts ==
  pc = "done" /\ op = "lock --all" /\ exit = "ok" =>
    \A f \in Tracked \ meddled : attr[f] # NoKey => wt[f] = index[f]
=============================================================================
