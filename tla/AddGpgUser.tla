---------------------------- MODULE AddGpgUser ----------------------------
(***************************************************************************)
(* git-crypt add-gpg-user (commands.cpp:1220) for one key name: it         *)
(* encrypts the repository key to each collaborator in a file of its own   *)
(* under .git-crypt, makes sure that .git-crypt/.gitattributes keeps those *)
(* files out of the filters, stages what it wrote and commits it.  Every   *)
(* step may fail or be killed, and the user may act between two steps.     *)
(***************************************************************************)
EXTENDS Naturals, KeyDirectory

CONSTANTS Users,         \* fingerprints of collaborators
          Attributes,    \* the path .git-crypt/.gitattributes
          Rules,         \* its contents: "* !filter !diff"
          Partial,       \* contents of a file whose writing was interrupted
          MaxUserSteps,  \* bound: what the user does in a behaviour
          MaxCommands    \* bound: add-gpg-user commands in a behaviour

Paths == Users \cup {Attributes}
\* A file <fingerprint>.gpg stands for the secret gpg encrypted in it.
File == Secrets \cup {Rules, Partial}
Blob == [file : File, wrapped : BOOLEAN]

ASSUME AttributesAssumption == Attributes \notin Users
ASSUME AbsentAssumption == Absent \notin File \cup Blob
ASSUME PartialAssumption == Partial \notin Secrets \cup {Rules}
ASSUME BoundAssumption == MaxUserSteps \in Nat /\ MaxCommands \in Nat

VARIABLES
  wt, index, head,  \* .git-crypt in the work tree, staged, committed
  star,    \* does the user's .gitattributes encrypt .git-crypt too?
  secret,  \* the key of the repository, in .git/git-crypt/keys
  pc,      \* next step of the command
  given,   \* the collaborators it was given
  noCommit,\* its --no-commit
  key,     \* the key it loaded
  queue,   \* collaborators it has still to encrypt the key for
  new,     \* new_files
  exit,    \* how it ended
  \* history variables
  meddled, \* paths the user acted on since the command started
  hands,   \* paths the user ever acted on
  torn,    \* was a write of .git-crypt/.gitattributes interrupted?
  \* bounds
  steps, commands

tree == <<wt, index, head>>
run  == <<given, noCommit, key>>
vars == <<tree, star, secret, pc, run, queue, new, exit, meddled, hands, torn,
          steps, commands>>

TypeOK ==
  /\ wt \in [Paths -> File \cup {Absent}]
  /\ index \in [Paths -> Blob \cup {Absent}] /\ head \in [Paths -> Blob \cup {Absent}]
  /\ star \in BOOLEAN /\ secret \in Secrets /\ key \in Secrets
  /\ pc \in {"idle", "encrypt", "attributes", "add", "commit", "done"}
  /\ given \subseteq Users /\ queue \subseteq Users /\ new \subseteq Paths
  /\ noCommit \in BOOLEAN /\ exit \in {"none", "ok", "failed"}
  /\ meddled \subseteq Paths /\ hands \subseteq Paths /\ torn \in BOOLEAN
  /\ steps \in 0..MaxUserSteps /\ commands \in 0..MaxCommands

Init ==
  /\ wt = [p \in Paths |-> Absent] /\ index = wt /\ head = wt
  /\ star \in BOOLEAN /\ secret \in Secrets
  /\ pc = "idle" /\ exit = "none"
  /\ given = {} /\ noCommit = FALSE /\ key = secret /\ queue = {} /\ new = {}
  /\ meddled = {} /\ hands = {} /\ torn = FALSE
  /\ steps = MaxUserSteps /\ commands = MaxCommands

-----------------------------------------------------------------------------
(* git.  .git-crypt/.gitattributes is read from the work tree, and from    *)
(* the index when it is not there.  Without its rules a pattern of the     *)
(* user's that covers .git-crypt has git-crypt clean wrap the file.        *)

RulesApply ==
  \/ wt[Attributes] = Rules
  \/ wt[Attributes] = Absent /\ index[Attributes] = [file |-> Rules, wrapped |-> FALSE]

Cleaned(p) == IF wt[p] = Absent THEN Absent
              ELSE [file |-> wt[p], wrapped |-> star /\ ~RulesApply]

\* Git cleans a path again unless its stat data says that it did not change.
Kept(p) == index[p] # Absent /\ index[p].file = wt[p]
Staging(S) ==
  {b \in [Paths -> {index[p] : p \in Paths} \cup {Cleaned(p) : p \in Paths}] :
     \A p \in Paths : IF p \in S THEN b[p] = Cleaned(p) \/ (Kept(p) /\ b[p] = index[p])
                      ELSE b[p] = index[p]}

Knows(S) == \A p \in S : wt[p] # Absent \/ index[p] # Absent

-----------------------------------------------------------------------------
(* The command                                                             *)

Proceed(next) == pc' = next /\ exit' = "none"
Stop(how) == pc' = "done" /\ exit' = how

\* gpg finds one public key for each collaborator, and the key file loads.
Start(us, n) ==
  /\ pc = "idle" /\ commands > 0 /\ us # {}
  /\ commands' = commands - 1
  /\ given' = us /\ noCommit' = n /\ key' = secret
  /\ queue' = us
  /\ Proceed("encrypt")
  /\ UNCHANGED <<tree, star, secret, new, meddled, hands, torn, steps>>

\* A file that is there is not written again, and is not a new file.
SkipExisting(u) ==
  /\ pc = "encrypt" /\ u \in queue
  /\ wt[u] # Absent
  /\ queue' = queue \ {u}
  /\ UNCHANGED <<tree, star, secret, pc, run, new, exit, meddled, hands, torn,
                 steps, commands>>

\* gpg --batch -o FILE -r RECIPIENT -e
Encrypt(u) ==
  /\ pc = "encrypt" /\ u \in queue
  /\ wt[u] = Absent
  /\ wt' = [wt EXCEPT ![u] = key]
  /\ queue' = queue \ {u} /\ new' = new \cup {u}
  /\ UNCHANGED <<index, head, star, secret, pc, run, exit, meddled, hands, torn,
                 steps, commands>>

\* gpg fails or is killed, and may leave what it wrote so far.
EncryptDies(u) ==
  /\ pc = "encrypt" /\ u \in queue
  /\ wt[u] = Absent
  /\ \E c \in {Absent, Partial} : wt' = [wt EXCEPT ![u] = c]
  /\ Stop("failed")
  /\ UNCHANGED <<index, head, star, secret, run, queue, new, meddled, hands,
                 torn, steps, commands>>

\* Mutant of FinishEncrypt: the attributes file is left for later.
FinishEncryptToAdd ==
  /\ pc = "encrypt" /\ queue = {}
  /\ Proceed("add")
  /\ UNCHANGED <<tree, star, secret, run, queue, new, meddled, hands, torn,
                 steps, commands>>

FinishEncrypt ==
  /\ pc = "encrypt" /\ queue = {}
  /\ Proceed("attributes")
  /\ UNCHANGED <<tree, star, secret, run, queue, new, meddled, hands, torn,
                 steps, commands>>

\* Mutant of WriteAttributes: what was written is pushed, not where.
WriteAttributesPushesRules ==
  /\ pc = "attributes" /\ wt[Attributes] = Absent
  /\ wt' = [wt EXCEPT ![Attributes] = Rules]
  /\ new' = new \cup {Rules}
  /\ Proceed("add")
  /\ UNCHANGED <<index, head, star, secret, run, queue, meddled, hands, torn,
                 steps, commands>>

WriteAttributes ==
  /\ pc = "attributes"
  /\ IF wt[Attributes] = Absent
     THEN /\ wt' = [wt EXCEPT ![Attributes] = Rules]
          /\ new' = new \cup {Attributes}
     ELSE UNCHANGED <<wt, new>>
  /\ IF new' = {} THEN Stop("ok") ELSE Proceed("add")
  /\ UNCHANGED <<index, head, star, secret, run, queue, meddled, hands, torn,
                 steps, commands>>

\* The ofstream has created the file, and its buffer is never written.
WriteAttributesDies ==
  /\ pc = "attributes" /\ wt[Attributes] = Absent
  /\ wt' = [wt EXCEPT ![Attributes] = Partial]
  /\ torn' = TRUE
  /\ Stop("failed")
  /\ UNCHANGED <<index, head, star, secret, run, queue, new, meddled, hands,
                 steps, commands>>

\* Mutant of GitAdd: without --no-commit nothing is committed either.
GitAddOnly ==
  /\ pc = "add" /\ Knows(new)
  /\ index' \in Staging(new)
  /\ Stop("ok")
  /\ UNCHANGED <<wt, head, star, secret, run, queue, new, meddled, hands, torn,
                 steps, commands>>

\* git add -- NEW_FILE ...
GitAdd ==
  /\ pc = "add" /\ Knows(new)
  /\ index' \in Staging(new)
  /\ IF noCommit THEN Stop("ok") ELSE Proceed("commit")
  /\ UNCHANGED <<wt, head, star, secret, run, queue, new, meddled, hands, torn,
                 steps, commands>>

\* git commit -m MESSAGE -- NEW_FILE ... stages the new files again and
\* commits them alone; it fails when that leaves nothing to commit.
GitCommit ==
  /\ pc = "commit" /\ Knows(new)
  /\ index' \in Staging(new)
  /\ head' = [p \in Paths |-> IF p \in new THEN index'[p] ELSE head[p]]
  /\ head' # head
  /\ Stop("ok")
  /\ UNCHANGED <<wt, star, secret, run, queue, new, meddled, hands, torn,
                 steps, commands>>

\* git add or git commit fails, or the command is killed between two steps.
Abort ==
  /\ pc \notin {"idle", "done"}
  /\ Stop("failed")
  /\ UNCHANGED <<tree, star, secret, run, queue, new, meddled, hands, torn,
                 steps, commands>>

Return ==
  /\ pc = "done"
  /\ pc' = "idle" /\ exit' = "none"
  /\ given' = {} /\ noCommit' = FALSE /\ key' = secret
  /\ queue' = {} /\ new' = {} /\ meddled' = {}
  /\ UNCHANGED <<tree, star, secret, hands, torn, steps, commands>>

-----------------------------------------------------------------------------
(* The user                                                                *)

UserStep(S) ==
  /\ steps > 0 /\ steps' = steps - 1
  /\ hands' = hands \cup S
  /\ meddled' = IF pc = "idle" THEN meddled ELSE meddled \cup S
  /\ UNCHANGED <<pc, run, queue, new, exit, torn, commands>>

Remove(p) ==
  /\ UserStep({p}) /\ wt[p] # Absent
  /\ wt' = [wt EXCEPT ![p] = Absent]
  /\ UNCHANGED <<index, head, star, secret>>

Stage(p) ==
  /\ UserStep({p}) /\ Knows({p})
  /\ index' \in Staging({p})
  /\ UNCHANGED <<wt, head, star, secret>>

UserCommit ==
  /\ UserStep({}) /\ head # index
  /\ head' = index
  /\ UNCHANGED <<wt, index, star, secret>>

\* Lock, then initialise again: the key is another one.
Rekey(s) ==
  /\ UserStep({}) /\ s # secret
  /\ secret' = s
  /\ UNCHANGED <<tree, star>>

EditPatterns ==
  /\ UserStep({})
  /\ star' = ~star
  /\ UNCHANGED <<tree, secret>>

-----------------------------------------------------------------------------
Next ==
  \/ \E us \in SUBSET Users, n \in BOOLEAN : Start(us, n)
  \/ \E u \in Users : SkipExisting(u) \/ Encrypt(u) \/ EncryptDies(u)
  \/ FinishEncrypt \/ WriteAttributes \/ WriteAttributesDies
  \/ GitAdd \/ GitCommit \/ Abort \/ Return
  \/ \E p \in Paths : Remove(p) \/ Stage(p)
  \/ UserCommit \/ (\E s \in Secrets : Rekey(s)) \/ EditPatterns

Spec == Init /\ [][Next]_vars

-----------------------------------------------------------------------------
(* Properties.                                                             *)

\* When it succeeds, the key it loaded is committed for every collaborator
\* whose file it created, unless the user meddled or asked for no commit.
CreatedIsCommitted ==
  pc = "done" /\ exit = "ok" /\ ~noCommit =>
    \A u \in (new \cap Users) \ meddled : head[u] # Absent /\ head[u].file = key

\* No collaborator's file is ever staged or committed encrypted by git-crypt
\* itself, whatever patterns the user writes, as long as .gitattributes was
\* written whole and the user touched neither it nor the collaborator's file.
KeysInClear ==
  ~torn => \A u \in Users, s \in {index, head} :
             s[u] # Absent /\ s[u].wrapped => {u, Attributes} \cap hands # {}

\* git-crypt add-gpg-user "will add and commit a GPG-encrypted key file"
\* (README.md:49-51): when it succeeds, each collaborator it was given has one
\* committed, that holds the key and that git-crypt did not encrypt.
GivenCanUnlock ==
  pc = "done" /\ exit = "ok" /\ ~noCommit =>
    \A u \in given \ meddled : head[u] = [file |-> key, wrapped |-> FALSE]
=============================================================================
