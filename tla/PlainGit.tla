----------------------------- MODULE PlainGit -----------------------------
(***************************************************************************)
(* What git-crypt promises of a repository once its encryption is looked   *)
(* through: a git repository of plain texts in which unlock and lock do    *)
(* nothing.  exposed holds the files whose work tree text is not under     *)
(* guard: all of them, but while an unlock or a lock without --force runs  *)
(* only those the user changes behind its back.                            *)
(***************************************************************************)
CONSTANTS Files, Texts, Absent

VARIABLES work, staged, committed, exposed

texts == <<work, staged, committed>>

Slot == [Files -> Texts \cup {Absent}]

TypeOK == /\ work \in Slot /\ staged \in Slot /\ committed \in Slot
          /\ exposed \subseteq Files

Init == /\ work \in [Files -> Texts] /\ staged = work /\ committed = work
        /\ exposed = Files

\* Nothing in the tracked files is the user's alone.
Clean == /\ staged = committed
         /\ \A f \in Files : staged[f] # Absent => work[f] = staged[f]

Begin == /\ exposed = Files /\ Clean /\ exposed' = {} /\ UNCHANGED texts
End   == exposed' = Files /\ UNCHANGED texts

\* The user, or a command that is not under guard.
Expose(f) == exposed' = exposed \cup {f}

Write(f, c) == Expose(f) /\ work' = [work EXCEPT ![f] = c]
               /\ UNCHANGED <<staged, committed>>
Stage(f) == Expose(f) /\ staged' = [staged EXCEPT ![f] = work[f]]
            /\ UNCHANGED <<work, committed>>
Look(f) == Expose(f) /\ UNCHANGED texts
Commit == committed' = staged /\ UNCHANGED <<work, staged, exposed>>

\* git checkout, on a file that is exposed, or whose filter fails.
Restore(f) == f \in exposed /\ work' = [work EXCEPT ![f] = staged[f]]
              /\ UNCHANGED <<staged, committed, exposed>>
Drop(f) == /\ f \in exposed \/ work[f] = staged[f]
           /\ work' = [work EXCEPT ![f] = Absent]
           /\ exposed' \in {exposed, Files}
           /\ UNCHANGED <<staged, committed>>

Next == \/ Begin \/ End \/ Commit
        \/ \E f \in Files : \/ \E c \in Texts \cup {Absent} : Write(f, c)
                            \/ Stage(f) \/ Look(f) \/ Restore(f) \/ Drop(f)

Spec == Init /\ [][Next]_<<work, staged, committed, exposed>>
=============================================================================
