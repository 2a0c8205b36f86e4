-------------------------- MODULE GpgUnlockProofs --------------------------
(***************************************************************************)
(* What unlock's search for GPG-encrypted keys guarantees for any number   *)
(* of key names and of secret keys.                                        *)
(***************************************************************************)
EXTENDS GpgUnlock, TLAPS

\* The names dealt with: all those no longer queued, but the one it is at.
Dealt == {n \in ValidNames \ names : pc = "key" => n # cur}

\* A name dealt with has its key exactly when the user has a file for it.
DealtFound ==
  pc \in {"name", "key"} \/ (pc = "done" /\ exit \in {"found", "no key"}) =>
    FoundNames = {n \in Dealt : Mine(n) # {}}

\* The name it is at is a key name, and no longer queued.
CurTaken == pc = "key" => cur \in ValidNames \ names

\* Of the name it is at, the secret keys tried have no file, or gpg failed.
TriedFailed ==
  pc = "key" =>
    /\ \A k \in SecretKeys \ keys : files[cur][k] = Absent \/ <<cur, k>> \in failed
    /\ gpgError => \E k \in SecretKeys \ keys : files[cur][k] # Absent
    /\ (\E k \in SecretKeys \ keys : files[cur][k] # Absent) => gpgError

\* The verdict is reached with no name left.
VerdictLast ==
  /\ pc = "done" /\ exit \in {"found", "no key"} => names = {}
  /\ pc = "done" /\ exit = "no key" => found = {}
  /\ pc \in {"name", "key"} => (successful => found # {}) /\ (found # {} => successful)
  /\ pc \in {"status", "list"} => found = {} /\ ~successful

\* It stops for a reason: files in the way, or one that is no key for its name.
Reasons ==
  pc = "done" =>
    /\ exit # "none"
    /\ exit = "dirty" => ~clean
    /\ exit = "malformed" => \E n \in ValidNames, k \in SecretKeys :
                              files[n][k] \notin {Absent, Opaque} /\ ~Fits(n, files[n][k])

IInv == /\ TypeOK /\ DealtFound /\ CurTaken /\ TriedFailed /\ VerdictLast
        /\ KeysFitNames /\ FailuresTolerated /\ Reasons

-----------------------------------------------------------------------------
LEMMA InitIInv == Init => IInv
BY DEF Init, IInv, TypeOK, DealtFound, CurTaken, TriedFailed, VerdictLast, KeysFitNames,
       FailuresTolerated, FoundNames, Reasons

LEMMA TypeStep == TypeOK /\ CurTaken /\ [Next]_vars => TypeOK'
<1> SUFFICES ASSUME TypeOK, CurTaken, [Next]_vars PROVE TypeOK'
  OBVIOUS
<1> USE DEF TypeOK, Proceed, Stop
<1>1. CASE CheckStatus \/ List \/ ListDies
  BY <1>1 DEF CheckStatus, List, ListDies
<1>2. ASSUME NEW n \in Names, SkipName(n) \/ TakeName(n) PROVE TypeOK'
  <2>1. CASE SkipName(n)  BY <2>1 DEF SkipName
  <2>2. CASE TakeName(n)  BY <2>2 DEF TakeName
  <2> QED BY <1>2, <2>1, <2>2
<1>3. ASSUME NEW k \in SecretKeys, TryAbsent(k) \/ TryFails(k) \/ TryMisfits(k)
      PROVE TypeOK'
  <2>1. CASE TryAbsent(k)
    BY <2>1 DEF TryAbsent
  <2>2. CASE TryFails(k)
    <3>1. cur \in Names
      <4>1. pc = "key" BY <2>2 DEF TryFails
      <4>2. cur \in ValidNames BY <4>1 DEF CurTaken
      <4> QED BY <4>2, NamesAssumption
    <3>2. failed' \subseteq Names \X SecretKeys
      <4>1. <<cur, k>> \in Names \X SecretKeys BY <3>1
      <4> QED BY <2>2, <4>1 DEF TryFails
    <3> QED BY <2>2, <3>2 DEF TryFails
  <2>3. CASE TryMisfits(k)
    BY <2>3 DEF TryMisfits
  <2> QED BY <1>3, <2>1, <2>2, <2>3
<1>4. ASSUME NEW k \in SecretKeys, TryFits(k) PROVE TypeOK'
  <2>1. [name |-> cur, secret |-> files[cur][k].secret] \in Loadable
    BY <1>4 DEF TryFits, Fits, KeyFile, Loadable, CurTaken
  <2> QED BY <1>4, <2>1 DEF TryFits
<1>5. CASE NameFails
  <2>1. CASE gpgError  BY <1>5, <2>1 DEF NameFails
  <2>2. CASE ~gpgError  BY <1>5, <2>2 DEF NameFails
  <2> QED BY <2>1, <2>2
<1>7. CASE Verdict
  <2>1. CASE successful  BY <1>7, <2>1 DEF Verdict
  <2>2. CASE ~successful  BY <1>7, <2>2 DEF Verdict
  <2> QED BY <2>1, <2>2
<1>6. CASE UNCHANGED vars
  BY <1>6 DEF vars
<1> QED
  BY <1>1, <1>2, <1>3, <1>4, <1>5, <1>6, <1>7 DEF Next

LEMMA DealtStep == ASSUME IInv, [Next]_vars PROVE DealtFound'
<1> USE DEF IInv, DealtFound, Dealt, Mine, FoundNames, Proceed, Stop
<1>1. CASE CheckStatus
  BY <1>1 DEF CheckStatus
<1>2. CASE List
  <2>1. Dealt' = {} /\ found' = {}
    BY <1>2, NamesAssumption DEF List, VerdictLast
  <2> QED BY <2>1
<1>3. CASE ListDies
  BY <1>3 DEF ListDies
<1>4. ASSUME NEW n \in Names, SkipName(n) PROVE DealtFound'
  BY <1>4 DEF SkipName
<1>5. ASSUME NEW n \in Names, TakeName(n) PROVE DealtFound'
  BY <1>5 DEF TakeName
<1>6. ASSUME NEW k \in SecretKeys, TryAbsent(k) PROVE DealtFound'
  BY <1>6 DEF TryAbsent
<1>7. ASSUME NEW k \in SecretKeys, TryFails(k) PROVE DealtFound'
  BY <1>7 DEF TryFails
<1>8. ASSUME NEW k \in SecretKeys, TryFits(k) PROVE DealtFound'
  <2>1. FoundNames' = FoundNames \cup {cur}
    <3> DEFINE x == [name |-> cur, secret |-> files[cur][k].secret]
    <3>1. found' = found \cup {x} /\ x.name = cur
      BY <1>8 DEF TryFits
    <3> HIDE DEF x
    <3> QED BY <3>1
  <2>2. Dealt' = Dealt \cup {cur}
    BY <1>8 DEF TryFits, CurTaken
  <2>3. files[cur][k] # Absent
    BY <1>8, FileAssumption DEF TryFits, Fits
  <2>4. Mine(cur) # {} /\ \A n \in Names : Mine(n)' = Mine(n)
    BY <1>8, <2>3 DEF TryFits
  <2>5. FoundNames = {n \in Dealt : Mine(n) # {}}
    BY <1>8 DEF TryFits
  <2> HIDE DEF Dealt, Mine, FoundNames
  <2>6. Dealt' \subseteq Names
    BY NamesAssumption DEF Dealt
  <2>7. FoundNames' = {n \in Dealt' : Mine(n)' # {}}
    BY <2>1, <2>2, <2>4, <2>5, <2>6
  <2> QED BY <2>7
<1>9. ASSUME NEW k \in SecretKeys, TryMisfits(k) PROVE DealtFound'
  BY <1>9 DEF TryMisfits
<1>10. CASE NameFails
  <2>1. CASE gpgError
    BY <1>10, <2>1 DEF NameFails
  <2>2. CASE ~gpgError
    <3>1. Mine(cur) = {}
      BY <1>10, <2>2 DEF NameFails, TriedFailed
    <3>2. Dealt' = Dealt \cup {cur} /\ found' = found
      BY <1>10, <2>2 DEF NameFails, CurTaken
    <3>3. \A n : Mine(n)' = Mine(n)
      BY <1>10 DEF NameFails
    <3>4. FoundNames = {n \in Dealt : Mine(n) # {}}
      BY <1>10 DEF NameFails
    <3>5. FoundNames' = FoundNames
      BY <3>2
    <3> HIDE DEF Dealt, Mine, FoundNames
    <3>6. FoundNames' = {n \in Dealt' : Mine(n)' # {}}
      BY <3>1, <3>2, <3>3, <3>4, <3>5
    <3> QED BY <3>6
  <2> QED BY <2>1, <2>2
<1>11. CASE Verdict
  BY <1>11 DEF Verdict
<1>12. CASE UNCHANGED vars
  BY <1>12 DEF vars
<1> QED
  BY <1>1, <1>2, <1>3, <1>4, <1>5, <1>6, <1>7, <1>8, <1>9, <1>10, <1>11, <1>12 DEF Next

LEMMA CurStep == ASSUME IInv, [Next]_vars PROVE CurTaken'
<1> USE DEF IInv, CurTaken, Proceed, Stop
<1>1. CASE CheckStatus
  BY <1>1 DEF CheckStatus
<1>2. CASE List
  BY <1>2 DEF List
<1>3. CASE ListDies
  BY <1>3 DEF ListDies
<1>4. ASSUME NEW n \in Names, SkipName(n) PROVE CurTaken'
  BY <1>4 DEF SkipName
<1>5. ASSUME NEW n \in Names, TakeName(n) PROVE CurTaken'
  BY <1>5 DEF TakeName
<1>6. ASSUME NEW k \in SecretKeys, TryAbsent(k) PROVE CurTaken'
  BY <1>6 DEF TryAbsent
<1>7. ASSUME NEW k \in SecretKeys, TryFails(k) PROVE CurTaken'
  BY <1>7 DEF TryFails
<1>8. ASSUME NEW k \in SecretKeys, TryFits(k) PROVE CurTaken'
  BY <1>8 DEF TryFits
<1>9. ASSUME NEW k \in SecretKeys, TryMisfits(k) PROVE CurTaken'
  BY <1>9 DEF TryMisfits
<1>10. CASE NameFails
  BY <1>10 DEF NameFails
<1>11. CASE Verdict
  BY <1>11 DEF Verdict
<1>12. CASE UNCHANGED vars
  BY <1>12 DEF vars
<1> QED
  BY <1>1, <1>2, <1>3, <1>4, <1>5, <1>6, <1>7, <1>8, <1>9, <1>10, <1>11, <1>12 DEF Next

LEMMA TriedStep == ASSUME IInv, [Next]_vars PROVE TriedFailed'
<1> USE DEF IInv, TriedFailed, Proceed, Stop
<1>1. CASE CheckStatus
  BY <1>1 DEF CheckStatus
<1>2. CASE List
  BY <1>2 DEF List
<1>3. CASE ListDies
  BY <1>3 DEF ListDies
<1>4. ASSUME NEW n \in Names, SkipName(n) PROVE TriedFailed'
  BY <1>4 DEF SkipName
<1>5. ASSUME NEW n \in Names, TakeName(n) PROVE TriedFailed'
  BY <1>5 DEF TakeName
<1>6. ASSUME NEW k \in SecretKeys, TryAbsent(k) PROVE TriedFailed'
  BY <1>6 DEF TryAbsent
<1>7. ASSUME NEW k \in SecretKeys, TryFails(k) PROVE TriedFailed'
  BY <1>7 DEF TryFails
<1>8. ASSUME NEW k \in SecretKeys, TryFits(k) PROVE TriedFailed'
  BY <1>8 DEF TryFits
<1>9. ASSUME NEW k \in SecretKeys, TryMisfits(k) PROVE TriedFailed'
  BY <1>9 DEF TryMisfits
<1>10. CASE NameFails
  BY <1>10 DEF NameFails
<1>11. CASE Verdict
  BY <1>11 DEF Verdict
<1>12. CASE UNCHANGED vars
  BY <1>12 DEF vars
<1> QED
  BY <1>1, <1>2, <1>3, <1>4, <1>5, <1>6, <1>7, <1>8, <1>9, <1>10, <1>11, <1>12 DEF Next

LEMMA VerdictStep == ASSUME IInv, [Next]_vars PROVE VerdictLast'
<1> USE DEF IInv, VerdictLast, Proceed, Stop
<1>1. CASE CheckStatus
  BY <1>1 DEF CheckStatus
<1>2. CASE List
  BY <1>2 DEF List, Stop
<1>3. CASE ListDies
  BY <1>3 DEF ListDies
<1>4. ASSUME NEW n \in Names, SkipName(n) PROVE VerdictLast'
  BY <1>4 DEF SkipName
<1>5. ASSUME NEW n \in Names, TakeName(n) PROVE VerdictLast'
  BY <1>5 DEF TakeName
<1>6. ASSUME NEW k \in SecretKeys, TryAbsent(k) PROVE VerdictLast'
  BY <1>6 DEF TryAbsent
<1>7. ASSUME NEW k \in SecretKeys, TryFails(k) PROVE VerdictLast'
  BY <1>7 DEF TryFails
<1>8. ASSUME NEW k \in SecretKeys, TryFits(k) PROVE VerdictLast'
  BY <1>8 DEF TryFits
<1>9. ASSUME NEW k \in SecretKeys, TryMisfits(k) PROVE VerdictLast'
  BY <1>9 DEF TryMisfits
<1>10. CASE NameFails
  BY <1>10 DEF NameFails
<1>11. CASE Verdict
  BY <1>11 DEF Verdict
<1>12. CASE UNCHANGED vars
  BY <1>12 DEF vars
<1> QED
  BY <1>1, <1>2, <1>3, <1>4, <1>5, <1>6, <1>7, <1>8, <1>9, <1>10, <1>11, <1>12 DEF Next

LEMMA FitStep == ASSUME IInv, [Next]_vars PROVE KeysFitNames'
<1> USE DEF IInv, KeysFitNames
<1>1. CASE CheckStatus
  BY <1>1 DEF CheckStatus
<1>2. CASE List
  BY <1>2 DEF List
<1>3. CASE ListDies
  BY <1>3 DEF ListDies
<1>4. ASSUME NEW n \in Names, SkipName(n) PROVE KeysFitNames'
  BY <1>4 DEF SkipName
<1>5. ASSUME NEW n \in Names, TakeName(n) PROVE KeysFitNames'
  BY <1>5 DEF TakeName
<1>6. ASSUME NEW k \in SecretKeys, TryAbsent(k) PROVE KeysFitNames'
  BY <1>6 DEF TryAbsent
<1>7. ASSUME NEW k \in SecretKeys, TryFails(k) PROVE KeysFitNames'
  BY <1>7 DEF TryFails
<1>8. ASSUME NEW k \in SecretKeys, TryFits(k) PROVE KeysFitNames'
  <2>1. cur \notin FoundNames
    BY <1>8 DEF TryFits, DealtFound, Dealt
  <2>2. [name |-> cur, secret |-> files[cur][k].secret] = files[cur][k]
    BY <1>8 DEF TryFits, Fits, KeyFile
  <2> QED
    BY <1>8, <2>1, <2>2 DEF TryFits, FoundNames
<1>9. ASSUME NEW k \in SecretKeys, TryMisfits(k) PROVE KeysFitNames'
  BY <1>9 DEF TryMisfits
<1>10. CASE NameFails
  BY <1>10 DEF NameFails
<1>11. CASE Verdict
  BY <1>11 DEF Verdict
<1>12. CASE UNCHANGED vars
  BY <1>12 DEF vars
<1> QED
  BY <1>1, <1>2, <1>3, <1>4, <1>5, <1>6, <1>7, <1>8, <1>9, <1>10, <1>11, <1>12 DEF Next

LEMMA ToleranceStep == ASSUME IInv, [Next]_vars PROVE FailuresTolerated'
<1> USE DEF IInv, FailuresTolerated, Mine, Stop, Proceed
<1>1. CASE CheckStatus
  BY <1>1 DEF CheckStatus
<1>2. CASE List
  BY <1>2 DEF List
<1>3. CASE ListDies
  BY <1>3 DEF ListDies
<1>4. ASSUME NEW n \in Names, SkipName(n) PROVE FailuresTolerated'
  BY <1>4 DEF SkipName
<1>5. ASSUME NEW n \in Names, TakeName(n) PROVE FailuresTolerated'
  BY <1>5 DEF TakeName
<1>6. ASSUME NEW k \in SecretKeys, TryAbsent(k) PROVE FailuresTolerated'
  BY <1>6 DEF TryAbsent
<1>7. ASSUME NEW k \in SecretKeys, TryFails(k) PROVE FailuresTolerated'
  BY <1>7 DEF TryFails
<1>8. ASSUME NEW k \in SecretKeys, TryFits(k) PROVE FailuresTolerated'
  BY <1>8 DEF TryFits
<1>9. ASSUME NEW k \in SecretKeys, TryMisfits(k) PROVE FailuresTolerated'
  BY <1>9 DEF TryMisfits
<1>10. CASE NameFails
  <2>1. CASE gpgError
    <3>1. \E k \in SecretKeys : files[cur][k] # Absent
      BY <1>10, <2>1 DEF NameFails, TriedFailed
    <3>2. \A k \in SecretKeys : files[cur][k] = Absent \/ <<cur, k>> \in failed
      BY <1>10 DEF NameFails, TriedFailed
    <3> QED
      BY <1>10, <2>1, <3>1, <3>2 DEF NameFails, CurTaken
  <2>2. CASE ~gpgError
    BY <1>10, <2>2 DEF NameFails
  <2> QED BY <2>1, <2>2
<1>11. CASE Verdict
  BY <1>11 DEF Verdict
<1>12. CASE UNCHANGED vars
  BY <1>12 DEF vars
<1> QED
  BY <1>1, <1>2, <1>3, <1>4, <1>5, <1>6, <1>7, <1>8, <1>9, <1>10, <1>11, <1>12 DEF Next

LEMMA ReasonsStep == ASSUME IInv, [Next]_vars PROVE Reasons'
<1> USE DEF IInv, Reasons, Proceed, Stop
<1>1. CASE CheckStatus \/ List \/ ListDies
  BY <1>1 DEF CheckStatus, List, ListDies
<1>2. ASSUME NEW n \in Names, SkipName(n) \/ TakeName(n) PROVE Reasons'
  BY <1>2 DEF SkipName, TakeName
<1>3. ASSUME NEW k \in SecretKeys, TryAbsent(k) \/ TryFails(k) \/ TryFits(k) PROVE Reasons'
  BY <1>3 DEF TryAbsent, TryFails, TryFits
<1>4. ASSUME NEW k \in SecretKeys, TryMisfits(k) PROVE Reasons'
  BY <1>4 DEF TryMisfits, CurTaken
<1>5. CASE NameFails \/ Verdict
  BY <1>5 DEF NameFails, Verdict
<1>6. CASE UNCHANGED vars
  BY <1>6 DEF vars
<1> QED
  BY <1>1, <1>2, <1>3, <1>4, <1>5, <1>6 DEF Next

LEMMA NothingLeftOutHolds == IInv => NothingLeftOut
BY DEF IInv, NothingLeftOut, DealtFound, VerdictLast, Dealt

LEMMA NoKeyIsTrueHolds == IInv => NoKeyIsTrue
BY DEF IInv, NoKeyIsTrue, DealtFound, VerdictLast, Dealt, FoundNames

-----------------------------------------------------------------------------
\* Every step keeps the invariant.
LEMMA Step == IInv /\ [Next]_vars => IInv'
BY TypeStep, DealtStep, CurStep, TriedStep, VerdictStep, FitStep, ToleranceStep,
   ReasonsStep DEF IInv

\* The search keeps its invariant.
THEOREM GpgUnlockInvariance == Spec => []IInv
BY InitIInv, Step, PTL DEF Spec

\* The types, for any key names, secret keys and secrets.
THEOREM GpgUnlockTypes == Spec => []TypeOK
BY GpgUnlockInvariance, PTL DEF IInv

\* unlock installs a key for every name that has a file for the user, or none.
THEOREM UnlockLeavesNothingOut == Spec => []NothingLeftOut
BY GpgUnlockInvariance, NothingLeftOutHolds, PTL

\* The user is told that no secret key fits only when none does.
THEOREM UnlockNoKeyIsTrue == Spec => []NoKeyIsTrue
BY GpgUnlockInvariance, NoKeyIsTrueHolds, PTL

\* A failure of gpg ends unlock only when no other file of the name would do.
THEOREM UnlockToleratesFailures == Spec => []FailuresTolerated
BY GpgUnlockInvariance, PTL DEF IInv

\* Every key found was encrypted for the name it is installed under.
THEOREM UnlockKeysFitNames == Spec => []KeysFitNames
BY GpgUnlockInvariance, PTL DEF IInv
=============================================================================
