---------------------------- MODULE ServerProofs ----------------------------
(***************************************************************************)
(* What the SaaS server and its wizard promise, for any number of tabs,    *)
(* runs of the wizard, machines and jobs: backup codes and guesses at the  *)
(* admin site, the installation, and the types of all of it together.      *)
(***************************************************************************)
EXTENDS ServerMC, ProvisioningProofs, JobStoreProofs, LeadPipelineProofs, TLAPS

TabState == [at : TabStates, guess : Codes \cup {<<>>}, read : SUBSET Codes, key : 0..MaxKeys]

UserState == [secret : 0..MaxSetups, enabled : BOOLEAN, codes : SUBSET Codes]

\* What the two arguments need of the types.
Shapes ==
  /\ user \in UserState
  /\ pending \in 0..MaxSetups
  /\ issued \in [secrets : 0..MaxSetups, sets : 0..MaxSetups, keys : 0..MaxKeys]
  /\ tab \in [Tabs -> TabState]
  /\ spent \in [Codes -> Nat]

\* A tab in ValidateBackupCode's transaction holds the row, and read what is there.
Locked ==
  \A t \in Tabs : tab[t].at = "removing" => rowLock = t /\ tab[t].read = user.codes

\* A code that is stored was not accepted since it was saved.
Unspent ==
  /\ \A c \in user.codes : spent[c] = 0
  /\ BackupCodeOnce

CodesInv == Shapes /\ Locked /\ Unspent

LEMMA StatesOf ==
  TabStates = {"out", "second", "guessing", "removing", "accepted", "in", "confirming",
               "saved", "changing", "creating"}
  BY DEF TabStates

LEMMA IdleType ==
  /\ Idle \in TabState /\ Idle.at = "out"
  /\ [Idle EXCEPT !.at = "in"] \in TabState /\ [Idle EXCEPT !.at = "in"].at = "in"
  BY AdminAssumption DEF Idle, TabState, TabStates

LEMMA CodesInit == AdminInit => CodesInv
<1> SUFFICES ASSUME AdminInit PROVE CodesInv
  OBVIOUS
<1>1. Shapes
  BY AdminAssumption, IdleType DEF AdminInit, Shapes, UserState
<1>2. Locked
  BY IdleType DEF AdminInit, Locked
<1>3. Unspent
  BY DEF AdminInit, Unspent, BackupCodeOnce
<1>. QED BY <1>1, <1>2, <1>3 DEF CodesInv

\* Updates of a tab leave a tab.
LEMMA SetAt ==
  ASSUME NEW r \in TabState, NEW at \in TabStates
  PROVE  [r EXCEPT !.at = at] \in TabState /\ [r EXCEPT !.at = at].at = at
  BY DEF TabState

LEMMA SetGuess ==
  ASSUME NEW r \in TabState, NEW at \in TabStates, NEW c \in Codes
  PROVE  /\ [r EXCEPT !.at = at, !.guess = c] \in TabState
         /\ [r EXCEPT !.at = at, !.guess = c].at = at
  BY DEF TabState

LEMMA ReadIs ==
  ASSUME NEW r \in TabState, NEW at, NEW C, NEW q, q = [r EXCEPT !.at = at, !.read = C]
  PROVE  q = [at |-> at, guess |-> r.guess, read |-> C, key |-> r.key]
  BY DEF TabState

LEMMA SetKey ==
  ASSUME NEW r \in TabState, NEW at \in TabStates, NEW k \in 0..MaxKeys
  PROVE  /\ [r EXCEPT !.at = at, !.key = k] \in TabState
         /\ [r EXCEPT !.at = at, !.key = k].at = at
  BY DEF TabState

\* One tab moves on, but not into the transaction, and the row and the codes'
\* counts stay.
LEMMA TabMoves ==
  ASSUME CodesInv, NEW t \in Tabs, NEW r \in TabState, r.at # "removing",
         tab' = [tab EXCEPT ![t] = r], UNCHANGED <<user, spent, rowLock>>,
         pending' \in 0..MaxSetups,
         issued' \in [secrets : 0..MaxSetups, sets : 0..MaxSetups, keys : 0..MaxKeys]
  PROVE  CodesInv'
<1>1. Shapes'
  BY DEF CodesInv, Shapes
<1>2. Locked'
  BY DEF CodesInv, Locked, Shapes
<1>3. Unspent'
  BY DEF CodesInv, Unspent, BackupCodeOnce
<1>. QED BY <1>1, <1>2, <1>3 DEF CodesInv

\* A statement on the user's row that waits for the transaction: it writes what
\* codes there were, none, or codes whose counts begin anew.
LEMMA RowWritten ==
  ASSUME CodesInv, RowFree, rowLock' = rowLock, user' \in UserState,
         tab' \in [Tabs -> TabState],
         \A t \in Tabs : tab'[t].at = "removing" => tab[t].at = "removing",
         spent' \in [Codes -> Nat], \A c \in user'.codes : spent'[c] = 0,
         \A c \in Codes : spent'[c] \in {0, spent[c]},
         pending' \in 0..MaxSetups,
         issued' \in [secrets : 0..MaxSetups, sets : 0..MaxSetups, keys : 0..MaxKeys]
  PROVE  CodesInv'
<1>1. Shapes'
  BY DEF Shapes
<1>2. \A t \in Tabs : tab[t].at # "removing"
  BY AdminAssumption DEF CodesInv, Locked, RowFree
<1>3. Locked'
  BY <1>2 DEF Locked
<1>4. Unspent'
  BY DEF CodesInv, Unspent, BackupCodeOnce
<1>. QED BY <1>1, <1>3, <1>4 DEF CodesInv

LEMMA CodesStep == CodesInv /\ [AdminNext]_adminVars => CodesInv'
<1> SUFFICES ASSUME CodesInv, [AdminNext]_adminVars PROVE CodesInv'
  OBVIOUS
<1>0. /\ tab \in [Tabs -> TabState] /\ user \in UserState /\ spent \in [Codes -> Nat]
      /\ pending \in 0..MaxSetups
      /\ issued \in [secrets : 0..MaxSetups, sets : 0..MaxSetups, keys : 0..MaxKeys]
      /\ user.codes \subseteq Codes
  BY DEF CodesInv, Shapes, UserState
<1>1. ASSUME NEW t \in Tabs, NEW at \in TabStates \ {"removing"}, TabGoes(t, at),
             UNCHANGED <<user, issued, pending, spent, rowLock>>
      PROVE  CodesInv'
  <2>. DEFINE r == [tab[t] EXCEPT !.at = at]
  <2>1. r \in TabState /\ r.at = at
    <3>1. tab[t] \in TabState /\ at \in TabStates
      BY <1>0, StatesOf, <1>1
    <3>. QED BY <3>1, SetAt
  <2>2. tab' = [tab EXCEPT ![t] = r]
    BY <1>1 DEF TabGoes
  <2>. HIDE DEF r
  <2>. QED BY <2>1, <2>2, <1>0, <1>1, TabMoves
<1>2. ASSUME NEW t \in Tabs, Login(t) \/ AppCodeAccepted(t) \/ ChangesPassword(t)
      PROVE  CodesInv'
  <2>1. \E at \in {"second", "in", "accepted", "changing"} : TabGoes(t, at)
    BY <1>2 DEF Login, AppCodeAccepted, ChangesPassword
  <2>2. UNCHANGED <<user, issued, pending, spent, rowLock>>
    BY <1>2 DEF Login, AppCodeAccepted, ChangesPassword
  <2>. QED BY <2>1, <2>2, <1>1, StatesOf
<1>3. ASSUME UNCHANGED <<user, issued, pending, tab, rowLock, spent>>
      PROVE  CodesInv'
  BY <1>3 DEF CodesInv, Shapes, Locked, Unspent, BackupCodeOnce
<1>4. ASSUME NEW t \in Tabs, SubmitsCode(t) PROVE CodesInv'
  <2>1. UNCHANGED <<user, issued, pending, spent, rowLock>>
    BY <1>4 DEF SubmitsCode
  <2>2. CASE UNCHANGED tab
    BY <2>1, <2>2, <1>3
  <2>3. ASSUME NEW c \in Codes, tab' = [tab EXCEPT ![t].at = "guessing", ![t].guess = c]
        PROVE  CodesInv'
    <3>. DEFINE r == [tab[t] EXCEPT !.at = "guessing", !.guess = c]
    <3>1. r \in TabState /\ r.at = "guessing"
      <4>1. tab[t] \in TabState /\ "guessing" \in TabStates
        BY <1>0, StatesOf
      <4>. QED BY <4>1, SetGuess
    <3>2. tab' = [tab EXCEPT ![t] = r]
      BY <1>0, <2>3
    <3>. HIDE DEF r
    <3>. QED BY <3>1, <3>2, <2>1, <1>0, TabMoves
  <2>. QED BY <1>4, <2>2, <2>3 DEF SubmitsCode
<1>5. ASSUME NEW t \in Tabs, LocksCodes(t) PROVE CodesInv'
  <2>0. PICK x \in TabState, C \in SUBSET Codes : x = tab[t] /\ C = user.codes
    BY <1>0
  <2>. DEFINE r == [at |-> "removing", guess |-> x.guess, read |-> C, key |-> x.key]
  <2>1. r \in TabState /\ r.at = "removing" /\ r.read = user.codes
    BY <2>0, StatesOf DEF TabState
  <2>2. tab' = [tab EXCEPT ![t] = r]
    <3>1. [x EXCEPT !.at = "removing", !.read = C] = r
      BY ReadIs
    <3>. QED BY <1>0, <1>5, <2>0, <3>1 DEF LocksCodes
  <2>. HIDE DEF r
  <2>3. rowLock = FreeLock /\ rowLock' = t /\ UNCHANGED <<user, issued, pending, spent>>
    BY <1>5 DEF LocksCodes, RowFree
  <2>4. Shapes'
    BY <1>0, <2>1, <2>2, <2>3 DEF Shapes
  <2>5. \A u \in Tabs : tab[u].at # "removing"
    BY <2>3, AdminAssumption DEF CodesInv, Locked
  <2>6. Locked'
    BY <1>0, <2>1, <2>2, <2>3, <2>5 DEF Locked
  <2>7. Unspent'
    BY <2>3 DEF CodesInv, Unspent, BackupCodeOnce
  <2>. QED BY <2>4, <2>6, <2>7 DEF CodesInv
<1>6. ASSUME NEW t \in Tabs, RemovesCode(t) PROVE CodesInv'
  <2>1. tab[t].at = "removing" /\ rowLock' = FreeLock /\ UNCHANGED <<issued, pending>>
    BY <1>6 DEF RemovesCode
  <2>2. tab[t].read = user.codes /\ \A u \in Tabs : tab[u].at = "removing" => u = t
    BY <2>1 DEF CodesInv, Locked
  <2>3. PICK at \in {"accepted", "second"} : TabGoes(t, at)
    BY <1>6 DEF RemovesCode
  <2>. DEFINE r == [tab[t] EXCEPT !.at = at]
  <2>4. r \in TabState /\ r.at = at
    <3>1. tab[t] \in TabState /\ at \in TabStates
      BY <1>0, StatesOf
    <3>. QED BY <3>1, SetAt
  <2>5. tab' = [tab EXCEPT ![t] = r]
    BY <2>3 DEF TabGoes
  <2>. HIDE DEF r
  <2>6. tab' \in [Tabs -> TabState] /\ \A u \in Tabs : tab'[u].at # "removing"
    BY <1>0, <2>2, <2>4, <2>5
  <2>7. Locked'
    BY <2>6 DEF Locked
  <2>8. CASE UNCHANGED <<user, spent>>
    BY <2>1, <2>6, <2>7, <2>8 DEF CodesInv, Shapes, Unspent, BackupCodeOnce
  <2>9. ASSUME NEW c \in user.codes, user' = [user EXCEPT !.codes = user.codes \ {c}],
               spent' = [spent EXCEPT ![c] = @ + 1]
        PROVE  CodesInv'
    <3>1. user' \in UserState /\ user'.codes = user.codes \ {c}
      BY <1>0, <2>9 DEF UserState
    <3>2. spent[c] = 0 /\ c \in Codes
      BY <1>0 DEF CodesInv, Unspent
    <3>3. /\ spent' \in [Codes -> Nat] /\ spent'[c] = 1
          /\ \A d \in Codes : d # c => spent'[d] = spent[d]
      BY <1>0, <2>9, <3>2
    <3>4. Unspent'
      BY <1>0, <3>1, <3>3 DEF CodesInv, Unspent, BackupCodeOnce
    <3>. QED BY <2>1, <2>6, <2>7, <3>1, <3>3, <3>4 DEF CodesInv, Shapes
  <2>. QED BY <1>6, <2>2, <2>8, <2>9 DEF RemovesCode
<1>7. ASSUME NEW t \in Tabs, SecondFactorDone(t) \/ SessionEnds(t) \/ FlashesKey(t)
      PROVE  CodesInv'
  <2>1. UNCHANGED <<user, issued, pending, spent, rowLock>>
    BY <1>7 DEF SecondFactorDone, SessionEnds, FlashesKey
  <2>2. \E r \in {Idle, [Idle EXCEPT !.at = "in"]} : tab' = [tab EXCEPT ![t] = r]
    BY <1>7 DEF SecondFactorDone, SessionEnds, FlashesKey
  <2>. QED BY <2>1, <2>2, <1>0, IdleType, TabMoves
<1>8. ASSUME NEW t \in Tabs, VerifyPassword(t) PROVE CodesInv'
  <2>1. RowFree /\ UNCHANGED <<pending, tab, rowLock, spent>> /\ issued.secrets < MaxSetups
    BY <1>8 DEF VerifyPassword
  <2>2. issued.secrets \in Nat /\ issued.secrets + 1 \in 0..MaxSetups
    BY <1>0, <2>1, AdminAssumption
  <2>3. user' \in UserState /\ user'.codes = user.codes
    BY <1>0, <1>8, <2>2 DEF VerifyPassword, UserState
  <2>4. issued' \in [secrets : 0..MaxSetups, sets : 0..MaxSetups, keys : 0..MaxKeys]
    BY <1>0, <1>8, <2>2 DEF VerifyPassword
  <2>5. \A c \in user'.codes : spent'[c] = 0
    BY <2>1, <2>3 DEF CodesInv, Unspent
  <2>. QED BY <1>0, <2>1, <2>3, <2>4, <2>5, RowWritten
<1>9. ASSUME NEW t \in Tabs, VerifyTotp(t) PROVE CodesInv'
  <2>1. UNCHANGED <<user, tab, rowLock, spent>> /\ issued.sets < MaxSetups
    BY <1>9 DEF VerifyTotp
  <2>2. issued.sets + 1 \in 0..MaxSetups
    BY <1>0, <2>1, AdminAssumption
  <2>3. /\ pending' \in 0..MaxSetups
        /\ issued' \in [secrets : 0..MaxSetups, sets : 0..MaxSetups, keys : 0..MaxKeys]
    BY <1>0, <1>9, <2>2 DEF VerifyTotp
  <2>. QED BY <1>0, <2>1, <2>3 DEF CodesInv, Shapes, Locked, Unspent, BackupCodeOnce
<1>10. ASSUME NEW t \in Tabs, ConfirmReads(t) PROVE CodesInv'
  <2>1. {pending} \X (1..CodesEach) \in SUBSET Codes
    BY <1>0, <1>10, AdminAssumption DEF ConfirmReads, Codes
  <2>0. PICK x \in TabState, C \in SUBSET Codes :
           x = tab[t] /\ C = {pending} \X (1..CodesEach)
    BY <1>0, <2>1
  <2>. DEFINE r == [at |-> "confirming", guess |-> x.guess, read |-> C, key |-> x.key]
  <2>2. r \in TabState /\ r.at = "confirming"
    BY <2>0, StatesOf DEF TabState
  <2>3. tab' = [tab EXCEPT ![t] = r]
    <3>1. [x EXCEPT !.at = "confirming", !.read = C] = r
      BY ReadIs
    <3>. QED BY <1>0, <1>10, <2>0, <3>1 DEF ConfirmReads
  <2>. HIDE DEF r
  <2>. QED BY <2>2, <2>3, <1>0, <1>10, TabMoves DEF ConfirmReads
<1>11. ASSUME NEW t \in Tabs, SetBackupCodes(t) PROVE CodesInv'
  <2>1. UNCHANGED <<issued, pending, rowLock>>
    BY <1>11 DEF SetBackupCodes
  <2>2. CASE tab' = [tab EXCEPT ![t] = [Idle EXCEPT !.at = "in"]] /\ UNCHANGED <<user, spent>>
    BY <2>1, <2>2, <1>0, IdleType, TabMoves
  <2>3. CASE /\ RowFree
             /\ user' = [user EXCEPT !.codes = tab[t].read]
             /\ spent' = [c \in Codes |-> IF c \in tab[t].read THEN 0 ELSE spent[c]]
             /\ TabGoes(t, "saved")
    <3>1. tab[t].read \subseteq Codes
      BY <1>0 DEF TabState
    <3>2. user' \in UserState /\ user'.codes = tab[t].read
      BY <3>1, <2>3, <1>0 DEF UserState
    <3>3. /\ spent' \in [Codes -> Nat] /\ \A c \in user'.codes : spent'[c] = 0
          /\ \A c \in Codes : spent'[c] \in {0, spent[c]}
      BY <3>1, <3>2, <2>3, <1>0
    <3>. DEFINE r == [tab[t] EXCEPT !.at = "saved"]
    <3>4. r \in TabState /\ r.at = "saved"
      <4>1. tab[t] \in TabState /\ "saved" \in TabStates
        BY <1>0, StatesOf
      <4>. QED BY <4>1, SetAt
    <3>5. tab' = [tab EXCEPT ![t] = r]
      BY <2>3 DEF TabGoes
    <3>. HIDE DEF r
    <3>6. /\ tab' \in [Tabs -> TabState]
          /\ \A u \in Tabs : tab'[u].at = "removing" => tab[u].at = "removing"
      BY <1>0, <3>4, <3>5
    <3>. QED BY <2>1, <2>3, <1>0, <3>2, <3>3, <3>6, RowWritten
  <2>. QED BY <1>11, <2>2, <2>3 DEF SetBackupCodes
<1>12. ASSUME NEW t \in Tabs, EnableTOTP(t) PROVE CodesInv'
  <2>1. UNCHANGED <<issued, rowLock, spent>> /\ tab' = [tab EXCEPT ![t] = [Idle EXCEPT !.at = "in"]]
    BY <1>12 DEF EnableTOTP
  <2>2. CASE UNCHANGED <<user, pending>>
    BY <2>1, <2>2, <1>0, IdleType, TabMoves
  <2>3. CASE RowFree /\ user' = [user EXCEPT !.enabled = TRUE] /\ pending' = 0
    <3>1. user' \in UserState /\ user'.codes = user.codes
      BY <1>0, <2>3 DEF UserState
    <3>2. /\ tab' \in [Tabs -> TabState]
          /\ \A u \in Tabs : tab'[u].at = "removing" => tab[u].at = "removing"
      BY <1>0, <2>1, IdleType
    <3>3. \A c \in user'.codes : spent'[c] = 0
      BY <2>1, <3>1 DEF CodesInv, Unspent
    <3>4. pending' \in 0..MaxSetups
      BY <2>3, AdminAssumption
    <3>. QED BY <1>0, <2>1, <2>3, <3>1, <3>2, <3>3, <3>4, RowWritten
  <2>. QED BY <1>12, <2>2, <2>3 DEF EnableTOTP
<1>13. ASSUME NEW t \in Tabs, DisableTOTP(t) PROVE CodesInv'
  <2>1. RowFree /\ UNCHANGED <<issued, pending, tab, rowLock, spent>>
    BY <1>13 DEF DisableTOTP
  <2>2. user' = [secret |-> 0, enabled |-> FALSE, codes |-> {}]
    BY <1>0, <1>13 DEF DisableTOTP, UserState
  <2>3. 0 \in 0..MaxSetups /\ {} \in SUBSET Codes /\ FALSE \in BOOLEAN
    BY AdminAssumption
  <2>4. user' \in UserState /\ user'.codes = {}
    BY <2>2, <2>3 DEF UserState
  <2>. QED BY <1>0, <2>1, <2>4, RowWritten
<1>14. ASSUME NEW t \in Tabs, EndsOtherSessions(t) PROVE CodesInv'
  <2>1. UNCHANGED <<user, issued, pending, rowLock, spent>>
    BY <1>14 DEF EndsOtherSessions
  <2>2. [tab[t] EXCEPT !.at = "in"] \in TabState /\ [tab[t] EXCEPT !.at = "in"].at = "in"
    <3>1. tab[t] \in TabState /\ "in" \in TabStates
      BY <1>0, StatesOf
    <3>. QED BY <3>1, SetAt
  <2>3. /\ tab' \in [Tabs -> TabState]
        /\ \A u \in Tabs : tab'[u].at = "removing" => tab'[u] = tab[u]
    BY <1>0, <1>14, <2>2, IdleType DEF EndsOtherSessions
  <2>. QED BY <2>1, <2>3 DEF CodesInv, Shapes, Locked, Unspent, BackupCodeOnce
<1>15. ASSUME NEW t \in Tabs, CreateAPIKey(t) PROVE CodesInv'
  <2>1. UNCHANGED <<user, pending, rowLock, spent>> /\ issued.keys < MaxKeys
    BY <1>15 DEF CreateAPIKey
  <2>. DEFINE k == issued.keys + 1
              r == [tab[t] EXCEPT !.at = "creating", !.key = k]
  <2>2. k \in 0..MaxKeys
    BY <1>0, <2>1, AdminAssumption
  <2>3. issued' \in [secrets : 0..MaxSetups, sets : 0..MaxSetups, keys : 0..MaxKeys]
    BY <1>0, <1>15, <2>2 DEF CreateAPIKey
  <2>4. tab' = [tab EXCEPT ![t] = r]
    BY <1>0, <1>15 DEF CreateAPIKey
  <2>. HIDE DEF k
  <2>5. r \in TabState /\ r.at = "creating"
    <3>1. tab[t] \in TabState /\ "creating" \in TabStates
      BY <1>0, StatesOf
    <3>. QED BY <2>2, <3>1, SetKey
  <2>. HIDE DEF r
  <2>. QED BY <2>1, <2>3, <2>4, <2>5, <1>0, TabMoves
<1>16. ASSUME NEW t \in Tabs, ShowsKey(t) PROVE CodesInv'
  BY <1>3, <1>16 DEF ShowsKey
<1>17. CASE WindowExpires \/ CleansWindows \/ UNCHANGED adminVars
  BY <1>3, <1>17 DEF WindowExpires, CleansWindows, adminVars
<1>. QED
  BY <1>2, <1>4, <1>5, <1>6, <1>7, <1>8, <1>9, <1>10, <1>11, <1>12, <1>13, <1>14, <1>15, <1>16,
     <1>17 DEF AdminNext

\* A backup code signs in once, from however many tabs it comes: the row's lock
\* is what ValidateBackupCode's transaction has to tell them apart.
THEOREM CodeAcceptedOnce == AdminSpec => []BackupCodeOnce
<1>1. CodesInv => BackupCodeOnce
  BY DEF CodesInv, Unspent
<1>. QED BY <1>1, CodesInit, CodesStep, PTL DEF AdminSpec

-----------------------------------------------------------------------------
(* The rate limiter                                                         *)

\* The limiter's counter covers the guesses of its window, and a window that is
\* over or has not begun has none.
Counted ==
  /\ window \in [counter : Nat, expired : BOOLEAN] /\ guesses \in Nat
  /\ guesses <= window.counter
  /\ window.expired => guesses = 0
  /\ GuessesBounded

LEMMA CountedInit == AdminInit => Counted
  BY AdminAssumption DEF AdminInit, Counted, GuessesBounded

LEMMA CountedStep == Counted /\ [AdminNext]_adminVars => Counted'
<1> SUFFICES ASSUME Counted, [AdminNext]_adminVars PROVE Counted'
  OBVIOUS
<1>0. MaxGuesses \in Nat
  BY AdminAssumption
<1>1. ASSUME NEW t \in Tabs, SubmitsCode(t) PROVE Counted'
  <2>. DEFINE w == Check(window)
  <2>1. /\ w \in [counter : Nat, expired : BOOLEAN] /\ ~w.expired
        /\ w.counter = IF window.expired \/ window.counter = 0 THEN 1 ELSE window.counter + 1
    BY DEF Counted, Check
  <2>2. guesses + 1 <= w.counter
    BY <2>1 DEF Counted
  <2>3. window' = w /\ \/ w.counter <= MaxGuesses /\ guesses' = guesses + 1
                       \/ guesses' = guesses
    BY <1>1 DEF SubmitsCode
  <2>. HIDE DEF w
  <2>4. /\ w.counter \in Nat /\ guesses \in Nat /\ guesses <= w.counter
        /\ guesses <= MaxGuesses /\ window'.counter = w.counter
    BY <2>1, <2>2, <2>3 DEF Counted, GuessesBounded
  <2>5. ~window'.expired /\ window' \in [counter : Nat, expired : BOOLEAN]
    BY <2>1, <2>3
  <2>6. CASE w.counter <= MaxGuesses /\ guesses' = guesses + 1
    BY <1>0, <2>2, <2>4, <2>5, <2>6 DEF Counted, GuessesBounded
  <2>7. CASE guesses' = guesses
    BY <1>0, <2>4, <2>5, <2>7 DEF Counted, GuessesBounded
  <2>. QED BY <2>3, <2>6, <2>7
<1>2. ASSUME window' = [counter |-> 0, expired |-> FALSE], guesses' = 0 PROVE Counted'
  BY <1>0, <1>2 DEF Counted, GuessesBounded
<1>3. ASSUME NEW t \in Tabs, SecondFactorDone(t) PROVE Counted'
  BY <1>2, <1>3 DEF SecondFactorDone
<1>4. CASE CleansWindows
  BY <1>2, <1>4 DEF CleansWindows, Counted
<1>5. CASE WindowExpires
  <2>1. window' = [counter |-> window.counter, expired |-> TRUE] /\ guesses' = 0
    BY <1>5 DEF WindowExpires, Counted
  <2>. QED BY <1>0, <2>1 DEF Counted, GuessesBounded
<1>6. ASSUME UNCHANGED <<window, guesses>> PROVE Counted'
  BY <1>6 DEF Counted, GuessesBounded
<1>7. ASSUME NEW t \in Tabs,
             Login(t) \/ AppCodeAccepted(t) \/ LocksCodes(t) \/ RemovesCode(t) \/ SessionEnds(t)
             \/ VerifyPassword(t) \/ VerifyTotp(t) \/ ConfirmReads(t) \/ SetBackupCodes(t)
             \/ EnableTOTP(t) \/ DisableTOTP(t) \/ ChangesPassword(t) \/ EndsOtherSessions(t)
             \/ CreateAPIKey(t) \/ FlashesKey(t) \/ ShowsKey(t)
      PROVE  Counted'
  BY <1>6, <1>7 DEF Login, AppCodeAccepted, LocksCodes, RemovesCode, SessionEnds, VerifyPassword,
     VerifyTotp, ConfirmReads, SetBackupCodes, EnableTOTP, DisableTOTP, ChangesPassword,
     EndsOtherSessions, CreateAPIKey, FlashesKey, ShowsKey
<1>8. CASE UNCHANGED adminVars
  BY <1>6, <1>8 DEF adminVars
<1>. QED BY <1>1, <1>3, <1>4, <1>5, <1>7, <1>8 DEF AdminNext

\* No more than MaxGuesses codes are checked in a window, from however many tabs
\* and whenever it expires or the cleanup runs.
THEOREM GuessesStayBounded == AdminSpec => []GuessesBounded
<1>1. Counted => GuessesBounded
  BY DEF Counted
<1>. QED BY <1>1, CountedInit, CountedStep, PTL DEF AdminSpec

-----------------------------------------------------------------------------
(* The wizard.                                                              *)

FromAdmin == {"admin", "summary", "complete"}
FromDeploy == {"deploy"} \cup FromAdmin
FromConfig == {"config"} \cup FromDeploy
FromSecrets == {"secrets"} \cup FromConfig
FromVerify == {"verify"} \cup FromSecrets
FromConnect == {"connect", "setup", "database"} \cup FromVerify

WholeFile(s) == [is |-> "whole", state |-> s]

\* What a state says of the world is so.
HoldsOf(s) ==
  /\ s.provider = "none" => s.host = Nowhere
  /\ s.provider = "vps" => s.host = OwnServer
  /\ s.provider = "do" => s.host = AppPlatform
  /\ s.deployed =>
       /\ s.host # Nowhere /\ s.db # NoDatabase /\ s.key # 0 /\ s.salt # 0
       /\ app[s.host] = [db |-> s.db, key |-> s.key, salt |-> s.salt]
  /\ s.admin # 0 => s.db # NoDatabase /\ users[s.db] = s.admin

\* What a run goes on with was saved.
WizardSaved ==
  /\ dirty => step \in (FromConnect \ {"complete"}) \cup {"provider"}
  /\ step = "image" /\ mem.image => file = WholeFile(mem)
  /\ ~dirty /\ step \in FromConnect \cup {"provider"} => file = WholeFile(mem)

\* Where a run is tells what it has done.
WizardProgress ==
  /\ step # "stopped" => run \in WizardRuns
  /\ step \in {"buying", "booting"} => mem.host = Nowhere /\ mem.provider = "hetzner"
  /\ step \in FromConnect => mem.host # Nowhere
  /\ step \in FromVerify => mem.db # NoDatabase
  /\ step \in FromSecrets => UrlOpens(mem)
  /\ step \in FromConfig => mem.key # 0 /\ mem.salt # 0 /\ mem.ssh # 0
  /\ step \in FromDeploy => \A s \in Settings : config[mem.db][s] = Encrypted(s)
  /\ step \in FromAdmin => mem.deployed
  /\ step \in {"summary", "complete"} => mem.admin # 0

WizardInv ==
  /\ WizardTypeOK
  /\ WizardSaved
  /\ WizardProgress
  /\ step # "stopped" => HoldsOf(mem)
  /\ file.is = "whole" => HoldsOf(file.state)

LEMMA PlacesDiffer ==
  /\ Nowhere \notin Hosts /\ OwnServer # AppPlatform
  /\ Nowhere # OwnServer /\ Nowhere # AppPlatform
  /\ OwnServer \in Servers /\ AppPlatform \in Hosts /\ Servers \subseteq Hosts
  /\ NoDatabase \notin Databases /\ GivenDatabase \in Databases /\ Servers \subseteq Databases
  /\ \A n \in WizardRuns : /\ BoughtServer(n) \in Servers /\ ManagedDatabase(n) \in Databases
                          /\ BoughtServer(n) # OwnServer /\ BoughtServer(n) # AppPlatform
                          /\ BoughtServer(n) # Nowhere
<1>1. /\ Nowhere[1] = "nowhere" /\ OwnServer[1] = "vps" /\ AppPlatform[1] = "do"
      /\ NoDatabase[1] = "none" /\ GivenDatabase[1] = "given"
      /\ \A n : BoughtServer(n)[1] = "hetzner" /\ ManagedDatabase(n)[1] = "managed"
  BY DEF Nowhere, OwnServer, AppPlatform, NoDatabase, GivenDatabase, BoughtServer, ManagedDatabase
<1>2. \A h \in Servers : h[1] \in {"vps", "hetzner"}
  BY <1>1 DEF Servers
<1>3. Nowhere \notin Hosts
  BY <1>1, <1>2 DEF Hosts
<1>4. NoDatabase \notin Databases
  BY <1>1, <1>2 DEF Databases
<1>. QED
  BY <1>1, <1>3, <1>4 DEF Hosts, Servers, Databases

LEMMA WizardInitInv == WizardInit => WizardInv
<1>. SUFFICES ASSUME WizardInit PROVE WizardInv
  OBVIOUS
<1>1. FreshState \in SavedStates
  BY WizardAssumption DEF FreshState, SavedStates, Secret, Providers
<1>2. NotDeployed \in [db : Databases \cup {NoDatabase}, key : Secret, salt : Secret]
  BY WizardAssumption DEF NotDeployed, Secret
<1>3. 0 \in Secret /\ 0 \in 0..MaxRuns
  BY WizardAssumption DEF Secret
<1>4. config \in [Databases -> [Settings -> [key : Secret, value : Secret]]]
  BY <1>3 DEF WizardInit
<1>5. app \in [Hosts -> [db : Databases \cup {NoDatabase}, key : Secret, salt : Secret]]
  BY <1>2 DEF WizardInit
<1>6. WizardTypeOK
  BY <1>1, <1>3, <1>4, <1>5 DEF WizardInit, WizardTypeOK
<1>7. WizardSaved /\ WizardProgress
  BY DEF WizardInit, WizardSaved, WizardProgress, FromConnect, FromVerify, FromSecrets, FromConfig,
         FromDeploy, FromAdmin
<1>. QED BY <1>6, <1>7 DEF WizardInit, WizardInv

\* Setting a field of a state leaves a state.
LEMMA SetsFlag ==
  ASSUME NEW s \in SavedStates
  PROVE  /\ [s EXCEPT !.image = TRUE] \in SavedStates
         /\ [s EXCEPT !.connected = TRUE] \in SavedStates
         /\ [s EXCEPT !.setup = TRUE] \in SavedStates
         /\ [s EXCEPT !.deployed = TRUE] \in SavedStates
<1>1. [s EXCEPT !.image = TRUE] \in SavedStates
  BY DEF SavedStates
<1>2. [s EXCEPT !.connected = TRUE] \in SavedStates
  BY DEF SavedStates
<1>3. [s EXCEPT !.setup = TRUE] \in SavedStates
  BY DEF SavedStates
<1>4. [s EXCEPT !.deployed = TRUE] \in SavedStates
  BY DEF SavedStates
<1>. QED BY <1>1, <1>2, <1>3, <1>4

LEMMA SetsPlace ==
  ASSUME NEW s \in SavedStates, NEW p \in Providers, NEW h \in Hosts, NEW n \in Secret
  PROVE  /\ [s EXCEPT !.provider = p, !.host = h] \in SavedStates
         /\ [s EXCEPT !.host = h] \in SavedStates
         /\ [s EXCEPT !.provider = p, !.ssh = n] \in SavedStates
<1>1. [s EXCEPT !.provider = p, !.host = h] \in SavedStates
  BY DEF SavedStates
<1>2. [s EXCEPT !.host = h] \in SavedStates
  BY DEF SavedStates
<1>3. [s EXCEPT !.provider = p, !.ssh = n] \in SavedStates
  BY DEF SavedStates
<1>. QED BY <1>1, <1>2, <1>3

LEMMA SetsSecret ==
  ASSUME NEW s \in SavedStates, NEW d \in Databases, NEW n \in Secret
  PROVE  /\ [s EXCEPT !.db = d] \in SavedStates
         /\ [s EXCEPT !.db = d, !.password = n] \in SavedStates
         /\ [s EXCEPT !.key = n] \in SavedStates
         /\ [s EXCEPT !.salt = n] \in SavedStates
         /\ [s EXCEPT !.ssh = n] \in SavedStates
         /\ [s EXCEPT !.admin = n] \in SavedStates
<1>1. [s EXCEPT !.db = d] \in SavedStates
  BY DEF SavedStates
<1>2. [s EXCEPT !.db = d, !.password = n] \in SavedStates
  BY DEF SavedStates
<1>3. [s EXCEPT !.key = n] \in SavedStates
  BY DEF SavedStates
<1>4. [s EXCEPT !.salt = n] \in SavedStates
  BY DEF SavedStates
<1>5. [s EXCEPT !.ssh = n] \in SavedStates
  BY DEF SavedStates
<1>6. [s EXCEPT !.admin = n] \in SavedStates
  BY DEF SavedStates
<1>. QED BY <1>1, <1>2, <1>3, <1>4, <1>5, <1>6

WizardControl ==
  /\ mem \in SavedStates
  /\ held \in Secret
  /\ step \in WizardSteps \cup {"stopped", "complete"}
  /\ dirty \in BOOLEAN

WizardWorld ==
  /\ cloud \in [key : Secret, server : 0..MaxRuns, database : 0..MaxRuns]
  /\ local \in [Servers -> Secret]
  /\ users \in [Databases -> Secret]
  /\ config \in [Databases -> [Settings -> [key : Secret, value : Secret]]]
  /\ app \in [Hosts -> [db : Databases \cup {NoDatabase}, key : Secret, salt : Secret]]
  /\ lost \in SUBSET Effects

WizardFile == file \in [is : {"none", "whole", "cut"}, state : SavedStates]

\* The world stays as it is in most steps.
LEMMA WorldStays ==
  WizardWorld /\ world' = world /\ lost' \in SUBSET Effects => WizardWorld'
  BY DEF WizardWorld, world

LEMMA UnsaidAre == \A s, by : Unsaid(s, by) \in SUBSET Effects
  BY DEF Unsaid

LEMMA WizardTypeStep ==
  ASSUME WizardTypeOK, step # "stopped" => run \in WizardRuns, [WizardNext]_wizardVars
  PROVE  WizardTypeOK'
<1>. DEFINE Fine == WizardFile' /\ WizardControl' /\ WizardWorld' /\ run' \in 0..MaxRuns
<1>. HIDE DEF Fine
<1>. SUFFICES Fine
  BY DEF Fine, WizardTypeOK, WizardFile, WizardControl, WizardWorld
<1>. WizardFile /\ WizardControl /\ WizardWorld /\ run \in 0..MaxRuns
  BY DEF WizardTypeOK, WizardFile, WizardControl, WizardWorld
<1>. USE DEF At, Goes, SavesThen, WizardSteps
<1>0. \A n \in WizardRuns : n \in Secret
  BY WizardAssumption DEF WizardRuns, Secret
<1>3. FreshState \in SavedStates
  BY WizardAssumption DEF FreshState, SavedStates, Secret, Providers
<1>2. lost \in SUBSET Effects
  BY DEF WizardWorld
<1>4. ASSUME run' = run, file' = file, world' = world, lost' \in SUBSET Effects, held' \in Secret, mem' \in SavedStates,
             step' \in WizardSteps \cup {"stopped", "complete"}, dirty' \in BOOLEAN
      PROVE  Fine
  BY <1>4, WorldStays DEF Fine, WizardFile, WizardControl
<1>1. CASE StopsRun
  BY <1>1, <1>2, <1>4, UnsaidAre DEF StopsRun, WizardControl
<1>5. CASE KeepsDatabase \/ Verifies \/ HasSecrets
           \/ StoredSettings \/ KeepsDeployment \/ KeepsAdmin \/ Summary \/ Fails
  BY <1>2, <1>4, <1>5 DEF KeepsDatabase, Verifies, HasSecrets, WizardControl,
     StoredSettings, KeepsDeployment, KeepsAdmin, Summary, Fails
<1>6. CASE PushesImage \/ KeepsServer \/ Connects \/ SetsUp
  <2>1. mem.ssh \in Secret
    BY DEF SavedStates, WizardControl
  <2>2. mem' \in SavedStates
    BY SetsFlag, <1>6 DEF PushesImage, KeepsServer, Connects, SetsUp, WizardControl
  <2>3. held' \in Secret
    BY <1>6, <2>1 DEF PushesImage, KeepsServer, Connects, SetsUp, WizardControl
  <2>. QED BY <1>2, <1>4, <1>6, <2>2, <2>3 DEF PushesImage, KeepsServer, Connects, SetsUp
<1>7. CASE InitVPS \/ InitDO
  <2>0. 0 \in Secret
    BY WizardAssumption DEF Secret
  <2>1. mem' \in SavedStates
    <3>1. /\ [mem EXCEPT !.provider = "vps", !.host = OwnServer] \in SavedStates
          /\ [mem EXCEPT !.provider = "do", !.host = AppPlatform] \in SavedStates
      BY SetsPlace, <2>0, PlacesDiffer DEF Providers, WizardControl
    <3>. QED BY <1>7, <3>1 DEF InitVPS, InitDO
  <2>. QED BY <1>2, <1>4, <1>7, <2>1 DEF InitVPS, InitDO, WizardControl
<1>8. CASE UsesExistingDB
  <2>1. mem' \in SavedStates
    BY SetsSecret, <1>8, PlacesDiffer DEF UsesExistingDB, WizardControl
  <2>. QED BY <1>2, <1>4, <1>8, <2>1 DEF UsesExistingDB, WizardControl
<1>21. CASE BuysDatabase
  <2>1. run \in WizardRuns
    BY <1>21 DEF BuysDatabase
  <2>2. mem' \in SavedStates
    BY SetsSecret, <1>21, <2>1, PlacesDiffer DEF BuysDatabase, WizardControl
  <2>3. cloud' \in [key : Secret, server : 0..MaxRuns, database : 0..MaxRuns]
    BY <1>21 DEF BuysDatabase, WizardWorld
  <2>. QED BY <1>21, <2>2, <2>3 DEF BuysDatabase, Fine, WizardFile, WizardControl, WizardWorld
<1>9. CASE GeneratesKey \/ GeneratesSalt \/ GeneratesKeyPair
  <2>1. run \in WizardRuns
    BY <1>9 DEF GeneratesKey, GeneratesSalt, GeneratesKeyPair
  <2>2. mem' \in SavedStates
    BY <1>0, SetsSecret, <1>9, <2>1, PlacesDiffer
       DEF GeneratesKey, GeneratesSalt, GeneratesKeyPair, WizardControl
  <2>. QED BY <1>2, <1>4, <1>9, <2>2 DEF GeneratesKey, GeneratesSalt, GeneratesKeyPair, WizardControl
<1>10. CASE ServerAddressed
  <2>1. run \in WizardRuns /\ mem.ssh \in Secret
    BY <1>10 DEF ServerAddressed, SavedStates, WizardControl
  <2>2. mem' \in SavedStates
    <3>1. BoughtServer(run) \in Hosts /\ "hetzner" \in Providers
      BY <2>1, PlacesDiffer DEF Providers
    <3>2. [mem EXCEPT !.host = BoughtServer(run)] \in SavedStates
      BY <2>1, <3>1, SetsPlace DEF WizardControl
    <3>. QED BY <1>10, <3>2 DEF ServerAddressed
  <2>. QED BY <1>2, <1>4, <1>10, <2>1, <2>2 DEF ServerAddressed
<1>11. CASE StartsRun
  <2>3. lost' \in SUBSET Effects
    BY <1>2, <1>11, UnsaidAre DEF StartsRun
  <2>1. run' \in 0..MaxRuns /\ 0 \in Secret /\ WizardWorld'
    BY <1>11, <2>3, WorldStays, WizardAssumption DEF StartsRun, Secret
  <2>2. WizardFile' /\ mem' \in SavedStates
    BY <1>3, <1>11 DEF StartsRun, WizardFile, WizardControl
  <2>. QED BY <1>11, <2>1, <2>2 DEF Fine, StartsRun, WizardControl
<1>12. CASE SaveState \/ SaveStateKilled
  <2>1. WizardFile'
    BY <1>12 DEF SaveState, SaveStateKilled, WizardFile, WizardControl
  <2>2. world' = world /\ lost' \in SUBSET Effects
    BY <1>2, <1>12 DEF SaveState, SaveStateKilled
  <2>. QED BY <1>12, <2>1, <2>2, WorldStays DEF Fine, SaveState, SaveStateKilled, WizardControl
<1>13. CASE RegistersKey
  <2>1. run \in WizardRuns /\ mem.ssh \in Secret
    BY <1>13 DEF RegistersKey, SavedStates, WizardControl
  <2>2. PICK pair \in Secret :
          /\ mem' = [mem EXCEPT !.provider = "hetzner", !.ssh = pair]
          /\ cloud' = [cloud EXCEPT !.key = IF @ = 0 THEN pair ELSE @]
    BY <1>0, <1>13, <2>1 DEF RegistersKey
  <2>3. mem' \in SavedStates
    BY SetsPlace, <2>2, PlacesDiffer DEF Providers, WizardControl
  <2>4. cloud' \in [key : Secret, server : 0..MaxRuns, database : 0..MaxRuns]
    BY <2>2 DEF WizardWorld
  <2>. QED BY <1>13, <2>3, <2>4 DEF RegistersKey, Fine, WizardFile, WizardControl, WizardWorld
<1>22. CASE BuysServer
  <2>1. cloud' \in [key : Secret, server : 0..MaxRuns, database : 0..MaxRuns]
    BY <1>22 DEF BuysServer, WizardWorld
  <2>. QED BY <1>22, <2>1 DEF BuysServer, Fine, WizardFile, WizardControl, WizardWorld
<1>14. CASE CreatesDatabase
  <2>1. run \in WizardRuns
    BY <1>14 DEF CreatesDatabase
  <2>2. mem' \in SavedStates
    BY <1>0, SetsSecret, <1>14, <2>1, PlacesDiffer DEF CreatesDatabase, WizardControl
  <2>3. local' \in [Servers -> Secret]
    BY <1>0, <1>14, <2>1 DEF CreatesDatabase, DatabaseScript, WizardWorld
  <2>. QED BY <1>14, <2>2, <2>3 DEF CreatesDatabase, Fine, WizardFile, WizardControl, WizardWorld
<1>15. ASSUME NEW s \in Settings, StoresSetting(s) PROVE Fine
  <2>1. Encrypted(s) \in [key : Secret, value : Secret]
    BY DEF Encrypted, SavedStates, WizardControl
  <2>2. config' \in [Databases -> [Settings -> [key : Secret, value : Secret]]]
    BY <1>15, <2>1 DEF StoresSetting, WizardWorld
  <2>. QED BY <1>15, <2>2 DEF StoresSetting, Fine, WizardFile, WizardControl, WizardWorld
<1>16. ASSUME NEW s \in SavedStates, Deploy(s)
       PROVE  app' \in [Hosts -> [db : Databases \cup {NoDatabase}, key : Secret, salt : Secret]]
  <2>1. [db |-> s.db, key |-> s.key, salt |-> s.salt]
          \in [db : Databases \cup {NoDatabase}, key : Secret, salt : Secret]
    BY DEF SavedStates
  <2>. QED BY <1>16, <2>1 DEF Deploy, WizardWorld
<1>17. CASE Deploys
  <2>1. mem' \in SavedStates
    BY SetsFlag, <1>17 DEF Deploys, WizardControl
  <2>2. app' \in [Hosts -> [db : Databases \cup {NoDatabase}, key : Secret, salt : Secret]]
    BY <1>16, <1>17 DEF Deploys, WizardControl
  <2>. QED BY <1>17, <2>1, <2>2 DEF Deploys, Fine, WizardFile, WizardControl, WizardWorld
<1>18. CASE CreatesAdmin
  <2>1. run \in WizardRuns
    BY <1>18 DEF CreatesAdmin
  <2>2. mem' \in SavedStates
    BY <1>0, SetsSecret, <1>18, <2>1, PlacesDiffer DEF CreatesAdmin, WizardControl
  <2>3. users' \in [Databases -> Secret]
    BY <1>0, <1>18, <2>1 DEF CreatesAdmin, WizardWorld
  <2>. QED BY <1>18, <2>2, <2>3 DEF CreatesAdmin, Fine, WizardFile, WizardControl, WizardWorld
<1>19. CASE Update
  <2>1. app' \in [Hosts -> [db : Databases \cup {NoDatabase}, key : Secret, salt : Secret]]
    BY <1>16, <1>19 DEF Update, WizardFile
  <2>. QED BY <1>19, <2>1 DEF Update, Fine, WizardFile, WizardControl, WizardWorld
<1>20. CASE UNCHANGED wizardVars
  BY <1>20 DEF wizardVars, Fine, WizardFile, WizardControl, WizardWorld
<1>. QED
  BY <1>1, <1>5, <1>6, <1>7, <1>8, <1>9, <1>10, <1>11, <1>12, <1>13, <1>14, <1>15, <1>17, <1>18, <1>19,
     <1>20, <1>21, <1>22
     DEF WizardNext, WizardStep

\* What a run saves is what it goes on with.
LEMMA WizardSavedStep ==
  ASSUME WizardInv, [WizardNext]_wizardVars
  PROVE  WizardSaved'
<1>. USE DEF WizardInv, WizardSaved, WholeFile, At, Goes, SavesThen, FromConnect, FromVerify,
             FromSecrets, FromConfig, FromDeploy, FromAdmin
<1>1. CASE StartsRun
  BY <1>1 DEF StartsRun, FreshState, WizardTypeOK
<1>2. CASE SaveState \/ SaveStateKilled \/ StopsRun \/ Fails
  BY <1>2 DEF SaveState, SaveStateKilled, StopsRun, Fails
<1>3. CASE PushesImage \/ InitVPS \/ InitDO \/ RegistersKey \/ BuysServer \/ ServerAddressed
           \/ KeepsServer
  BY <1>3 DEF PushesImage, InitVPS, InitDO, RegistersKey, BuysServer, ServerAddressed, KeepsServer
<1>4. CASE Connects \/ SetsUp \/ KeepsDatabase \/ UsesExistingDB \/ CreatesDatabase \/ BuysDatabase
           \/ Verifies
  BY <1>4 DEF Connects, SetsUp, KeepsDatabase, UsesExistingDB, CreatesDatabase, BuysDatabase, Verifies
<1>5. CASE GeneratesKey \/ GeneratesSalt \/ GeneratesKeyPair \/ HasSecrets \/ StoredSettings
  BY <1>5 DEF GeneratesKey, GeneratesSalt, GeneratesKeyPair, HasSecrets, StoredSettings
<1>6. ASSUME NEW s \in Settings, StoresSetting(s) PROVE WizardSaved'
  BY <1>6 DEF StoresSetting
<1>7. CASE KeepsDeployment \/ Deploys \/ KeepsAdmin \/ CreatesAdmin \/ Summary
  BY <1>7 DEF KeepsDeployment, Deploys, KeepsAdmin, CreatesAdmin, Summary
<1>8. CASE Update
  BY <1>8 DEF Update
<1>9. CASE UNCHANGED wizardVars
  BY <1>9 DEF wizardVars
<1>. QED BY <1>1, <1>2, <1>3, <1>4, <1>5, <1>6, <1>7, <1>8, <1>9 DEF WizardNext, WizardStep

\* A run has done what comes before its step.
LEMMA WizardProgressStep ==
  ASSUME WizardInv, [WizardNext]_wizardVars
  PROVE  WizardProgress'
<1>. USE DEF WizardInv, WizardProgress, At, Goes, SavesThen, FromConnect, FromVerify,
             FromSecrets, FromConfig, FromDeploy, FromAdmin
<1>1. CASE StartsRun
  BY <1>1, WizardAssumption DEF StartsRun, WizardTypeOK, WizardRuns, Ended
<1>2. CASE SaveState \/ SaveStateKilled \/ StopsRun \/ Fails
  BY <1>2 DEF SaveState, SaveStateKilled, StopsRun, Fails, world, UrlOpens, Encrypted
<1>3. CASE PushesImage \/ InitVPS \/ InitDO \/ RegistersKey \/ BuysServer \/ ServerAddressed
           \/ KeepsServer
  <2>1. step \in {"image", "provider", "buying", "booting"} /\ run' = run /\ run \in WizardRuns
    BY <1>3 DEF PushesImage, InitVPS, InitDO, RegistersKey, BuysServer, ServerAddressed, KeepsServer
  <2>2. CASE PushesImage
    BY <2>1, <2>2 DEF PushesImage
  <2>3. CASE InitVPS \/ InitDO
    <3>1. mem'.host # Nowhere
      BY <2>3, PlacesDiffer DEF InitVPS, InitDO, WizardTypeOK, SavedStates
    <3>. QED BY <2>1, <2>3, <3>1 DEF InitVPS, InitDO
  <2>4. CASE RegistersKey
    <3>1. mem'.host = Nowhere /\ mem'.provider = "hetzner"
      BY <2>4 DEF RegistersKey, WizardTypeOK, SavedStates
    <3>. QED BY <2>1, <2>4, <3>1 DEF RegistersKey
  <2>7. CASE BuysServer
    BY <2>1, <2>7 DEF BuysServer
  <2>5. CASE ServerAddressed
    <3>1. mem'.host # Nowhere
      BY <2>1, <2>5, PlacesDiffer DEF ServerAddressed, WizardTypeOK, SavedStates
    <3>. QED BY <2>1, <2>5, <3>1 DEF ServerAddressed
  <2>6. CASE KeepsServer
    BY <2>1, <2>6 DEF KeepsServer
  <2>. QED BY <1>3, <2>2, <2>3, <2>4, <2>5, <2>6, <2>7
<1>4. CASE Connects \/ SetsUp
  BY <1>4 DEF Connects, SetsUp, WizardTypeOK, SavedStates
<1>5. CASE KeepsDatabase \/ UsesExistingDB \/ CreatesDatabase \/ BuysDatabase
  <2>1. /\ step = "database" /\ step' = "verify"
        /\ run' = run /\ run \in WizardRuns /\ mem.host # Nowhere
    BY <1>5 DEF KeepsDatabase, UsesExistingDB, CreatesDatabase, BuysDatabase
  <2>2. mem'.host = mem.host
    BY <1>5 DEF KeepsDatabase, UsesExistingDB, CreatesDatabase, BuysDatabase, WizardTypeOK, SavedStates
  <2>3. CASE KeepsDatabase
    BY <2>1, <2>2, <2>3 DEF KeepsDatabase
  <2>4. CASE UsesExistingDB
    <3>1. mem'.db = GivenDatabase
      BY <2>4 DEF UsesExistingDB, WizardTypeOK, SavedStates
    <3>. QED BY <2>1, <2>2, <3>1, PlacesDiffer
  <2>5. CASE CreatesDatabase
    <3>1. mem'.db \in Servers
      BY <2>5 DEF CreatesDatabase, WizardTypeOK, SavedStates
    <3>. QED BY <2>1, <2>2, <3>1, PlacesDiffer
  <2>6. CASE BuysDatabase
    <3>1. mem'.db = ManagedDatabase(run)
      BY <2>6 DEF BuysDatabase, WizardTypeOK, SavedStates
    <3>. QED BY <2>1, <2>2, <3>1, PlacesDiffer
  <2>. QED BY <1>5, <2>3, <2>4, <2>5, <2>6
<1>6. CASE Verifies \/ HasSecrets \/ StoredSettings \/ KeepsDeployment \/ KeepsAdmin \/ Summary
  BY <1>6 DEF Verifies, HasSecrets, StoredSettings, KeepsDeployment, KeepsAdmin, Summary, world, UrlOpens,
     Encrypted
<1>7. CASE GeneratesKey \/ GeneratesSalt \/ GeneratesKeyPair
  BY <1>7 DEF GeneratesKey, GeneratesSalt, GeneratesKeyPair, world, UrlOpens, WizardTypeOK, SavedStates
<1>8. ASSUME NEW s \in Settings, StoresSetting(s) PROVE WizardProgress'
  BY <1>8 DEF StoresSetting, UrlOpens
<1>9. CASE Deploys
  BY <1>9 DEF Deploys, UrlOpens, Encrypted, WizardTypeOK, SavedStates
<1>10. CASE CreatesAdmin
  BY <1>10 DEF CreatesAdmin, UrlOpens, Encrypted, WizardTypeOK, SavedStates, WizardRuns
<1>11. CASE Update
  BY <1>11 DEF Update, UrlOpens, Encrypted
<1>12. CASE UNCHANGED wizardVars
  BY <1>12 DEF wizardVars, UrlOpens, Encrypted
<1>. QED BY <1>1, <1>2, <1>3, <1>4, <1>5, <1>6, <1>7, <1>8, <1>9, <1>10, <1>11, <1>12
     DEF WizardNext, WizardStep

\* What the run's state says of the world is so.
LEMMA MemHolds ==
  ASSUME WizardInv, [WizardNext]_wizardVars, step' # "stopped"
  PROVE  HoldsOf(mem)'
<1>. USE DEF WizardInv, At, Goes, SavesThen
<1>1. CASE StartsRun
  <2>1. HoldsOf(FreshState)
    BY DEF HoldsOf, FreshState
  <2>2. \/ step' = "stopped"
        \/ file.is = "whole" /\ mem' = file.state
        \/ mem' = FreshState
    BY <1>1 DEF StartsRun
  <2>3. mem' = FreshState \/ (file.is = "whole" /\ mem' = file.state)
    BY <2>2
  <2>4. HoldsOf(mem')
    BY <2>1, <2>3
  <2>5. app' = app /\ users' = users
    BY <1>1 DEF StartsRun, world
  <2>. QED BY <2>4, <2>5 DEF HoldsOf
<1>2. ASSUME mem' = mem, app' = app, users' = users, step # "stopped" PROVE HoldsOf(mem)'
  BY <1>2 DEF HoldsOf
<1>3. CASE SaveState \/ SaveStateKilled \/ StopsRun \/ Fails \/ KeepsServer \/ KeepsDatabase
           \/ Verifies \/ HasSecrets \/ StoredSettings \/ KeepsDeployment \/ KeepsAdmin \/ Summary
           \/ UNCHANGED wizardVars
  BY <1>2, <1>3 DEF SaveState, SaveStateKilled, StopsRun, Fails, KeepsServer, KeepsDatabase, Verifies,
     HasSecrets, StoredSettings, KeepsDeployment, KeepsAdmin, Summary, wizardVars, world, WizardSaved,
     FromConnect, FromVerify, FromSecrets, FromConfig, FromDeploy, FromAdmin
<1>4. ASSUME NEW s \in Settings, StoresSetting(s) PROVE HoldsOf(mem)'
  BY <1>2, <1>4 DEF StoresSetting
<1>5. ASSUME app' = app, users' = users, step # "stopped", mem'.provider = mem.provider,
             mem'.host = mem.host, mem'.db = mem.db, mem'.key = mem.key, mem'.salt = mem.salt,
             mem'.deployed = mem.deployed, mem'.admin = mem.admin
      PROVE  HoldsOf(mem)'
  BY <1>5 DEF HoldsOf
<1>6. CASE PushesImage \/ Connects \/ SetsUp \/ GeneratesKeyPair
  BY <1>5, <1>6 DEF PushesImage, Connects, SetsUp, GeneratesKeyPair, world, WizardTypeOK, SavedStates
<1>7. CASE InitVPS \/ InitDO
  <2>0. HoldsOf(mem)
    BY <1>7 DEF InitVPS, InitDO
  <2>. DEFINE Kept == /\ mem'.db = mem.db /\ mem'.key = mem.key /\ mem'.salt = mem.salt
                      /\ mem'.deployed = mem.deployed /\ mem'.admin = mem.admin
                      /\ app' = app /\ users' = users
  <2>1. Kept
    <3>1. CASE InitVPS
      BY <3>1 DEF InitVPS, world, WizardTypeOK, SavedStates
    <3>2. CASE InitDO
      BY <3>2 DEF InitDO, world, WizardTypeOK, SavedStates
    <3>. QED BY <1>7, <3>1, <3>2
  <2>2. mem.deployed => mem.provider # "none"
    BY <2>0 DEF HoldsOf
  <2>3. CASE InitVPS
    <3>1. mem'.provider = "vps" /\ mem'.host = OwnServer
      BY <2>3 DEF InitVPS, WizardTypeOK, SavedStates
    <3>2. mem.deployed => mem.host = OwnServer
      BY <2>0, <2>2, <2>3 DEF InitVPS, HoldsOf
    <3>. QED BY <2>0, <2>1, <3>1, <3>2, PlacesDiffer DEF HoldsOf
  <2>4. CASE InitDO
    <3>1. mem'.provider = "do" /\ mem'.host = AppPlatform
      BY <2>4 DEF InitDO, WizardTypeOK, SavedStates
    <3>2. mem.deployed => mem.host = AppPlatform
      BY <2>0, <2>2, <2>4 DEF InitDO, HoldsOf
    <3>. QED BY <2>0, <2>1, <3>1, <3>2, PlacesDiffer DEF HoldsOf
  <2>. QED BY <1>7, <2>3, <2>4
<1>8. CASE RegistersKey
  BY <1>8 DEF RegistersKey, WizardTypeOK, SavedStates, HoldsOf
<1>9. CASE ServerAddressed
  BY <1>9 DEF ServerAddressed, world, WizardTypeOK, SavedStates, HoldsOf, WizardProgress
<1>10. CASE UsesExistingDB \/ CreatesDatabase \/ BuysDatabase
  BY <1>10 DEF UsesExistingDB, CreatesDatabase, BuysDatabase, world, WizardTypeOK, SavedStates, HoldsOf
<1>11. CASE GeneratesKey \/ GeneratesSalt
  BY <1>11 DEF GeneratesKey, GeneratesSalt, world, WizardTypeOK, SavedStates, HoldsOf
<1>12. CASE Deploys
  <2>1. mem.host \in Hosts /\ mem.db # NoDatabase /\ mem.key # 0 /\ mem.salt # 0
    BY <1>12 DEF Deploys, WizardProgress, WizardTypeOK, SavedStates, FromConnect, FromVerify, FromSecrets,
       FromConfig, FromDeploy
  <2>2. app'[mem.host] = [db |-> mem.db, key |-> mem.key, salt |-> mem.salt]
    BY <1>12, <2>1 DEF Deploys, Deploy, WizardTypeOK
  <2>3. /\ mem'.provider = mem.provider /\ mem'.host = mem.host /\ mem'.db = mem.db
        /\ mem'.key = mem.key /\ mem'.salt = mem.salt /\ mem'.admin = mem.admin
        /\ users' = users
    BY <1>12 DEF Deploys, WizardTypeOK, SavedStates
  <2>. QED BY <1>12, <2>1, <2>2, <2>3, PlacesDiffer DEF Deploys, HoldsOf
<1>13. CASE CreatesAdmin
  <2>1. mem.db \in Databases
    BY <1>13 DEF CreatesAdmin, WizardProgress, WizardTypeOK, SavedStates, FromVerify, FromSecrets,
       FromConfig, FromDeploy, FromAdmin
  <2>2. users'[mem.db] = run
    BY <1>13, <2>1 DEF CreatesAdmin, WizardTypeOK
  <2>3. /\ mem'.provider = mem.provider /\ mem'.host = mem.host /\ mem'.db = mem.db
        /\ mem'.key = mem.key /\ mem'.salt = mem.salt /\ mem'.deployed = mem.deployed
        /\ mem'.admin = run /\ app' = app
    BY <1>13 DEF CreatesAdmin, WizardTypeOK, SavedStates
  <2>. QED BY <1>13, <2>1, <2>2, <2>3, PlacesDiffer DEF CreatesAdmin, HoldsOf
<1>14. CASE Update
  <2>1. step = "complete" /\ file = WholeFile(mem)
    BY <1>14 DEF Update, Ended, WizardSaved, FromConnect, FromVerify, FromSecrets, FromConfig,
       FromDeploy, FromAdmin
  <2>2. mem.deployed /\ HoldsOf(mem) /\ file.state = mem
    BY <2>1 DEF WizardProgress, FromAdmin, WholeFile
  <2>3. app' = app
    BY <1>14, <2>2 DEF Update, Deploy, HoldsOf, WizardTypeOK
  <2>. QED BY <1>2, <1>14, <2>1, <2>3 DEF Update
<1>15. CASE BuysServer
  BY <1>2, <1>15 DEF BuysServer
<1>. QED BY <1>1, <1>3, <1>4, <1>6, <1>7, <1>8, <1>9, <1>10, <1>11, <1>12, <1>13, <1>14, <1>15
     DEF WizardNext, WizardStep

\* What the state file says of the world is so.
LEMMA FileHolds ==
  ASSUME WizardInv, [WizardNext]_wizardVars, file'.is = "whole"
  PROVE  HoldsOf(file.state)'
<1>. USE DEF WizardInv, At, Goes, SavesThen
<1>1. ASSUME file' = file, app' = app, users' = users PROVE HoldsOf(file.state)'
  BY <1>1 DEF HoldsOf
<1>2. CASE StartsRun
  <2>1. file' = file
    BY <1>2 DEF StartsRun
  <2>. QED BY <1>1, <1>2, <2>1 DEF StartsRun, world
<1>3. CASE SaveState
  <2>1. HoldsOf(mem) /\ file'.state = mem
    BY <1>3 DEF SaveState, WizardSaved, FromConnect, FromVerify, FromSecrets, FromConfig, FromDeploy,
       FromAdmin
  <2>. QED BY <1>3, <2>1 DEF SaveState, world, HoldsOf
<1>4. CASE SaveStateKilled
  BY <1>4 DEF SaveStateKilled, WizardTypeOK
<1>5. CASE StopsRun \/ Fails \/ KeepsServer \/ KeepsDatabase \/ Verifies \/ HasSecrets \/ StoredSettings
           \/ KeepsDeployment \/ KeepsAdmin \/ Summary \/ UNCHANGED wizardVars \/ PushesImage \/ Connects
           \/ SetsUp \/ GeneratesKeyPair \/ InitVPS \/ InitDO \/ RegistersKey \/ BuysServer
           \/ ServerAddressed \/ UsesExistingDB \/ CreatesDatabase \/ BuysDatabase \/ GeneratesKey \/ GeneratesSalt
  BY <1>1, <1>5 DEF StopsRun, Fails, KeepsServer, KeepsDatabase, Verifies, HasSecrets, StoredSettings,
     KeepsDeployment, KeepsAdmin, Summary, wizardVars, PushesImage, Connects, SetsUp, GeneratesKeyPair,
     InitVPS, InitDO, RegistersKey, BuysServer, ServerAddressed, UsesExistingDB, CreatesDatabase, BuysDatabase,
     GeneratesKey, GeneratesSalt, world
<1>6. ASSUME NEW s \in Settings, StoresSetting(s) PROVE HoldsOf(file.state)'
  BY <1>1, <1>6 DEF StoresSetting
<1>7. CASE Deploys
  <2>1. file = WholeFile(mem) /\ HoldsOf(mem) /\ file' = file /\ users' = users
    BY <1>7 DEF Deploys, WizardSaved, FromConnect, FromVerify, FromSecrets, FromConfig, FromDeploy
  <2>2. mem.deployed => app' = app
    BY <1>7, <2>1 DEF Deploys, Deploy, HoldsOf, WizardTypeOK
  <2>. QED BY <2>1, <2>2 DEF HoldsOf, WholeFile
<1>8. CASE CreatesAdmin
  <2>1. file = WholeFile(mem) /\ HoldsOf(mem) /\ file' = file /\ app' = app /\ mem.admin = 0
    BY <1>8 DEF CreatesAdmin, WizardSaved, FromConnect, FromVerify, FromSecrets, FromConfig, FromDeploy,
       FromAdmin
  <2>. QED BY <2>1 DEF HoldsOf, WholeFile
<1>9. CASE Update
  <2>1. HoldsOf(file.state) /\ file' = file /\ users' = users
    BY <1>9 DEF Update
  <2>2. file.state.deployed => app' = app
    BY <1>9, <2>1 DEF Update, Deploy, HoldsOf, WizardTypeOK
  <2>. QED BY <2>1, <2>2 DEF HoldsOf
<1>. QED BY <1>2, <1>3, <1>4, <1>5, <1>6, <1>7, <1>8, <1>9 DEF WizardNext, WizardStep

LEMMA WizardInvStep == WizardInv /\ [WizardNext]_wizardVars => WizardInv'
<1>. SUFFICES ASSUME WizardInv, [WizardNext]_wizardVars PROVE WizardInv'
  OBVIOUS
<1>1. WizardTypeOK'
  BY WizardTypeStep DEF WizardInv, WizardProgress
<1>2. WizardSaved' /\ WizardProgress'
  BY WizardSavedStep, WizardProgressStep
<1>3. step' # "stopped" => HoldsOf(mem)'
  BY MemHolds
<1>4. file'.is = "whole" => HoldsOf(file.state)'
  BY FileHolds
<1>. QED BY <1>1, <1>2, <1>3, <1>4 DEF WizardInv

LEMMA WizardInvInstalls == WizardInv => InstallWorks
<1>. SUFFICES ASSUME WizardInv, step = "complete" PROVE InstallWorks
  BY DEF InstallWorks
<1>1. ~dirty /\ file = WholeFile(mem)
  BY DEF WizardInv, WizardSaved, WizardTypeOK, FromConnect, FromVerify, FromSecrets, FromConfig, FromDeploy,
     FromAdmin
<1>2. /\ UrlOpens(mem) /\ mem.deployed /\ mem.admin # 0
      /\ \A s \in Settings : config[mem.db][s] = Encrypted(s)
  BY DEF WizardInv, WizardProgress, FromSecrets, FromConfig, FromDeploy, FromAdmin
<1>3. HoldsOf(mem)
  BY DEF WizardInv
<1>. QED BY <1>1, <1>2, <1>3 DEF InstallWorks, HoldsOf, WholeFile

\* However many runs the user needed, wherever each of them stopped or was killed, and
\* whatever of them was resumed, started over or updated: what a run that completed
\* printed works (runProvision's steps, the state file, runUpdate).
THEOREM CompletedInstallWorks == WizardSpec => []InstallWorks
  BY WizardInitInv, WizardInvStep, WizardInvInstalls, PTL DEF WizardSpec

-----------------------------------------------------------------------------
(* The types of the account, and of all the server keeps.                   *)

AccountRest ==
  /\ rowLock \in Tabs \cup {FreeLock}
  /\ flash \in [Tabs -> 0..MaxKeys]
  /\ uses \in Nat

AdminInv == CodesInv /\ Counted /\ AccountRest

LEMMA AdminInitInv == AdminInit => AdminInv
<1>1. AdminInit => AccountRest
  BY AdminAssumption DEF AdminInit, AccountRest
<1>. QED BY <1>1, CodesInit, CountedInit DEF AdminInv

LEMMA AdminInvStep == AdminInv /\ [AdminNext]_adminVars => AdminInv'
<1>. SUFFICES ASSUME AdminInv, [AdminNext]_adminVars PROVE AdminInv'
  OBVIOUS
<1>. USE DEF AdminInv, AccountRest
<1>1. ASSUME UNCHANGED flash, uses' \in Nat, rowLock' \in Tabs \cup {FreeLock} PROVE AccountRest'
  BY <1>1
<1>2. ASSUME NEW t \in Tabs, Login(t) \/ ChangesPassword(t) PROVE AccountRest'
  BY <1>1, <1>2 DEF Login, ChangesPassword, BoundedUse
<1>3. ASSUME NEW t \in Tabs, LocksCodes(t) \/ RemovesCode(t) PROVE AccountRest'
  BY <1>1, <1>3 DEF LocksCodes, RemovesCode
<1>4. ASSUME NEW t \in Tabs, FlashesKey(t) PROVE AccountRest'
  <2>1. tab[t].key \in 0..MaxKeys
    BY DEF CodesInv, Shapes, TabState
  <2>. QED BY <1>4, <2>1 DEF FlashesKey
<1>5. ASSUME NEW t \in Tabs, ShowsKey(t) PROVE AccountRest'
  BY <1>5, AdminAssumption DEF ShowsKey
<1>6. ASSUME NEW t \in Tabs,
             SubmitsCode(t) \/ AppCodeAccepted(t) \/ SecondFactorDone(t) \/ SessionEnds(t)
             \/ VerifyPassword(t) \/ VerifyTotp(t) \/ ConfirmReads(t) \/ SetBackupCodes(t)
             \/ EnableTOTP(t) \/ DisableTOTP(t) \/ EndsOtherSessions(t) \/ CreateAPIKey(t)
      PROVE  AccountRest'
  BY <1>1, <1>6 DEF SubmitsCode, AppCodeAccepted, SecondFactorDone, SessionEnds, VerifyPassword,
     VerifyTotp, ConfirmReads, SetBackupCodes, EnableTOTP, DisableTOTP, EndsOtherSessions, CreateAPIKey
<1>7. ASSUME WindowExpires \/ CleansWindows \/ UNCHANGED adminVars PROVE AccountRest'
  BY <1>1, <1>7 DEF WindowExpires, CleansWindows, adminVars
<1>8. AccountRest'
  BY <1>2, <1>3, <1>4, <1>5, <1>6, <1>7 DEF AdminNext
<1>. QED BY <1>8, CodesStep, CountedStep

LEMMA AdminInvTypes == AdminInv => AdminTypeOK
  BY DEF AdminInv, CodesInv, Shapes, Counted, AccountRest, AdminTypeOK, TabState, UserState

\* The parts keep their invariants beside each other.
ServerInv == area \in Areas /\ IInv /\ StoreInv /\ AdminInv /\ WizardInv /\ LeadInv

LEMMA ServerInitInv == ServerInit => ServerInv
  BY InitIInv, StoreInitInv, AdminInitInv, WizardInitInv, LeadInitInv
  DEF ServerInit, ServerInv

\* A step of the server is a step of one part, and the others stay.
LEMMA AreaSteps ==
  ASSUME [ServerNext]_serverVars
  PROVE  /\ area' = area
         /\ [ProvisionNext]_provisionVars /\ [StoreNext]_storeVars /\ [AdminNext]_adminVars
         /\ [WizardNext]_wizardVars /\ [LeadNext]_leadVars
<1>. USE DEF serverVars, ServerNext
<1>1. area' = area
  OBVIOUS
<1>2. [ProvisionNext]_provisionVars
  BY DEF MachinesStep, AllJobsStep, OneJobStep, AccountStep, InstallationStep,
         LeadsStep
<1>3. [StoreNext]_storeVars
  BY DEF MachinesStep, AllJobsStep, OneJobStep, AccountStep, InstallationStep,
         LeadsStep
<1>4. [AdminNext]_adminVars
  BY DEF MachinesStep, AllJobsStep, OneJobStep, AccountStep, InstallationStep,
         LeadsStep
<1>5. [WizardNext]_wizardVars
  BY DEF MachinesStep, AllJobsStep, OneJobStep, AccountStep, InstallationStep,
         LeadsStep
<1>6. [LeadNext]_leadVars
  BY DEF MachinesStep, AllJobsStep, OneJobStep, AccountStep, InstallationStep,
         LeadsStep
<1>. QED BY <1>1, <1>2, <1>3, <1>4, <1>5, <1>6

LEMMA ServerInvStep == ServerInv /\ [ServerNext]_serverVars => ServerInv'
  BY AreaSteps, IInvStep, StoreStep, AdminInvStep, WizardInvStep, LeadInvStep DEF ServerInv

\* Whatever happens to its machines, jobs, account, installation or lead pipeline, every
\* variable of the server keeps its type, for any number of each (the tables workers,
\* river_job, gmaps_results and users, the wizard's state file, the progress file).
THEOREM ServerTyping == ServerSpec => []ServerTypeOK
<1>1. ServerInv => ServerTypeOK
  <2>1. StoreInv => StoreTypeOK
    BY TypesAre DEF StoreInv
  <2>. QED BY <2>1, AdminInvTypes DEF ServerInv, ServerTypeOK, IInv, WizardInv, LeadInv
<1>. QED BY <1>1, ServerInitInv, ServerInvStep, PTL DEF ServerSpec

\* Each part of the server behaves as it does alone, whichever a behaviour is about.
THEOREM ServerIsParts ==
  ServerSpec => /\ ProvisionSpec /\ StoreSpec /\ AdminSpec
                /\ WizardInit /\ [][WizardNext]_wizardVars
                /\ LeadInit /\ [][LeadNext]_leadVars
<1>1. ServerInit => ProvisionInit /\ StoreInit /\ AdminInit /\ WizardInit /\ LeadInit
  BY DEF ServerInit
<1>2. [ServerNext]_serverVars
        => /\ [ProvisionNext]_provisionVars /\ [StoreNext]_storeVars /\ [AdminNext]_adminVars
           /\ [WizardNext]_wizardVars /\ [LeadNext]_leadVars
  BY AreaSteps
<1>. QED BY <1>1, <1>2, PTL DEF ServerSpec, ProvisionSpec, StoreSpec, AdminSpec

\* What the run of the server checks of its safety.
THEOREM ServerSafe ==
  ServerSpec => [](/\ NoOrphan
                   /\ DeleteAllReachesAll /\ OrphansExplained /\ CompletedAnswerHasResults
                   /\ BackupCodeOnce /\ GuessesBounded
                   /\ InstallWorks
                   /\ PassedIsDelivered /\ LeadsAreRight)
<1>1. WizardInit /\ [][WizardNext]_wizardVars => []InstallWorks
  BY WizardInitInv, WizardInvStep, WizardInvInstalls, PTL
<1>2. LeadInv => PassedIsDelivered /\ LeadsAreRight
  BY DEF LeadInv, LeadsAreRight, LeadsAgree, RunOrder
<1>3. LeadInit /\ [][LeadNext]_leadVars => [](PassedIsDelivered /\ LeadsAreRight)
  BY <1>2, LeadInitInv, LeadInvStep, PTL
<1>. QED
  BY <1>1, <1>3, ServerIsParts, NoMachineLost, DeleteAllComplete, OrphansAreLate, CompletedHasResults,
     CodeAcceptedOnce, GuessesStayBounded, PTL
=============================================================================
