----------------------------- MODULE AdminAuth -----------------------------
(***************************************************************************)
(* Signing in to the admin site, and the account pages behind it           *)
(* (admin/handlers_auth.go, handlers_2fa.go, handlers_settings.go,         *)
(* handlers_apikeys.go, middleware.go, admin/postgres/postgres.go,         *)
(* ratelimit/postgres/postgres.go, api/).                                  *)
(*                                                                         *)
(* One account, used from several browser tabs at a time.  Every handler   *)
(* is a sequence of separate statements on the database, so two tabs       *)
(* interleave between them; the one transaction is ValidateBackupCode's,   *)
(* which locks the user's row.  A set-up generates a secret and, later,    *)
(* backup codes; secrets and code sets are numbered in the order in which  *)
(* they are generated, 0 is none.                                          *)
(***************************************************************************)
EXTENDS Integers, FiniteSets

CONSTANTS
    Tabs,           \* browser tabs, each handling one request at a time
    MaxSetups,      \* secrets, and sets of backup codes, generated at most
    CodesEach,      \* backup codes in a set
    MaxGuesses,     \* 2FA attempts allowed in a window (max2FAAttempts)
    MaxUses,        \* sign-ins and changes of the password at most
    MaxKeys,        \* API keys created at most
    FreeLock        \* no transaction holds the user's row

ASSUME AdminAssumption ==
    /\ MaxSetups \in Nat /\ CodesEach \in Nat /\ MaxGuesses \in Nat /\ MaxUses \in Nat
    /\ MaxKeys \in Nat
    /\ FreeLock \notin Tabs

VARIABLES
    user,       \* the row in users: secret, totp_enabled, backup codes (the password is data)
    issued,     \* secrets and code sets generated so far
    pending,    \* the code set in app_config under pending_backup_codes, 0 is none
    tab,        \* per tab: the request it is in, its session and what the request read
    rowLock,    \* the tab whose transaction holds the user's row
    spent,      \* per backup code how often it was accepted since it was saved
    window,     \* the rate limiter's row for "2fa:<user>": counter, and whether it has expired
    guesses,    \* codes checked since the window began or was reset
    flash,      \* per tab the new API key waiting to be shown
    uses        \* sign-ins and changes of the password so far

adminVars == <<user, issued, pending, tab, rowLock, spent, window, guesses, flash, uses>>

Codes == (1..MaxSetups) \X (1..CodesEach)

TabStates == {"out", "second", "guessing", "removing", "accepted", "in", "confirming",
              "saved", "changing", "creating"}

AdminTypeOK ==
    /\ user \in [secret : 0..MaxSetups, enabled : BOOLEAN, codes : SUBSET Codes]
    /\ issued \in [secrets : 0..MaxSetups, sets : 0..MaxSetups, keys : 0..MaxKeys]
    /\ pending \in 0..MaxSetups
    /\ tab \in [Tabs -> [at : TabStates, guess : Codes \cup {<<>>},
                         read : SUBSET Codes, key : 0..MaxKeys]]
    /\ rowLock \in Tabs \cup {FreeLock}
    /\ spent \in [Codes -> Nat]
    /\ window \in [counter : Nat, expired : BOOLEAN]
    /\ guesses \in Nat
    /\ flash \in [Tabs -> 0..MaxKeys]
    /\ uses \in Nat

Idle == [at |-> "out", guess |-> <<>>, read |-> {}, key |-> 0]

AdminInit ==
    /\ user = [secret |-> 0, enabled |-> FALSE, codes |-> {}]
    /\ issued = [secrets |-> 0, sets |-> 0, keys |-> 0]
    /\ pending = 0 /\ guesses = 0 /\ uses = 0
    /\ tab = [t \in Tabs |-> Idle]
    /\ rowLock = FreeLock
    /\ spent = [c \in Codes |-> 0]
    /\ window = [counter |-> 0, expired |-> FALSE]
    /\ flash = [t \in Tabs |-> 0]

TabGoes(t, at) == tab' = [tab EXCEPT ![t].at = at]

\* An UPDATE of the user's row waits for the transaction that holds it.
RowFree == rowLock = FreeLock

BoundedUse == uses < MaxUses /\ uses' = uses + 1

-----------------------------------------------------------------------------
(* LoginSubmitHandler: the password, then a session, or for an account     *)
(* with two-factor authentication a pending session of five minutes.       *)

Login(t) ==
    /\ tab[t].at = "out" /\ BoundedUse
    /\ TabGoes(t, IF user.enabled THEN "second" ELSE "in")
    /\ UNCHANGED <<user, issued, pending, rowLock, spent, window, guesses, flash>>

\* TwoFactorVerifySubmitHandler first counts the attempt, in one upsert.
Check(w) ==
    IF w.expired \/ w.counter = 0 THEN [counter |-> 1, expired |-> FALSE]
    ELSE [w EXCEPT !.counter = @ + 1]

SubmitsCode(t) ==
    LET w == Check(window) IN
    /\ tab[t].at = "second"
    /\ window.expired \/ window.counter <= MaxGuesses    \* a bound: one refusal is enough
    /\ window' = w
    /\ IF w.counter <= MaxGuesses
       THEN /\ \E c \in Codes : tab' = [tab EXCEPT ![t].at = "guessing", ![t].guess = c]
            /\ guesses' = guesses + 1
       ELSE UNCHANGED <<tab, guesses>>
    /\ UNCHANGED <<user, issued, pending, rowLock, spent, flash, uses>>

\* The code is the authenticator's, or it is a backup code and the transaction
\* of ValidateBackupCode begins: the row's codes, FOR UPDATE.
AppCodeAccepted(t) ==
    /\ tab[t].at = "guessing" /\ user.secret # 0
    /\ TabGoes(t, "accepted")
    /\ UNCHANGED <<user, issued, pending, rowLock, spent, window, guesses, flash, uses>>

LocksCodes_NoLock(t) ==
    /\ tab[t].at = "guessing"
    /\ tab' = [tab EXCEPT ![t].at = "removing", ![t].read = user.codes]
    /\ UNCHANGED <<user, issued, pending, rowLock, spent, window, guesses, flash, uses>>
LocksCodes(t) ==
    /\ tab[t].at = "guessing" /\ RowFree
    /\ rowLock' = t
    /\ tab' = [tab EXCEPT ![t].at = "removing", ![t].read = user.codes]
    /\ UNCHANGED <<user, issued, pending, spent, window, guesses, flash, uses>>

\* The code that is found is removed and the transaction commits; one that is
\* not found, and a statement that fails, roll back.
RemovesCode(t) ==
    LET c == tab[t].guess IN
    /\ tab[t].at = "removing"
    /\ rowLock' = FreeLock
    /\ \/ /\ c \in tab[t].read
          /\ user' = [user EXCEPT !.codes = tab[t].read \ {c}]
          /\ spent' = [spent EXCEPT ![c] = @ + 1]
          /\ TabGoes(t, "accepted")
       \/ TabGoes(t, "second") /\ UNCHANGED <<user, spent>>
    /\ UNCHANGED <<issued, pending, window, guesses, flash, uses>>

\* The limits are reset, the pending session goes, the session is made.
SecondFactorDone(t) ==
    /\ tab[t].at = "accepted"
    /\ window' = [counter |-> 0, expired |-> FALSE]
    /\ guesses' = 0
    /\ tab' = [tab EXCEPT ![t] = [Idle EXCEPT !.at = "in"]]
    /\ UNCHANGED <<user, issued, pending, rowLock, spent, flash, uses>>

\* The session expires (GetSession deletes it, or the hourly cleanup), or the
\* user logs out.
SessionEnds(t) ==
    /\ tab[t].at \in {"second", "in"}
    /\ tab' = [tab EXCEPT ![t] = Idle]
    /\ UNCHANGED <<user, issued, pending, rowLock, spent, window, guesses, flash, uses>>

WindowExpires ==
    /\ window.counter > 0 /\ ~window.expired
    /\ window' = [window EXCEPT !.expired = TRUE]
    /\ guesses' = 0
    /\ UNCHANGED <<user, issued, pending, tab, rowLock, spent, flash, uses>>

\* The hourly cleanup removes the rows of windows that began an hour ago: no
\* window is that long, so these have expired.
CleansWindows_All ==
    /\ window' = [counter |-> 0, expired |-> FALSE]
    /\ UNCHANGED <<user, issued, pending, tab, rowLock, spent, guesses, flash, uses>>
CleansWindows ==
    /\ window.expired
    /\ window' = [counter |-> 0, expired |-> FALSE]
    /\ UNCHANGED <<user, issued, pending, tab, rowLock, spent, guesses, flash, uses>>

-----------------------------------------------------------------------------
(* TwoFactorSetupSubmitHandler's three steps, and TwoFactorDisableHandler.  *)

\* verify_password: a new secret is stored, whatever was there.
VerifyPassword(t) ==
    /\ tab[t].at = "in" /\ RowFree /\ issued.secrets < MaxSetups
    /\ issued' = [issued EXCEPT !.secrets = @ + 1]
    /\ user' = [user EXCEPT !.secret = issued.secrets + 1]
    /\ UNCHANGED <<pending, tab, rowLock, spent, window, guesses, flash, uses>>

\* verify_totp: a code of the stored secret, then new backup codes in app_config.
VerifyTotp(t) ==
    /\ tab[t].at = "in" /\ user.secret # 0 /\ issued.sets < MaxSetups
    /\ issued' = [issued EXCEPT !.sets = @ + 1]
    /\ pending' = issued.sets + 1
    /\ UNCHANGED <<user, tab, rowLock, spent, window, guesses, flash, uses>>

\* confirm_backup: the codes are read, saved with the user, and only then is
\* two-factor authentication switched on.
ConfirmReads(t) ==
    /\ tab[t].at = "in" /\ pending # 0
    /\ tab' = [tab EXCEPT ![t].at = "confirming", ![t].read = {pending} \X (1..CodesEach)]
    /\ UNCHANGED <<user, issued, pending, rowLock, spent, window, guesses, flash, uses>>

SetBackupCodes(t) ==
    /\ tab[t].at = "confirming"
    /\ \/ /\ RowFree
          /\ user' = [user EXCEPT !.codes = tab[t].read]
          /\ spent' = [c \in Codes |-> IF c \in tab[t].read THEN 0 ELSE spent[c]]
          /\ TabGoes(t, "saved")
       \/ tab' = [tab EXCEPT ![t] = [Idle EXCEPT !.at = "in"]] /\ UNCHANGED <<user, spent>>
    /\ UNCHANGED <<issued, pending, rowLock, window, guesses, flash, uses>>

EnableTOTP(t) ==
    /\ tab[t].at = "saved"
    /\ \/ RowFree /\ user' = [user EXCEPT !.enabled = TRUE] /\ pending' = 0
       \/ UNCHANGED <<user, pending>>
    /\ tab' = [tab EXCEPT ![t] = [Idle EXCEPT !.at = "in"]]
    /\ UNCHANGED <<issued, rowLock, spent, window, guesses, flash, uses>>

DisableTOTP(t) ==
    /\ tab[t].at = "in" /\ RowFree
    /\ user' = [user EXCEPT !.enabled = FALSE, !.secret = 0, !.codes = {}]
    /\ UNCHANGED <<issued, pending, tab, rowLock, spent, window, guesses, flash, uses>>

-----------------------------------------------------------------------------
(* ChangePasswordHandler and the API keys.                                 *)

ChangesPassword(t) ==
    /\ tab[t].at = "in" /\ RowFree /\ BoundedUse
    /\ TabGoes(t, "changing")
    /\ UNCHANGED <<user, issued, pending, rowLock, spent, window, guesses, flash>>

\* DeleteUserSessionsExcept; its error is only logged.
EndsOtherSessions(t) ==
    /\ tab[t].at = "changing"
    /\ tab' = [u \in Tabs |-> IF u = t THEN [tab[u] EXCEPT !.at = "in"]
                              ELSE IF tab[u].at \in {"second", "in"} THEN Idle ELSE tab[u]]
    /\ UNCHANGED <<user, issued, pending, rowLock, spent, window, guesses, flash, uses>>

CreateAPIKey(t) ==
    /\ tab[t].at = "in" /\ issued.keys < MaxKeys
    /\ issued' = [issued EXCEPT !.keys = @ + 1]
    /\ tab' = [tab EXCEPT ![t].at = "creating", ![t].key = issued.keys + 1]
    /\ UNCHANGED <<user, pending, rowLock, spent, window, guesses, flash, uses>>

\* The raw key is kept in memory for the redirect.
FlashesKey(t) ==
    /\ tab[t].at = "creating"
    /\ flash' = [flash EXCEPT ![t] = tab[t].key]
    /\ tab' = [tab EXCEPT ![t] = [Idle EXCEPT !.at = "in"]]
    /\ UNCHANGED <<user, issued, pending, rowLock, spent, window, guesses, uses>>

ShowsKey(t) ==
    /\ tab[t].at = "in" /\ flash[t] # 0
    /\ flash' = [flash EXCEPT ![t] = 0]
    /\ UNCHANGED <<user, issued, pending, tab, rowLock, spent, window, guesses, uses>>

-----------------------------------------------------------------------------
AdminNext ==
    \/ \E t \in Tabs :
          Login(t) \/ SubmitsCode(t) \/ AppCodeAccepted(t) \/ LocksCodes(t) \/ RemovesCode(t)
          \/ SecondFactorDone(t) \/ SessionEnds(t) \/ VerifyPassword(t) \/ VerifyTotp(t)
          \/ ConfirmReads(t) \/ SetBackupCodes(t) \/ EnableTOTP(t) \/ DisableTOTP(t)
          \/ ChangesPassword(t) \/ EndsOtherSessions(t) \/ CreateAPIKey(t)
          \/ FlashesKey(t) \/ ShowsKey(t)
    \/ WindowExpires \/ CleansWindows

AdminSpec == AdminInit /\ [][AdminNext]_adminVars

-----------------------------------------------------------------------------
\* A backup code signs in once: of two requests that carry the same code at the
\* same time one is refused.
BackupCodeOnce == \A c \in Codes : spent[c] <= 1

\* No more than MaxGuesses codes are checked in a window without one being right,
\* from however many tabs they come and whenever the cleanup runs.
GuessesBounded == guesses <= MaxGuesses
=============================================================================
