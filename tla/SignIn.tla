------------------------------- MODULE SignIn -------------------------------
(***************************************************************************)
(* Signing in to one account of the panel: sessions, the second factor and *)
(* the login challenges of c/src/auth_security.c, as the handlers of       *)
(* c/src/http_routes_security.c and http_routes_admin.c call them.  Every  *)
(* function of auth_security.c holds the database mutex and is one step; a *)
(* handler that calls several of them is several steps.  Time is counted   *)
(* in the 30-second steps of the one-time codes.                           *)
(***************************************************************************)
EXTENDS Integers, FiniteSets

CONSTANTS SessionIds,   \* sessions at one time (the code keeps 100)
          LastStep,     \* the clock stops here
          Enrolments,   \* secrets handed out
          WrongCodes,   \* failures that lock the second factor (5)
          LockSteps,    \* how long it stays locked (300 s)
          PendingSteps  \* how long a setup may be confirmed (600 s)

VARIABLES factor,       \* the auth_mfa row and the recovery codes
          sessions,     \* live sessions: [id, factor (issued after a code), kept]
          challenge,    \* an unexpired login challenge exists
          login,        \* a login request between its steps
          change,       \* an account request between its steps
          step,         \* now / 30
          spent         \* the codes accepted so far, and whether one was twice

signVars == <<factor, sessions, challenge, login, change, step, spent>>

NoSecret == 0
Enabled == factor.secret # NoSecret
SignIdle == "idle"

SignInit ==
    /\ factor = [secret |-> NoSecret, pending |-> NoSecret, until |-> 0, last |-> -1,
                 failures |-> 0, locked |-> 0, recovery |-> FALSE, issued |-> 0]
    /\ sessions = {} /\ challenge = FALSE /\ login = SignIdle
    /\ change = [at |-> SignIdle, session |-> 0] /\ step = 0
    /\ spent = [codes |-> {}, twice |-> FALSE]

SignTick == /\ step < LastStep /\ step' = step + 1
            /\ UNCHANGED <<factor, sessions, challenge, login, change, spent>>

\* The challenge expires, or a later one pushes it out.
ChallengeExpires == /\ challenge /\ challenge' = FALSE
                    /\ UNCHANGED <<factor, sessions, login, change, step, spent>>
-----------------------------------------------------------------------------
(***************************************************************************)
(* mfa_verify_locked.  A code is the secret it belongs to and its step; a  *)
(* recovery code has the step -2.                                          *)
(***************************************************************************)
RecoveryStep == -2
Window == {k \in (step - 1)..(step + 1) : k >= 0}
Spend(code) == spent' = [codes |-> spent.codes \cup {code}, twice |-> spent.twice \/ code \in spent.codes]

Unlocked == factor.locked <= step

Failing == [factor EXCEPT !.failures = (@ + 1) % WrongCodes,
                          !.locked = IF factor.failures + 1 = WrongCodes THEN step + LockSteps ELSE 0]

Settled == [factor EXCEPT !.failures = 0, !.locked = 0]

Verifies(k) ==
    /\ Enabled /\ Unlocked
    /\ \/ k \in Window /\ k > factor.last /\ factor' = [Settled EXCEPT !.last = k]
       \/ k = RecoveryStep /\ factor.recovery /\ factor' = [Settled EXCEPT !.recovery = FALSE]
    /\ Spend(<<factor.secret, k>>)

Codes == {RecoveryStep} \cup (0..(LastStep + 1))

\* A wrong code for the second factor, wherever it is asked for, is counted and
\* committed although the request fails.
WrongCode ==
    /\ \/ challenge /\ Enabled /\ UNCHANGED change
       \/ /\ \/ change.at = "code" /\ Enabled
             \/ change.at = "session" /\ factor.pending # NoSecret /\ factor.until > step
          /\ change' = [at |-> SignIdle, session |-> 0]
    /\ Unlocked /\ factor' = Failing
    /\ UNCHANGED <<sessions, challenge, login, step, spent>>
-----------------------------------------------------------------------------
(***************************************************************************)
(* Login: the password is right, the status is read, a session is issued   *)
(* or a challenge is stored.                                               *)
(***************************************************************************)
\* issue_locked: the newest session stays, the limit drops an older one.
Issued(proved) ==
    \E id \in SessionIds :
       /\ (\E i \in SessionIds : \A s \in sessions : s.id # i) => \A s \in sessions : s.id # id
       /\ sessions' = {s \in sessions : s.id # id} \cup {[id |-> id, factor |-> proved, kept |-> FALSE]}

LoginVerified ==
    /\ login = SignIdle /\ login' = "password"
    /\ UNCHANGED <<factor, sessions, challenge, change, step, spent>>

LoginStatus ==
    /\ login = "password" /\ login' = IF Enabled THEN "challenge" ELSE "issue"
    /\ UNCHANGED <<factor, sessions, challenge, change, step, spent>>

LoginIssueUnchecked ==
    /\ login = "issue" /\ login' = SignIdle /\ Issued(FALSE)
    /\ UNCHANGED <<factor, challenge, change, step, spent>>

\* sb_auth_security_issue asks again under the mutex whether a code is required.
LoginIssue ==
    /\ login = "issue" /\ login' = SignIdle
    /\ IF Enabled THEN UNCHANGED sessions ELSE Issued(FALSE)
    /\ UNCHANGED <<factor, challenge, change, step, spent>>

LoginChallenge ==
    /\ login = "challenge" /\ login' = SignIdle
    /\ challenge' = (challenge \/ Enabled)
    /\ UNCHANGED <<factor, sessions, change, step, spent>>

\* sb_auth_security_complete_bound: code, challenge and session in one transaction.
CompleteLogin(k) ==
    /\ challenge /\ Verifies(k)
    /\ challenge' = FALSE /\ Issued(TRUE)
    /\ UNCHANGED <<login, change, step>>

Logout(s) ==
    /\ sessions' = sessions \ {s}
    /\ UNCHANGED <<factor, challenge, login, change, step, spent>>
-----------------------------------------------------------------------------
(***************************************************************************)
(* Account changes: the request's session is verified; all but the         *)
(* confirmation ask for a fresh proof.                                     *)
(***************************************************************************)
Ends == change' = [at |-> SignIdle, session |-> 0]

ChangeArrives(s) ==
    /\ change.at = SignIdle /\ change' = [at |-> "session", session |-> s.id]
    /\ UNCHANGED <<factor, sessions, challenge, login, step, spent>>

\* Refused without counting: a malformed body, a wrong password, a locked factor.
ChangeRefused == /\ change.at # SignIdle /\ Ends
                 /\ UNCHANGED <<factor, sessions, challenge, login, step, spent>>

\* fresh_proof: the status decides whether a code is asked for.
ProofStatus ==
    /\ change.at = "session" /\ change' = [change EXCEPT !.at = IF Enabled THEN "code" ELSE "fresh"]
    /\ UNCHANGED <<factor, sessions, challenge, login, step, spent>>

ProofCode(k) ==
    /\ change.at = "code" /\ Verifies(k) /\ change' = [change EXCEPT !.at = "fresh"]
    /\ UNCHANGED <<sessions, challenge, login, step>>

MfaBegin ==
    /\ change.at = "fresh" /\ factor.issued < Enrolments
    /\ factor' = [factor EXCEPT !.issued = @ + 1, !.pending = factor.issued + 1, !.until = step + PendingSteps]
    /\ Ends /\ UNCHANGED <<sessions, challenge, login, step, spent>>

Keep == {[s EXCEPT !.kept = TRUE] : s \in {t \in sessions : t.id = change.session}}

\* sb_auth_mfa_confirm: the pending secret becomes the secret, its code is spent,
\* new recovery codes; the other sessions and the challenges go.
MfaConfirm(k) ==
    /\ change.at = "session" /\ factor.pending # NoSecret /\ factor.until > step /\ Unlocked
    /\ k \in Window /\ Spend(<<factor.pending, k>>)
    /\ factor' = [Settled EXCEPT !.secret = factor.pending, !.pending = NoSecret, !.until = 0,
                                 !.last = k, !.recovery = TRUE]
    /\ sessions' = Keep /\ challenge' = FALSE /\ Ends
    /\ UNCHANGED <<login, step>>

MfaDisable ==
    /\ change.at = "fresh"
    /\ factor' = [factor EXCEPT !.secret = NoSecret, !.pending = NoSecret, !.until = 0, !.last = -1,
                                !.failures = 0, !.locked = 0, !.recovery = FALSE]
    /\ sessions' = {s \in sessions : s.id = change.session} /\ challenge' = FALSE /\ Ends
    /\ UNCHANGED <<login, step, spent>>

\* own_password, an administrator's reset or role change: every session and
\* challenge of the account is revoked.
RevokeAll ==
    /\ sessions' = {} /\ challenge' = FALSE
    /\ change' = IF change.at = "fresh" THEN [at |-> SignIdle, session |-> 0] ELSE change
    /\ UNCHANGED <<factor, login, step, spent>>

SignNext ==
    \/ SignTick \/ ChallengeExpires \/ WrongCode
    \/ LoginVerified \/ LoginStatus \/ LoginIssue \/ LoginChallenge
    \/ \E k \in Codes : CompleteLogin(k) \/ ProofCode(k) \/ MfaConfirm(k)
    \/ \E s \in sessions : Logout(s) \/ ChangeArrives(s)
    \/ ChangeRefused \/ ProofStatus \/ MfaBegin \/ MfaDisable \/ RevokeAll

SignSpec == SignInit /\ [][SignNext]_signVars
-----------------------------------------------------------------------------
(***************************************************************************)
(* Properties.                                                             *)
(***************************************************************************)
\* With the second factor on, every live session was opened with a code, or is the
\* one that confirmed the setup: a login that read the status before the setup was
\* confirmed and goes on after it opens none (the check inside issue_locked).  And a code
\* proves once: no one-time code of a secret and no recovery code is accepted twice,
\* whichever of login, fresh proof and setup confirmation accepts it first (last_step, used_at).
SessionsProved ==
    /\ Enabled => \A s \in sessions : s.factor \/ s.kept
    /\ ~spent.twice

=============================================================================
