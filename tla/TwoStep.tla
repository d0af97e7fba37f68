------------------------------ MODULE TwoStep ------------------------------
(***************************************************************************)
(* Two-step verification of one person (postgres-identity-service.js,      *)
(* mfa.js, totp.js, the mfa routes of server.js): the person's row of      *)
(* user_mfa, the sessions, and the codes.                                  *)
(*                                                                         *)
(* A request looks at its session (requireAuth) and works in a transaction *)
(* later; that transaction locks the row of user_mfa and so is one step.   *)
(* A secret is its number and a code is the secret's at a time step, so no *)
(* two codes are equal by chance.  Time is counted in time steps.          *)
(***************************************************************************)
EXTENDS Integers, FiniteSets, Sequences

CONSTANTS
  Sessions,         \* sign-ins of the person
  BackupCodes,      \* how many backup codes a batch has
  SessionFailures,  \* MFA_LIMITS.sessionFailures
  UserFailures,     \* MFA_LIMITS.userFailures
  WindowLength,     \* MFA_LIMITS.windowMs
  LockLength,       \* MFA_LIMITS.lockMs
  MaxSecrets,       \* bound of the model: secrets that are generated
  MaxBatches,       \* bound of the model: batches of backup codes
  MaxSteps          \* bound of the model: time

ASSUME TwoStepAssumption ==
  /\ BackupCodes \in Nat
  /\ SessionFailures \in Nat \ {0} /\ UserFailures \in Nat \ {0}
  /\ WindowLength \in Nat /\ LockLength \in Nat \ {0}
  /\ MaxSecrets \in Nat /\ MaxBatches \in Nat /\ MaxSteps \in Nat \ {0}

\* As in MFA_LIMITS, a lock is no shorter than the window, and takes more than one wrong code.
ASSUME LimitsAssumption == WindowLength <= LockLength /\ UserFailures >= 2

VARIABLES
  mfa,       \* the person's row of user_mfa; NotEnrolled where there is none
  required,  \* users.mfa_required
  sessions,  \* phase, the secret whose code verified it, wrong codes, the request it has under way
  steps,     \* timeStep(clock())
  secrets,   \* how many secrets have been generated, ...
  batches,   \* ... and how many batches of backup codes
  spent,     \* history: the codes that have been accepted
  wrong      \* history: when wrong codes came, since the person last proved or lost the second step

twoStepVars == <<mfa, required, sessions, steps, secrets, batches, spent, wrong>>

-----------------------------------------------------------------------------
Times == 1..MaxSteps
NotEnrolled == [enabled |-> FALSE, secret |-> 0, pending |-> 0, lastStep |-> 0, backups |-> {},
                failedCount |-> 0, failedSince |-> 0, lockedUntil |-> 0]
Asks == {"enrol", "fresh"}
SignedOut == [phase |-> "free", verified |-> 0, failures |-> 0, asks |-> "none"]

TwoStepInit ==
  /\ mfa = NotEnrolled /\ required = FALSE
  /\ sessions = [s \in Sessions |-> SignedOut]
  /\ steps = 1 /\ secrets = 0 /\ batches = 0
  /\ spent = {} /\ wrong = <<>>

\* stateFor, for this session.
State(s) ==
  IF mfa.enabled THEN IF sessions[s].verified # 0 THEN "verified" ELSE "verification_required"
  ELSE IF required THEN "enrollment_required" ELSE "verified"

\* lockedFor.
Throttled == mfa.lockedUntil > steps

Batch(n) == { [kind |-> "backup", of |-> n, at |-> i] : i \in 1..BackupCodes }
Totp(secret, step) == [kind |-> "totp", of |-> secret, at |-> step]

\* Mutant: the step of the last code is good once more.
FitsFromLast(c, secret, last) == c.kind = "totp" /\ c.of = secret /\ c.at \in steps - 1..steps + 1 /\ c.at >= last

\* verifyTotp: the code of this step or a neighbour, and of none at or before last.
Fits(c, secret, last) == c.kind = "totp" /\ c.of = secret /\ c.at \in steps - 1..steps + 1 /\ c.at > last

\* evaluate.
Accepts(c) == Fits(c, mfa.secret, mfa.lastStep) \/ c \in mfa.backups

\* The codes somebody could type that are of any use.
Codes == { Totp(n, t) : n \in 1..secrets, t \in 1..MaxSteps + 1 } \cup UNION { Batch(n) : n \in 1..batches }

-----------------------------------------------------------------------------
(***************************************************************************)
(* Sign-in                                                                 *)
(***************************************************************************)
\* authenticate inserts a session that is not verified.
SignIn(s) ==
  /\ sessions[s] = SignedOut
  /\ sessions' = [sessions EXCEPT ![s].phase = "live"]
  /\ UNCHANGED <<mfa, required, steps, secrets, spent, wrong, batches>>

\* What becomes of a session that ends: what it has asked for goes on.
Ended(session) == IF session.asks = "none" THEN SignedOut ELSE [SignedOut EXCEPT !.phase = "ended", !.asks = session.asks]

\* It expires, or is revoked or left.
SessionEnds(s) ==
  /\ sessions[s].phase = "live"
  /\ sessions' = [sessions EXCEPT ![s] = Ended(@)]
  /\ UNCHANGED <<mfa, required, steps, secrets, spent, wrong, batches>>

\* requireAuth, with pendingOk for what finishes signing in.
MayAsk(s, ask) ==
  /\ sessions[s].phase = "live"
  /\ ask = "fresh" => State(s) = "verified"

Asked(s, ask) ==
  /\ MayAsk(s, ask) /\ sessions[s].asks = "none"
  /\ sessions' = [sessions EXCEPT ![s].asks = ask]
  /\ UNCHANGED <<mfa, required, steps, secrets, spent, wrong, batches>>

-----------------------------------------------------------------------------
(***************************************************************************)
(* What the requests do                                                    *)
(***************************************************************************)
Replied(s) == [sessions EXCEPT ![s] = IF @.phase = "live" THEN [@ EXCEPT !.asks = "none"] ELSE SignedOut]

\* Refused, or failed: notEnrolled, notStarted, alreadyEnrolled, throttled, no code, a lost connection.
Refused(s) ==
  /\ sessions[s].asks # "none"
  /\ sessions' = Replied(s)
  /\ UNCHANGED <<mfa, required, steps, secrets, spent, wrong, batches>>

\* Mutant: the lock comes a wrong code late.
AfterFailureLate ==
  LET fresh == mfa.failedSince = 0 \/ steps - mfa.failedSince > WindowLength
      count == (IF fresh THEN 0 ELSE mfa.failedCount) + 1
  IN  [mfa EXCEPT !.failedCount = count,
                  !.failedSince = IF fresh THEN steps ELSE @,
                  !.lockedUntil = IF count > UserFailures THEN steps + LockLength ELSE @]

\* afterFailure.
AfterFailure ==
  LET fresh == mfa.failedSince = 0 \/ steps - mfa.failedSince > WindowLength
      count == (IF fresh THEN 0 ELSE mfa.failedCount) + 1
  IN  [mfa EXCEPT !.failedCount = count,
                  !.failedSince = IF fresh THEN steps ELSE @,
                  !.lockedUntil = IF count >= UserFailures THEN steps + LockLength ELSE @]

\* Mutant: wrong codes do not end a session.
WrongCodeCounted(s) ==
  /\ ~Throttled
  /\ \/ /\ sessions[s].phase = "live" /\ mfa.enabled
        /\ sessions' = [sessions EXCEPT ![s].failures = @ + 1]
     \/ /\ \/ sessions[s].asks = "enrol" /\ ~mfa.enabled /\ mfa.pending # 0
           \/ sessions[s].asks = "fresh" /\ mfa.enabled
        /\ sessions' = Replied(s)
  /\ mfa' = AfterFailure
  /\ wrong' = Append(wrong, steps)
  /\ UNCHANGED <<required, steps, secrets, spent, batches>>

\* A wrong code, of the verification, the confirmation or what needs a fresh code: it is
\* counted although the request fails, and enough of them end a session that is being verified.
WrongCode(s) ==
  /\ ~Throttled
  /\ \/ /\ sessions[s].phase = "live" /\ mfa.enabled
        /\ sessions' = [sessions EXCEPT ![s] =
             IF sessions[s].failures + 1 >= SessionFailures THEN Ended(sessions[s])
             ELSE [sessions[s] EXCEPT !.failures = @ + 1]]
     \/ /\ \/ sessions[s].asks = "enrol" /\ ~mfa.enabled /\ mfa.pending # 0
           \/ sessions[s].asks = "fresh" /\ mfa.enabled
        /\ sessions' = Replied(s)
  /\ mfa' = AfterFailure
  /\ wrong' = Append(wrong, steps)
  /\ UNCHANGED <<required, steps, secrets, spent, batches>>

Cleared(r) == [r EXCEPT !.failedCount = 0, !.failedSince = 0, !.lockedUntil = 0]

\* What accepting a code does to the row.
Consumed(c) ==
  Cleared(IF c.kind = "totp" THEN [mfa EXCEPT !.lastStep = c.at] ELSE [mfa EXCEPT !.backups = @ \ {c}])

Proved(c) == spent' = spent \cup {c} /\ wrong' = <<>>

\* mfaVerify, which reads the session again in its transaction.
MfaVerify(s, c) ==
  /\ sessions[s].phase = "live"
  /\ mfa.enabled /\ ~Throttled /\ Accepts(c)
  /\ mfa' = Consumed(c) /\ Proved(c)
  /\ sessions' = [sessions EXCEPT ![s].verified = mfa.secret, ![s].failures = 0]
  /\ UNCHANGED <<required, steps, secrets, batches>>

\* mfaStartEnrollment.
MfaStartEnrollment(s) ==
  /\ sessions[s].asks = "enrol" /\ ~mfa.enabled
  /\ secrets < MaxSecrets /\ secrets' = secrets + 1
  /\ mfa' = [mfa EXCEPT !.pending = secrets']
  /\ sessions' = Replied(s)
  /\ UNCHANGED <<required, steps, spent, wrong, batches>>

NewBatch == batches < MaxBatches /\ batches' = batches + 1

\* Mutant: the other sessions stay as they are.
MfaConfirmEnrollmentAlone(s, c) ==
  /\ sessions[s].asks = "enrol"
  /\ ~mfa.enabled /\ mfa.pending # 0 /\ ~Throttled
  /\ Fits(c, mfa.pending, 0)
  /\ NewBatch /\ Proved(c)
  /\ mfa' = [NotEnrolled EXCEPT !.enabled = TRUE, !.secret = mfa.pending, !.lastStep = c.at,
                          !.backups = Batch(batches')]
  /\ sessions' = IF sessions[s].phase = "live"
                 THEN [sessions EXCEPT ![s].asks = "none", ![s].verified = mfa.pending, ![s].failures = 0]
                 ELSE [sessions EXCEPT ![s] = SignedOut]
  /\ UNCHANGED <<required, steps, secrets>>

\* mfaConfirmEnrollment: the others' verification ends.
MfaConfirmEnrollment(s, c) ==
  /\ sessions[s].asks = "enrol"
  /\ ~mfa.enabled /\ mfa.pending # 0 /\ ~Throttled
  /\ Fits(c, mfa.pending, 0)
  /\ NewBatch /\ Proved(c)
  /\ mfa' = [NotEnrolled EXCEPT !.enabled = TRUE, !.secret = mfa.pending, !.lastStep = c.at,
                          !.backups = Batch(batches')]
  /\ sessions' = [x \in Sessions |->
       IF x # s THEN [sessions[x] EXCEPT !.verified = 0]
       ELSE IF sessions[s].phase = "live"
            THEN [sessions[s] EXCEPT !.asks = "none", !.verified = mfa.pending, !.failures = 0]
            ELSE SignedOut]
  /\ UNCHANGED <<required, steps, secrets>>

\* #withFreshCode: a code of the authenticator, spent with what it is for.
WithFreshCode(s, c) ==
  /\ sessions[s].asks = "fresh"
  /\ mfa.enabled /\ ~Throttled /\ Fits(c, mfa.secret, mfa.lastStep)
  /\ Proved(c)
  /\ sessions' = Replied(s)

\* mfaRegenerateBackupCodes.
MfaRegenerateBackupCodes(s, c) ==
  /\ WithFreshCode(s, c)
  /\ NewBatch
  /\ mfa' = [Consumed(c) EXCEPT !.backups = Batch(batches')]
  /\ UNCHANGED <<required, steps, secrets>>

\* mfaDisable: where it is required the transaction, the spent code included, is rolled back.
MfaDisable(s, c) ==
  /\ WithFreshCode(s, c)
  /\ ~required
  /\ mfa' = NotEnrolled
  /\ UNCHANGED <<required, steps, secrets, batches>>

-----------------------------------------------------------------------------
(***************************************************************************)
(* Administrators, and time                                                *)
(***************************************************************************)
\* mfaReset.
MfaReset ==
  /\ mfa' = NotEnrolled /\ wrong' = <<>>
  /\ sessions' = [s \in Sessions |->
       IF sessions[s].phase = "live" THEN Ended(sessions[s]) ELSE sessions[s]]
  /\ UNCHANGED <<required, steps, secrets, spent, batches>>

\* mfaTurnOff.
MfaTurnOff ==
  /\ mfa' = NotEnrolled /\ wrong' = <<>>
  /\ required' = FALSE
  /\ UNCHANGED <<sessions, steps, secrets, spent, batches>>

\* updateUser, as far as it concerns the second step: it is required from now on, or no more.
MfaRequired ==
  /\ required' = ~required
  /\ UNCHANGED <<mfa, sessions, steps, secrets, spent, wrong, batches>>

StepPasses ==
  /\ steps < MaxSteps
  /\ steps' = steps + 1
  /\ spent' = { c \in spent : c.kind = "totp" => c.at >= steps }   \* what the windows have left behind
  /\ UNCHANGED <<mfa, required, sessions, secrets, batches, wrong>>

-----------------------------------------------------------------------------
TwoStepNext ==
  \/ \E s \in Sessions :
       \/ SignIn(s) \/ SessionEnds(s)
       \/ \E ask \in Asks : Asked(s, ask)
       \/ Refused(s) \/ WrongCode(s) \/ MfaStartEnrollment(s)
       \/ \E c \in Codes : \/ MfaVerify(s, c) \/ MfaConfirmEnrollment(s, c)
                           \/ MfaRegenerateBackupCodes(s, c) \/ MfaDisable(s, c)
  \/ MfaReset \/ MfaTurnOff \/ MfaRequired \/ StepPasses

TwoStepSpec == TwoStepInit /\ [][TwoStepNext]_twoStepVars

-----------------------------------------------------------------------------
(***************************************************************************)
(* What is to be true                                                      *)
(***************************************************************************)
MfaRows ==
  [enabled : BOOLEAN, secret : 0..secrets, pending : 0..secrets, lastStep : 0..MaxSteps + 1, backups : SUBSET Codes,
   failedCount : Nat, failedSince : 0..steps, lockedUntil : Nat]
SessionRows ==
  [phase : {"free", "live", "ended"}, verified : 0..secrets, failures : 0..SessionFailures, asks : Asks \cup {"none"}]

\* Every variable has its type.
TwoStepTypeOK ==
  /\ required \in BOOLEAN
  /\ steps \in Times /\ secrets \in 0..MaxSecrets /\ batches \in 0..MaxBatches
  /\ mfa \in MfaRows /\ sessions \in [Sessions -> SessionRows]
  /\ spent \subseteq Codes /\ wrong \in Seq(Times)

\* "A code is good once" (docs/mfa.md): what has been accepted is never accepted again, by the
\* verification, an enrolment or a request for a fresh code, whatever is enrolled in between.
SpentIsRefused ==
  \A c \in spent : /\ mfa.enabled => ~Accepts(c)
                   /\ ~mfa.enabled => ~Fits(c, mfa.pending, 0)

\* A session counts as verified only by a code of the authenticator that is enrolled now: one
\* verified with an earlier one, or before the enrolment, has to prove the second step again.
VerifiedByWhatIsEnrolled ==
  mfa.enabled => \A s \in Sessions : sessions[s].phase = "live" => sessions[s].verified \in {0, mfa.secret}

\* A second step is proved by a fresh code of the authenticator that is enrolled now, and by nothing else.
SecondStepProves == SpentIsRefused /\ VerifiedByWhatIsEnrolled

\* "Guessing is limited" (docs/mfa.md), although each request fails and sessions are many.  A
\* window begins at its first wrong code and does not slide, so a stretch as long as the window
\* may lie across two of them: it has fewer wrong codes than twice UserFailures, and not, as the
\* document says, fewer than UserFailures.  One fewer than twice as many does happen.
GuessesAreLimited ==
  \A i, j \in 1..Len(wrong) : j >= i + 2 * UserFailures - 1 => wrong[j] - wrong[i] > WindowLength
=============================================================================
