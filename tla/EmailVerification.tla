------------------------- MODULE EmailVerification -------------------------
(***************************************************************************)
(* Verification of one user's e-mail address by a six-digit code           *)
(* (src/src/modules/auth/verification and its callers in auth/service.ts): *)
(* the sign-up issues a code, resends issue further ones within quotas,    *)
(* verify requests compare a code with the stored one and count misses.    *)
(*                                                                         *)
(* Any number of requests of the user run at once; one action is one       *)
(* awaited call.  A code is the number of its audit record: two records    *)
(* are taken to have different codes.  Malformed codes are left out: the   *)
(* route rejects them before verifyCode sees them.  So is verification by  *)
(* a Google sign-in.                                                       *)
(***************************************************************************)
EXTENDS Naturals, Sequences, FiniteSets

CONSTANTS
    Signup,       \* the request that creates the user
    Resends,      \* concurrent resend requests
    Verifiers,    \* concurrent verify requests
    Production,   \* NODE_ENV = production (with a mail provider configured)
    Quotas,       \* resend counters in the order they are checked
    Limit,        \* per counter: how many resends it admits
    MaxVerifyAttempts,  \* misses until the lockout
    MaxRequests,  \* bound: resend and verify requests
    MaxFaults     \* bound: requests that a failing call or a dying process ends
                  \* half-way, and stored codes that reach the end of their 24 h

Issuers == Resends \cup {Signup}
Requests == Issuers \cup Verifiers
Issues == 1 .. MaxRequests + 1
NoCode == 0
Wrong == 0     \* a guess that is no issued code
Counters == {Quotas[i] : i \in 1 .. Len(Quotas)}

ASSUME VerificationAssumption ==
    /\ Signup \notin Resends \cup Verifiers
    /\ IsFiniteSet(Resends) /\ IsFiniteSet(Verifiers)
    /\ Production \in BOOLEAN
    /\ Quotas \in Seq(Counters) \ {<<>>} /\ Limit \in [Counters -> Nat \ {0}]
    /\ MaxVerifyAttempts \in Nat \ {0}
    /\ MaxRequests \in Nat /\ MaxFaults \in Nat

VARIABLES
    otp,        \* verify:otp:<user>: issue whose hash is stored, or NoCode
    audit,      \* per issue: outcome of its EmailVerification document
    verified,   \* user.emailVerified
    cooldown,   \* is verify:resend:cooldown:<user> set?
    count,      \* per resend counter: its value, 0 if the key is absent
    counting,   \* resend counters whose key has a TTL
    attempts,   \* verify:attempts:<user>
    attemptsEnd,\* does that key have a TTL?
    lockout,    \* is verify:locked:<user> set?
    pc, code, left,  \* per request: next call, issue in hand, counters to go
    guess,      \* per verify request: the code it presents
    told,       \* history: issues whose code reached the user
    stale,      \* history: issues whose expiresAt has passed
    misses,     \* history: guesses refused since attempts or lockout last ended
    resent,     \* history, per counter: resends since it last ended
    requests, fails

codeVars == <<otp, audit, verified, told, stale>>
quotaVars == <<cooldown, count, counting, resent>>
attemptVars == <<attempts, attemptsEnd, lockout, misses>>
local == <<pc, code, left, guess>>
bounds == <<requests, fails>>
vars == <<codeVars, quotaVars, attemptVars, local, bounds>>

\* authRepository.create has stored the user, issueVerificationForSignup is next.
Init ==
    /\ otp = NoCode /\ audit = [k \in Issues |-> "none"] /\ verified = FALSE
    /\ cooldown = FALSE /\ count = [q \in Counters |-> 0] /\ counting = {}
    /\ attempts = 0 /\ attemptsEnd = FALSE /\ lockout = FALSE
    /\ pc = [r \in Requests |-> IF r = Signup THEN "supersede" ELSE "idle"]
    /\ code = [r \in Requests |-> NoCode] /\ left = [r \in Requests |-> <<>>]
    /\ guess = [v \in Verifiers |-> Wrong]
    /\ told = {} /\ stale = {} /\ misses = 0 /\ resent = [q \in Counters |-> 0]
    /\ requests = 0 /\ fails = 0

Goto(r, next) == /\ pc' = [pc EXCEPT ![r] = next]
                 /\ UNCHANGED <<code, left, guess>>
\* The request is answered.
Done(r) == /\ pc' = [pc EXCEPT ![r] = "idle"]
           /\ code' = [code EXCEPT ![r] = NoCode]
           /\ left' = [left EXCEPT ![r] = <<>>]
           /\ guess' = IF r \in Verifiers THEN [guess EXCEPT ![r] = Wrong] ELSE guess

\* The sign-up's answer carries the token that the other requests need (a
\* log-in by password while it is still being answered is left out).
SignedUp == pc[Signup] = "idle"

Outcome(k, outcome) == audit' = [audit EXCEPT ![k] = outcome]
Issued == {k \in Issues : audit[k] # "none"}

---------------------------------------------------------------------------
(* resendCode: the checks.                                                  *)

StartResend(r) ==
    /\ SignedUp /\ pc[r] = "idle" /\ ~ verified
    /\ requests < MaxRequests /\ requests' = requests + 1
    /\ pc' = [pc EXCEPT ![r] = "cooldown"]
    /\ left' = [left EXCEPT ![r] = Quotas]
    /\ UNCHANGED <<codeVars, quotaVars, attemptVars, code, guess, fails>>

CheckCooldown(r) ==
    /\ pc[r] = "cooldown"
    /\ IF cooldown THEN Done(r) ELSE Goto(r, "check")
    /\ UNCHANGED <<codeVars, quotaVars, attemptVars, bounds>>

\* By one counter: the next one, or issueCode.
Admitted(r) ==
    /\ left' = [left EXCEPT ![r] = Tail(@)]
    /\ pc' = [pc EXCEPT ![r] = IF Len(left[r]) = 1 THEN "supersede" ELSE "check"]
    /\ UNCHANGED <<code, guess>>

\* Slip: > instead of >=.
CheckLate(r) ==
    /\ pc[r] = "check"
    /\ IF count[Head(left[r])] > Limit[Head(left[r])] THEN Done(r) ELSE Admitted(r)
    /\ UNCHANGED <<codeVars, quotaVars, attemptVars, bounds>>

\* checkResendLimits: GET one counter after the other.
CheckQuota(r) ==
    /\ pc[r] = "check"
    /\ IF count[Head(left[r])] >= Limit[Head(left[r])] THEN Done(r) ELSE Admitted(r)
    /\ UNCHANGED <<codeVars, quotaVars, attemptVars, bounds>>

---------------------------------------------------------------------------
(* issueCode.                                                               *)

\* Slip: earlier codes are left pending.
SupersedeNothing(r) ==
    /\ pc[r] = "supersede"
    /\ Goto(r, "create")
    /\ UNCHANGED <<codeVars, quotaVars, attemptVars, bounds>>

Supersede(r) ==
    /\ pc[r] = "supersede"
    /\ audit' = [k \in Issues |-> IF audit[k] = "pending" THEN "superseded" ELSE audit[k]]
    /\ Goto(r, "create")
    /\ UNCHANGED <<otp, verified, told, stale, quotaVars, attemptVars, bounds>>

CreateAudit(r) ==
    /\ pc[r] = "create"
    /\ \E k \in Issues \ Issued :
          /\ \A i \in Issues \ Issued : k <= i
          /\ Outcome(k, "pending")
          /\ code' = [code EXCEPT ![r] = k]
    /\ pc' = [pc EXCEPT ![r] = "store"]
    /\ UNCHANGED <<otp, verified, told, stale, quotaVars, attemptVars, left, guess, bounds>>

\* redis.set; updateVerificationSent follows and is read by nobody.
StoreCode(r) ==
    /\ pc[r] = "store"
    /\ otp' = code[r]
    /\ resent' = IF r \in Resends THEN [q \in Counters |-> resent[q] + 1] ELSE resent
    /\ Goto(r, "log")
    /\ UNCHANGED <<audit, verified, told, stale, cooldown, count, counting, attemptVars, bounds>>

\* logVerificationCodeForDev: in development the console is how the user
\* learns the code (shouldSendVerificationEmail is false there); in production
\* it throws, and the code that issueCode would return is gone.
LogCode(r) ==
    /\ pc[r] = "log"
    /\ IF Production THEN Done(r) /\ UNCHANGED told
       ELSE /\ told' = told \cup {code[r]}
            /\ Goto(r, IF r = Signup THEN "mail" ELSE "cool")
    /\ UNCHANGED <<otp, audit, verified, stale, quotaVars, attemptVars, bounds>>

\* The caller's enqueueVerificationEmail, if shouldSendVerificationEmail.
Mail(r) ==
    /\ pc[r] = "mail"
    /\ told' = IF Production THEN told \cup {code[r]} ELSE told
    /\ Done(r)
    /\ UNCHANGED <<otp, audit, verified, stale, quotaVars, attemptVars, bounds>>

---------------------------------------------------------------------------
(* recordResend.                                                            *)

SetCooldown(r) ==
    /\ pc[r] = "cool"
    /\ cooldown' = TRUE
    /\ pc' = [pc EXCEPT ![r] = "incr"]
    /\ left' = [left EXCEPT ![r] = Quotas]
    /\ UNCHANGED <<codeVars, count, counting, resent, attemptVars, code, guess, bounds>>

\* After a counter: the next one, or the mail.
Counted(r) == /\ pc' = [pc EXCEPT ![r] = IF Len(left[r]) = 1 THEN "mail" ELSE "incr"]
              /\ left' = [left EXCEPT ![r] = Tail(@)]
              /\ UNCHANGED <<code, guess>>

\* Slip: nobody asks for the TTL of a new counter.
IncrNoExpire(r) ==
    /\ pc[r] = "incr"
    /\ count' = [count EXCEPT ![Head(left[r])] = @ + 1]
    /\ Counted(r)
    /\ UNCHANGED <<codeVars, cooldown, counting, resent, attemptVars, bounds>>

IncrQuota(r) ==
    /\ pc[r] = "incr"
    /\ count' = [count EXCEPT ![Head(left[r])] = @ + 1]
    /\ IF count[Head(left[r])] = 0 THEN Goto(r, "expire") ELSE Counted(r)
    /\ UNCHANGED <<codeVars, cooldown, counting, resent, attemptVars, bounds>>

ExpireQuota(r) ==
    /\ pc[r] = "expire"
    /\ counting' = counting \cup {Head(left[r])}
    /\ Counted(r)
    /\ UNCHANGED <<codeVars, cooldown, count, resent, attemptVars, bounds>>

---------------------------------------------------------------------------
(* verifyCode.                                                              *)

\* isVerifyLocked; a locked user is refused at once.
CheckLock(v, g) ==
    /\ SignedUp /\ pc[v] = "idle" /\ ~ lockout
    /\ requests < MaxRequests /\ requests' = requests + 1
    /\ pc' = [pc EXCEPT ![v] = "get"] /\ guess' = [guess EXCEPT ![v] = g]
    /\ UNCHANGED <<codeVars, quotaVars, attemptVars, code, left, fails>>

\* Slip: nobody asks whether a code is stored.
GetUnchecked(v) ==
    /\ pc[v] = "get"
    /\ code' = [code EXCEPT ![v] = otp]
    /\ pc' = [pc EXCEPT ![v] = IF otp \in stale THEN "markExpired"
                               ELSE IF guess[v] = otp /\ otp # NoCode THEN "del" ELSE "miss"]
    /\ misses' = IF pc'[v] = "miss" THEN misses + 1 ELSE misses
    /\ UNCHANGED <<left, guess, codeVars, quotaVars, attempts, attemptsEnd, lockout, bounds>>

\* GET, the expiry check and the comparison with the stored hash.
GetCode(v) ==
    /\ pc[v] = "get"
    /\ IF otp = NoCode THEN Done(v) /\ UNCHANGED misses
       ELSE /\ code' = [code EXCEPT ![v] = otp]
            /\ pc' = [pc EXCEPT ![v] = IF otp \in stale THEN "markExpired"
                                       ELSE IF guess[v] = otp THEN "del" ELSE "miss"]
            /\ misses' = IF pc'[v] = "miss" THEN misses + 1 ELSE misses
            /\ guess' = [guess EXCEPT ![v] = Wrong]
            /\ UNCHANGED left
    /\ UNCHANGED <<codeVars, quotaVars, attempts, attemptsEnd, lockout, bounds>>

MarkExpired(v) ==
    /\ pc[v] = "markExpired"
    /\ Outcome(code[v], "expired")
    /\ Goto(v, "delExpired")
    /\ UNCHANGED <<otp, verified, told, stale, quotaVars, attemptVars, bounds>>

DelExpired(v) ==
    /\ pc[v] = "delExpired"
    /\ otp' = NoCode
    /\ Done(v)
    /\ UNCHANGED <<audit, verified, told, stale, quotaVars, attemptVars, bounds>>

\* Slip: the lockout starts one miss late.
Lenient(n) == n > MaxVerifyAttempts
Over(n) == n >= MaxVerifyAttempts
AfterCount(v, n) == IF Over(n) THEN Goto(v, "lock") ELSE Done(v)

\* Slip: nobody asks for the TTL of the first miss.
IncrAttemptsOnly(v) ==
    /\ pc[v] = "miss"
    /\ attempts' = attempts + 1
    /\ AfterCount(v, attempts + 1)
    /\ UNCHANGED <<codeVars, quotaVars, attemptsEnd, lockout, misses, bounds>>

\* recordVerifyAttempt: INCR, EXPIRE, SET.
IncrAttempts(v) ==
    /\ pc[v] = "miss"
    /\ attempts' = attempts + 1
    /\ IF attempts = 0 THEN Goto(v, "missExpire") ELSE AfterCount(v, attempts + 1)
    /\ UNCHANGED <<codeVars, quotaVars, attemptsEnd, lockout, misses, bounds>>

ExpireAttempts(v) ==
    /\ pc[v] = "missExpire"
    /\ attemptsEnd' = (attempts > 0)
    /\ AfterCount(v, 1)
    /\ UNCHANGED <<codeVars, quotaVars, attempts, lockout, misses, bounds>>

SetLock(v) ==
    /\ pc[v] = "lock"
    /\ lockout' = TRUE
    /\ Goto(v, "markLocked")
    /\ UNCHANGED <<codeVars, quotaVars, attempts, attemptsEnd, misses, bounds>>

\* Slip: the lockout also takes the code away.
MarkLockedAndDrop(v) ==
    /\ pc[v] = "markLocked"
    /\ Outcome(code[v], "locked") /\ otp' = NoCode
    /\ Done(v)
    /\ UNCHANGED <<verified, told, stale, quotaVars, attemptVars, bounds>>

MarkLocked(v) ==
    /\ pc[v] = "markLocked"
    /\ Outcome(code[v], "locked")
    /\ Done(v)
    /\ UNCHANGED <<otp, verified, told, stale, quotaVars, attemptVars, bounds>>

DelCode(v) ==
    /\ pc[v] = "del"
    /\ otp' = NoCode
    /\ Goto(v, "clear")
    /\ UNCHANGED <<audit, verified, told, stale, quotaVars, attemptVars, bounds>>

\* DEL of the attempts and of the lockout.
ClearAttempts(v) ==
    /\ pc[v] = "clear"
    /\ attempts' = 0 /\ attemptsEnd' = FALSE /\ lockout' = FALSE /\ misses' = 0
    /\ Goto(v, "consume")
    /\ UNCHANGED <<codeVars, quotaVars, bounds>>

\* Slip: only a pending record is marked.
ConsumePending(v) ==
    /\ pc[v] = "consume"
    /\ IF audit[code[v]] = "pending" THEN Outcome(code[v], "consumed") ELSE UNCHANGED audit
    /\ Goto(v, "verify")
    /\ UNCHANGED <<otp, verified, told, stale, quotaVars, attemptVars, bounds>>

MarkConsumed(v) ==
    /\ pc[v] = "consume"
    /\ Outcome(code[v], "consumed")
    /\ Goto(v, "verify")
    /\ UNCHANGED <<otp, verified, told, stale, quotaVars, attemptVars, bounds>>

MarkEmailVerified(v) ==
    /\ pc[v] = "verify"
    /\ verified' = TRUE
    /\ Done(v)
    /\ UNCHANGED <<otp, audit, told, stale, quotaVars, attemptVars, bounds>>

---------------------------------------------------------------------------
(* A request ends half-way; time passes.  That a TTL has ended is noticed    *)
(* only by the call that looks at the key next, so it ends just before one. *)

Faults == fails + Cardinality(stale)

Fail(r) ==
    /\ pc[r] # "idle"
    /\ Faults < MaxFaults /\ fails' = fails + 1
    /\ Done(r)
    /\ UNCHANGED <<codeVars, quotaVars, attemptVars, requests>>

\* expiresAt is taken before the key is stored for the same 24 h, so it passes first.
CodeExpires(v) ==
    /\ pc[v] = "get"
    /\ otp # NoCode /\ otp \notin stale /\ Faults < MaxFaults
    /\ stale' = stale \cup {otp}
    /\ UNCHANGED <<otp, audit, verified, told, quotaVars, attemptVars, local, bounds>>

CodeEnds(v) ==
    /\ pc[v] = "get" /\ otp \in stale
    /\ otp' = NoCode
    /\ UNCHANGED <<audit, verified, told, stale, quotaVars, attemptVars, local, bounds>>

CooldownEnds(r) ==
    /\ pc[r] = "cooldown" /\ cooldown
    /\ cooldown' = FALSE
    /\ UNCHANGED <<codeVars, count, counting, resent, attemptVars, local, bounds>>

QuotaEnds(r) ==
    /\ pc[r] \in {"check", "incr"}
    /\ LET q == Head(left[r]) IN
          /\ q \in counting /\ counting' = counting \ {q}
          /\ count' = [count EXCEPT ![q] = 0] /\ resent' = [resent EXCEPT ![q] = 0]
    /\ UNCHANGED <<codeVars, cooldown, attemptVars, local, bounds>>

AttemptsEnd(v) ==
    /\ pc[v] = "miss" /\ attemptsEnd
    /\ attemptsEnd' = FALSE /\ attempts' = 0 /\ misses' = 0
    /\ UNCHANGED <<codeVars, quotaVars, lockout, local, bounds>>

LockoutEnds ==
    /\ lockout /\ requests < MaxRequests
    /\ lockout' = FALSE /\ misses' = 0
    /\ UNCHANGED <<codeVars, quotaVars, attempts, attemptsEnd, local, bounds>>

---------------------------------------------------------------------------
IssueStep(r) ==
    \/ Supersede(r) \/ CreateAudit(r) \/ StoreCode(r) \/ LogCode(r) \/ Mail(r)

ResendStep(r) ==
    \/ StartResend(r) \/ CheckCooldown(r) \/ CheckQuota(r)
    \/ SetCooldown(r) \/ IncrQuota(r) \/ ExpireQuota(r)

VerifyStep(v) ==
    \/ \E g \in told \cup {Wrong} : CheckLock(v, g)
    \/ GetCode(v) \/ MarkExpired(v) \/ DelExpired(v)
    \/ IncrAttempts(v) \/ ExpireAttempts(v) \/ SetLock(v) \/ MarkLocked(v)
    \/ DelCode(v) \/ ClearAttempts(v) \/ MarkConsumed(v) \/ MarkEmailVerified(v)

TimeStep ==
    \/ \E v \in Verifiers : CodeExpires(v) \/ CodeEnds(v) \/ AttemptsEnd(v)
    \/ \E r \in Resends : CooldownEnds(r) \/ QuotaEnds(r)
    \/ LockoutEnds

Next ==
    \/ \E r \in Issuers : IssueStep(r)
    \/ \E r \in Resends : ResendStep(r)
    \/ \E v \in Verifiers : VerifyStep(v)
    \/ \E r \in Requests : Fail(r)
    \/ TimeStep

Spec == Init /\ [][Next]_vars

---------------------------------------------------------------------------
IssuePC == {"cooldown", "check", "supersede", "create", "store", "log", "mail",
            "cool", "incr", "expire"}
VerifyPC == {"get", "markExpired", "delExpired", "miss", "missExpire", "lock",
             "markLocked", "del", "clear", "consume", "verify"}

TypeOK ==
    /\ otp \in Issues \cup {NoCode}
    /\ audit \in [Issues -> {"none", "pending", "superseded", "consumed", "expired", "locked"}]
    /\ verified \in BOOLEAN /\ cooldown \in BOOLEAN
    /\ count \in [Counters -> Nat] /\ counting \in SUBSET Counters
    /\ attempts \in Nat /\ attemptsEnd \in BOOLEAN /\ lockout \in BOOLEAN
    /\ pc \in [Requests -> {"idle"} \cup IssuePC \cup VerifyPC]
    /\ \A r \in Requests :
          /\ pc[r] \in IssuePC => r \in Issuers
          /\ pc[r] \in VerifyPC => r \in Verifiers
    /\ code \in [Requests -> Issues \cup {NoCode}]
    /\ \A r \in Requests : code[r] = NoCode =>
          pc[r] \in {"idle", "cooldown", "check", "supersede", "create", "get"}
    /\ left \in [Requests -> Seq(Counters)]
    /\ \A r \in Resends : pc[r] \in {"cooldown", "check", "incr", "expire"} => left[r] # <<>>
    /\ guess \in [Verifiers -> Issues \cup {Wrong}]
    /\ told \in SUBSET Issues /\ stale \in SUBSET Issues
    /\ misses \in Nat /\ resent \in [Counters -> Nat]
    /\ requests \in Nat /\ fails \in Nat

AtRest == \A r \in Requests : pc[r] = "idle"

\* A user who is not verified has a code that works: when no request is in
\* flight, the stored code is one the user was told - unless a request broke
\* off half-way or a code reached the end of its 24 h.  Resends, wrong guesses
\* and lockouts, in any interleaving, never take the last good code away.
CodeInHand ==
    AtRest /\ fails = 0 /\ stale = {} /\ ~ verified => otp \in told

\* A verified user leaves a trace: one of the codes the user was told is
\* recorded as consumed, or as locked or expired by a request that came second
\* (both overwrite the outcome by id).
VerifiedLeavesTrace ==
    verified => \E k \in told : audit[k] \in {"consumed", "locked", "expired"}

\* supersedePending and create are two calls: two records may both stay
\* pending, but never more than there are resends at once (the sign-up is
\* answered before the first of them).
PendingPerIssuer ==
    Resends # {} =>
        Cardinality({k \in Issues : audit[k] = "pending"}) <= Cardinality(Resends)

\* Both: every issued code is the user's or superseded.
CodesAreTraceable == CodeInHand /\ PendingPerIssuer

\* isVerifyLocked is read once, the guess is counted after it was compared: of
\* the requests in flight each may get one guess more than MaxVerifyAttempts
\* before the lockout stops them all, and each broken-off request one more.
GuessesAreLimited ==
    misses <= MaxVerifyAttempts + (Cardinality(Verifiers) - 1) + fails

\* The same for resends: limits are checked before and counted after issueCode,
\* so only concurrent or broken-off requests go beyond a limit.
ResendsAreLimited ==
    \A q \in Counters :
        resent[q] <= Limit[q] + (Cardinality(Resends) - 1) + fails

\* Both: the limits hold but for what is in flight.
RatesAreLimited == GuessesAreLimited /\ ResendsAreLimited

\* INCR and EXPIRE are two calls: a counter that no TTL will end (and that
\* would refuse the user for good) has its EXPIRE under way, or the request
\* that owed it broke off.
CountersEnd ==
    fails = 0 =>
        /\ \A q \in Counters \ counting : count[q] > 0 =>
              \E r \in Resends : pc[r] = "expire" /\ Head(left[r]) = q
        /\ attempts > 0 /\ ~ attemptsEnd =>
              \E v \in Verifiers : pc[v] = "missExpire"
=============================================================================
