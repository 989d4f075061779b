----------------------- MODULE EmailVerificationProofs -----------------------
(***************************************************************************)
(* Theorems about EmailVerification, for any number of concurrent requests *)
(* of the user, any resend counters and any limits.                        *)
(***************************************************************************)
EXTENDS EmailVerification, SequenceTheorems, FiniteSetTheorems, TLAPS

Outcomes == {"none", "pending", "superseded", "consumed", "expired", "locked"}
PCs == {"idle"} \cup IssuePC \cup VerifyPC

---------------------------------------------------------------------------
(* Facts about the steps of one request.                                    *)

\* What the type invariant says of the requests' program counters and locals.
LocalType ==
    /\ pc \in [Requests -> PCs]
    /\ \A r \in Requests :
          /\ pc[r] \in IssuePC => r \in Issuers
          /\ pc[r] \in VerifyPC => r \in Verifiers
    /\ code \in [Requests -> Issues \cup {NoCode}]
    /\ \A r \in Requests : code[r] = NoCode =>
          pc[r] \in {"idle", "cooldown", "check", "supersede", "create", "get"}
    /\ left \in [Requests -> Seq(Counters)]
    /\ \A r \in Resends : pc[r] \in {"cooldown", "check", "incr", "expire"} => left[r] # <<>>
    /\ guess \in [Verifiers -> Issues \cup {Wrong}]

\* And of everything the requests share.
SharedType ==
    /\ otp \in Issues \cup {NoCode}
    /\ audit \in [Issues -> Outcomes]
    /\ verified \in BOOLEAN /\ cooldown \in BOOLEAN
    /\ count \in [Counters -> Nat] /\ counting \in SUBSET Counters
    /\ attempts \in Nat /\ attemptsEnd \in BOOLEAN /\ lockout \in BOOLEAN
    /\ told \in SUBSET Issues /\ stale \in SUBSET Issues
    /\ misses \in Nat /\ resent \in [Counters -> Nat]
    /\ requests \in Nat /\ fails \in Nat

LEMMA Split == TypeOK <=> LocalType /\ SharedType
  BY DEF TypeOK, LocalType, SharedType, Outcomes, PCs

LEMMA Members ==
    /\ \A r \in Resends : r \in Requests /\ r \in Issuers /\ r # Signup
    /\ \A r \in Issuers : r \in Requests /\ (r = Signup \/ r \in Resends)
    /\ \A v \in Verifiers : v \in Requests /\ v # Signup
    /\ Signup \in Issuers
    /\ Issues \in SUBSET Nat /\ NoCode \notin Issues
  BY VerificationAssumption DEF Requests, Issuers, Issues, NoCode

\* The tail of what is left to check or count.
LEMMA TailType ==
    ASSUME NEW s \in Seq(Counters), s # <<>>
    PROVE  /\ Head(s) \in Counters /\ Tail(s) \in Seq(Counters)
           /\ Len(s) # 1 => Tail(s) # <<>>
<1>1. Head(s) \in Counters /\ Tail(s) \in Seq(Counters) /\ Len(Tail(s)) = Len(s) - 1
  BY HeadTailProperties
<1>2. Len(s) \in Nat BY LenProperties
<1>3. Len(s) # 1 => Tail(s) # <<>>
  <2>1. Len(<<>>) = 0 BY EmptySeq
  <2>2. Tail(s) = <<>> => Len(s) - 1 = 0 BY <1>1, <2>1
  <2> QED BY <1>2, <2>2
<1> QED BY <1>1, <1>3

\* A request that goes on to a call with its locals as they are.
LEMMA GotoType ==
    ASSUME LocalType, NEW r \in Requests, NEW next \in PCs, Goto(r, next),
           next \in IssuePC => r \in Issuers,
           next \in VerifyPC => r \in Verifiers,
           code[r] = NoCode =>
              next \in {"idle", "cooldown", "check", "supersede", "create", "get"},
           next \in {"cooldown", "check", "incr", "expire"} /\ r \in Resends => left[r] # <<>>
    PROVE  LocalType'
  BY DEF LocalType, Goto

LEMMA DoneType ==
    ASSUME LocalType, NEW r \in Requests, Done(r)
    PROVE  LocalType'
<1>1. <<>> \in Seq(Counters) BY EmptySeq
<1>2. /\ pc' = [pc EXCEPT ![r] = "idle"]
      /\ code' = [code EXCEPT ![r] = NoCode]
      /\ left' = [left EXCEPT ![r] = <<>>]
      /\ guess' \in [Verifiers -> Issues \cup {Wrong}]
  BY DEF Done, LocalType
<1>3. pc' \in [Requests -> PCs] /\ "idle" \notin IssuePC /\ "idle" \notin VerifyPC
  BY <1>2 DEF LocalType, PCs, IssuePC, VerifyPC
<1> QED BY <1>1, <1>2, <1>3 DEF LocalType

---------------------------------------------------------------------------
(* Types.                                                                   *)

LEMMA IssueTypes ==
    ASSUME LocalType, SharedType, NEW r \in Issuers, IssueStep(r)
    PROVE  LocalType' /\ SharedType'
<1> USE Members DEF Outcome, NoCode, IssuePC, VerifyPC, PCs
<1>0. r \in Requests OBVIOUS
<1>1. CASE Supersede(r)
  <2>1. LocalType' BY <1>1, <1>0, GotoType DEF Supersede
  <2>2. audit' \in [Issues -> Outcomes] BY <1>1 DEF Supersede, SharedType, Outcomes
  <2> QED BY <1>1, <2>1, <2>2 DEF Supersede, SharedType, quotaVars, attemptVars, bounds
<1>2. CASE CreateAudit(r)
  <2>1. PICK k \in Issues \ Issued :
           /\ audit' = [audit EXCEPT ![k] = "pending"] /\ code' = [code EXCEPT ![r] = k]
    BY <1>2 DEF CreateAudit
  <2>2. LocalType'
    BY <1>2, <2>1, <1>0 DEF CreateAudit, LocalType
  <2>3. audit' \in [Issues -> Outcomes] BY <2>1 DEF SharedType, Outcomes
  <2> QED BY <1>2, <2>2, <2>3 DEF CreateAudit, SharedType, quotaVars, attemptVars, bounds
<1>3. CASE StoreCode(r)
  <2>1. LocalType' BY <1>3, <1>0, GotoType DEF StoreCode, LocalType
  <2>2. resent' \in [Counters -> Nat] BY <1>3 DEF StoreCode, SharedType
  <2>3. otp' \in Issues \cup {NoCode} BY <1>3, <1>0 DEF StoreCode, LocalType
  <2> QED BY <1>3, <2>1, <2>2, <2>3 DEF StoreCode, SharedType, attemptVars, bounds
<1>4. CASE LogCode(r)
  <2>1. LocalType'
    <3>1. CASE Production BY <1>4, <3>1, <1>0, DoneType DEF LogCode
    <3>2. CASE ~ Production BY <1>4, <3>2, <1>0, GotoType DEF LogCode, LocalType
    <3> QED BY <3>1, <3>2
  <2>2. told' \in SUBSET Issues
    <3>1. code[r] \in Issues BY <1>4, <1>0 DEF LogCode, LocalType
    <3> QED BY <1>4, <3>1 DEF LogCode, SharedType
  <2> QED BY <1>4, <2>1, <2>2 DEF LogCode, SharedType, quotaVars, attemptVars, bounds
<1>5. CASE Mail(r)
  <2>1. LocalType' BY <1>5, <1>0, DoneType DEF Mail
  <2>2. told' \in SUBSET Issues
    <3>1. code[r] \in Issues BY <1>5, <1>0 DEF Mail, LocalType
    <3> QED BY <1>5, <3>1 DEF Mail, SharedType
  <2> QED BY <1>5, <2>1, <2>2 DEF Mail, SharedType, quotaVars, attemptVars, bounds
<1> QED BY <1>1, <1>2, <1>3, <1>4, <1>5 DEF IssueStep

LEMMA ResendTypes ==
    ASSUME LocalType, SharedType, NEW r \in Resends, ResendStep(r)
    PROVE  LocalType' /\ SharedType'
<1> USE Members DEF NoCode, IssuePC, VerifyPC, PCs
<1>0. r \in Requests /\ left[r] \in Seq(Counters) BY DEF LocalType
<1>1. CASE StartResend(r)
  <2>1. LocalType' BY <1>1, <1>0, VerificationAssumption DEF StartResend, LocalType
  <2> QED BY <1>1, <2>1
          DEF StartResend, SharedType, codeVars, quotaVars, attemptVars
<1>2. CASE CheckCooldown(r)
  <2>1. LocalType'
    <3>1. CASE cooldown BY <1>2, <3>1, <1>0, DoneType DEF CheckCooldown
    <3>2. CASE ~ cooldown
      <4>1. left[r] # <<>> BY <1>2 DEF CheckCooldown, LocalType
      <4> QED BY <1>2, <3>2, <4>1, <1>0, GotoType DEF CheckCooldown
    <3> QED BY <3>1, <3>2
  <2> QED BY <1>2, <2>1
          DEF CheckCooldown, SharedType, codeVars, quotaVars, attemptVars, bounds
<1>3. CASE CheckQuota(r)
  <2>0. left[r] # <<>> BY <1>3 DEF CheckQuota, LocalType
  <2>1. LocalType'
    <3>1. CASE Done(r) BY <3>1, <1>0, DoneType
    <3>2. CASE Admitted(r)
      BY <3>2, <1>0, <2>0, TailType DEF Admitted, LocalType
    <3> QED BY <1>3, <3>1, <3>2 DEF CheckQuota
  <2> QED BY <1>3, <2>1
          DEF CheckQuota, SharedType, codeVars, quotaVars, attemptVars, bounds
<1>4. CASE SetCooldown(r)
  <2>1. LocalType' BY <1>4, <1>0, VerificationAssumption DEF SetCooldown, LocalType
  <2> QED BY <1>4, <2>1
          DEF SetCooldown, SharedType, codeVars, attemptVars, bounds
<1>5. ASSUME Counted(r), pc[r] \in {"incr", "expire"} PROVE LocalType'
  <2>0. left[r] # <<>> BY <1>5 DEF LocalType
  <2> QED BY <1>5, <1>0, <2>0, TailType DEF Counted, LocalType
<1>6. CASE IncrQuota(r)
  <2>0. left[r] # <<>> BY <1>6 DEF IncrQuota, LocalType
  <2>1. LocalType'
    <3>1. CASE Goto(r, "expire") BY <1>6, <3>1, <2>0, <1>0, GotoType DEF IncrQuota, LocalType
    <3>2. CASE Counted(r) BY <1>6, <3>2, <1>5 DEF IncrQuota
    <3> QED BY <1>6, <3>1, <3>2 DEF IncrQuota
  <2>2. count' \in [Counters -> Nat]
    BY <1>6, <1>0, <2>0, TailType DEF IncrQuota, SharedType
  <2> QED BY <1>6, <2>1, <2>2 DEF IncrQuota, SharedType, codeVars, attemptVars, bounds
<1>7. CASE ExpireQuota(r)
  <2>0. left[r] # <<>> BY <1>7 DEF ExpireQuota, LocalType
  <2>1. LocalType' BY <1>7, <1>5 DEF ExpireQuota
  <2>2. counting' \in SUBSET Counters
    BY <1>7, <1>0, <2>0, TailType DEF ExpireQuota, SharedType
  <2> QED BY <1>7, <2>1, <2>2 DEF ExpireQuota, SharedType, codeVars, attemptVars, bounds
<1> QED BY <1>1, <1>2, <1>3, <1>4, <1>6, <1>7 DEF ResendStep

LEMMA VerifyTypes ==
    ASSUME LocalType, SharedType, NEW v \in Verifiers, VerifyStep(v)
    PROVE  LocalType' /\ SharedType'
<1> USE Members DEF Outcome, NoCode, Wrong, IssuePC, VerifyPC, PCs
<1>0. v \in Requests OBVIOUS
<1>1. ASSUME NEW g \in told \cup {Wrong}, CheckLock(v, g) PROVE LocalType' /\ SharedType'
  <2>1. g \in Issues \cup {Wrong} BY DEF SharedType
  <2>2. LocalType' BY <1>1, <1>0, <2>1 DEF CheckLock, LocalType
  <2> QED BY <1>1, <2>2 DEF CheckLock, SharedType, codeVars, quotaVars, attemptVars
<1>2. CASE GetCode(v)
  <2>1. LocalType'
    <3>1. CASE otp = NoCode BY <1>2, <3>1, <1>0, DoneType DEF GetCode
    <3>2. CASE otp # NoCode
      <4>1. otp \in Issues BY <3>2 DEF SharedType
      <4>2. PICK next \in {"markExpired", "del", "miss"} :
               /\ pc' = [pc EXCEPT ![v] = next] /\ code' = [code EXCEPT ![v] = otp]
               /\ guess' = [guess EXCEPT ![v] = Wrong] /\ UNCHANGED left
        BY <1>2, <3>2 DEF GetCode
      <4> QED BY <4>1, <4>2, <1>0 DEF LocalType
    <3> QED BY <3>1, <3>2
  <2>2. misses' \in Nat BY <1>2 DEF GetCode, SharedType
  <2> QED BY <1>2, <2>1, <2>2 DEF GetCode, SharedType, codeVars, quotaVars, bounds
<1>3. CASE MarkExpired(v)
  <2>1. LocalType' BY <1>3, <1>0, GotoType DEF MarkExpired, LocalType
  <2>2. audit' \in [Issues -> Outcomes] BY <1>3 DEF MarkExpired, SharedType, Outcomes
  <2> QED BY <1>3, <2>1, <2>2 DEF MarkExpired, SharedType, quotaVars, attemptVars, bounds
<1>4. CASE DelExpired(v)
  <2>1. LocalType' BY <1>4, <1>0, DoneType DEF DelExpired
  <2> QED BY <1>4, <2>1 DEF DelExpired, SharedType, quotaVars, attemptVars, bounds
<1>5. ASSUME NEW n \in Nat, AfterCount(v, n), pc[v] \in {"miss", "missExpire"}
      PROVE  LocalType'
  <2>1. CASE Done(v) BY <2>1, <1>0, DoneType
  <2>2. CASE Goto(v, "lock") BY <1>5, <2>2, <1>0, GotoType DEF LocalType
  <2> QED BY <1>5, <2>1, <2>2 DEF AfterCount
<1>6. CASE IncrAttempts(v)
  <2>1. attempts' = attempts + 1 /\ attempts' \in Nat BY <1>6 DEF IncrAttempts, SharedType
  <2>2. LocalType'
    <3>1. CASE attempts = 0 BY <1>6, <3>1, <1>0, GotoType DEF IncrAttempts, LocalType
    <3>2. CASE attempts # 0
      BY <1>6, <3>2, <1>5, <2>1 DEF IncrAttempts
    <3> QED BY <3>1, <3>2
  <2> QED BY <1>6, <2>1, <2>2 DEF IncrAttempts, SharedType, codeVars, quotaVars, bounds
<1>7. CASE ExpireAttempts(v)
  <2>1. LocalType' BY <1>7, <1>5 DEF ExpireAttempts
  <2> QED BY <1>7, <2>1 DEF ExpireAttempts, SharedType, codeVars, quotaVars, bounds
<1>8. CASE SetLock(v)
  <2>1. LocalType' BY <1>8, <1>0, GotoType DEF SetLock, LocalType
  <2> QED BY <1>8, <2>1 DEF SetLock, SharedType, codeVars, quotaVars, bounds
<1>9. CASE MarkLocked(v)
  <2>1. LocalType' BY <1>9, <1>0, DoneType DEF MarkLocked
  <2>2. audit' \in [Issues -> Outcomes] BY <1>9 DEF MarkLocked, SharedType, Outcomes
  <2> QED BY <1>9, <2>1, <2>2 DEF MarkLocked, SharedType, quotaVars, attemptVars, bounds
<1>10. CASE DelCode(v)
  <2>1. LocalType' BY <1>10, <1>0, GotoType DEF DelCode, LocalType
  <2> QED BY <1>10, <2>1 DEF DelCode, SharedType, quotaVars, attemptVars, bounds
<1>11. CASE ClearAttempts(v)
  <2>1. LocalType' BY <1>11, <1>0, GotoType DEF ClearAttempts, LocalType
  <2> QED BY <1>11, <2>1 DEF ClearAttempts, SharedType, codeVars, quotaVars, bounds
<1>12. CASE MarkConsumed(v)
  <2>1. LocalType' BY <1>12, <1>0, GotoType DEF MarkConsumed, LocalType
  <2>2. audit' \in [Issues -> Outcomes] BY <1>12 DEF MarkConsumed, SharedType, Outcomes
  <2> QED BY <1>12, <2>1, <2>2 DEF MarkConsumed, SharedType, quotaVars, attemptVars, bounds
<1>13. CASE MarkEmailVerified(v)
  <2>1. LocalType' BY <1>13, <1>0, DoneType DEF MarkEmailVerified
  <2> QED BY <1>13, <2>1 DEF MarkEmailVerified, SharedType, quotaVars, attemptVars, bounds
<1> QED BY <1>1, <1>2, <1>3, <1>4, <1>6, <1>7, <1>8, <1>9, <1>10, <1>11, <1>12, <1>13
        DEF VerifyStep

LEMMA TimeTypes ==
    ASSUME LocalType, SharedType, TimeStep
    PROVE  LocalType' /\ SharedType'
<1> USE Members DEF local
<1>1. ASSUME NEW v \in Verifiers, CodeExpires(v) \/ CodeEnds(v) \/ AttemptsEnd(v)
      PROVE  LocalType' /\ SharedType'
  <2>1. LocalType' BY <1>1 DEF CodeExpires, CodeEnds, AttemptsEnd, LocalType
  <2>2. CASE CodeExpires(v)
    BY <2>1, <2>2 DEF CodeExpires, SharedType, quotaVars, attemptVars, bounds
  <2>3. CASE CodeEnds(v)
    BY <2>1, <2>3 DEF CodeEnds, SharedType, quotaVars, attemptVars, bounds
  <2>4. CASE AttemptsEnd(v)
    BY <2>1, <2>4 DEF AttemptsEnd, SharedType, codeVars, quotaVars, bounds
  <2> QED BY <1>1, <2>2, <2>3, <2>4
<1>2. ASSUME NEW r \in Resends, CooldownEnds(r) \/ QuotaEnds(r)
      PROVE  LocalType' /\ SharedType'
  <2>1. LocalType' BY <1>2 DEF CooldownEnds, QuotaEnds, LocalType
  <2>2. CASE CooldownEnds(r)
    BY <2>1, <2>2 DEF CooldownEnds, SharedType, codeVars, attemptVars, bounds
  <2>3. CASE QuotaEnds(r)
    <3>1. /\ count' \in [Counters -> Nat] /\ counting' \in SUBSET Counters
          /\ resent' \in [Counters -> Nat]
      BY <2>3 DEF QuotaEnds, SharedType
    <3> QED BY <2>1, <2>3, <3>1 DEF QuotaEnds, SharedType, codeVars, attemptVars, bounds
  <2> QED BY <1>2, <2>2, <2>3
<1>3. CASE LockoutEnds
  <2>1. LocalType' BY <1>3 DEF LockoutEnds, LocalType
  <2> QED BY <1>3, <2>1 DEF LockoutEnds, SharedType, codeVars, quotaVars, bounds
<1> QED BY <1>1, <1>2, <1>3 DEF TimeStep

\* The type invariant, with what a request has at hand at each call: a code it
\* has issued or fetched, a counter left to check or to count.
THEOREM TypeCorrect == Spec => []TypeOK
<1>1. Init => TypeOK
  <2> SUFFICES ASSUME Init PROVE LocalType /\ SharedType
    BY Split
  <2> USE Members DEF NoCode, Wrong, IssuePC, VerifyPC, PCs
  <2>1. <<>> \in Seq(Counters) BY EmptySeq
  <2>2. LocalType BY <2>1 DEF Init, LocalType
  <2>3. SharedType BY DEF Init, SharedType, Outcomes
  <2> QED BY <2>2, <2>3
<1>2. TypeOK /\ [Next]_vars => TypeOK'
  <2> SUFFICES ASSUME LocalType, SharedType, [Next]_vars PROVE LocalType' /\ SharedType'
    BY Split DEF TypeOK, LocalType, SharedType, Outcomes, PCs
  <2>1. ASSUME NEW r \in Issuers, IssueStep(r) PROVE LocalType' /\ SharedType'
    BY <2>1, IssueTypes
  <2>2. ASSUME NEW r \in Resends, ResendStep(r) PROVE LocalType' /\ SharedType'
    BY <2>2, ResendTypes
  <2>3. ASSUME NEW v \in Verifiers, VerifyStep(v) PROVE LocalType' /\ SharedType'
    BY <2>3, VerifyTypes
  <2>4. ASSUME NEW r \in Requests, Fail(r) PROVE LocalType' /\ SharedType'
    <3>1. LocalType' BY <2>4, DoneType DEF Fail
    <3> QED BY <2>4, <3>1 DEF Fail, SharedType, codeVars, quotaVars, attemptVars
  <2>5. CASE TimeStep BY <2>5, TimeTypes
  <2>6. CASE UNCHANGED vars
    BY <2>6 DEF vars, codeVars, quotaVars, attemptVars, local, bounds, LocalType, SharedType
  <2> QED BY <2>1, <2>2, <2>3, <2>4, <2>5, <2>6 DEF Next
<1> QED BY <1>1, <1>2, PTL DEF Spec

---------------------------------------------------------------------------
(* A verified user leaves a trace.                                          *)

Final == {"consumed", "locked", "expired"}

\* Why: whoever got past the comparison holds a code the user was told, marks
\* it, and only then the user; no later step turns a final outcome back.
Trace ==
    /\ \A v \in Verifiers : guess[v] \in told \cup {Wrong}
    /\ \A v \in Verifiers :
          pc[v] \in {"del", "clear", "consume", "verify"} => code[v] \in told
    /\ \A v \in Verifiers : pc[v] = "verify" => audit[code[v]] \in Final
    /\ VerifiedLeavesTrace

\* Final outcomes stay final.
Kept == \A k \in Issues : audit[k] \in Final => audit'[k] \in Final

\* Steps that verify nobody, keep outcomes and locals of the requests at stake.
LEMMA TraceFrame ==
    ASSUME TypeOK, Trace, Kept, told \subseteq told', verified' = verified,
           \A v \in Verifiers :
              /\ guess'[v] \in {guess[v], Wrong}
              /\ pc'[v] \in {"del", "clear", "consume", "verify"} =>
                    /\ code'[v] = code[v]
                    /\ pc[v] \in {"del", "clear", "consume", "verify"}
              /\ pc'[v] = "verify" => pc[v] = "verify"
    PROVE  Trace'
<1>1. told \in SUBSET Issues BY DEF TypeOK
<1>2. VerifiedLeavesTrace' BY <1>1 DEF Trace, VerifiedLeavesTrace, Kept, Final
<1>3. \A v \in Verifiers : pc'[v] = "verify" => audit'[code'[v]] \in Final
  BY <1>1 DEF Trace, Kept
<1> QED BY <1>1, <1>2, <1>3 DEF Trace

\* A verified user leaves a trace: whatever overtakes whatever, one of the codes
\* the user was told is recorded as consumed, locked or expired.
THEOREM VerifiedHasTrace == Spec => []VerifiedLeavesTrace
<1>1. Init => Trace
  BY Members DEF Init, Trace, VerifiedLeavesTrace
<1>2. TypeOK /\ Trace /\ [Next]_vars => Trace'
  <2> SUFFICES ASSUME TypeOK, Trace, [Next]_vars PROVE Trace'
    OBVIOUS
  <2> USE Members
  <2> DEFINE Past == {"del", "clear", "consume", "verify"}
             Frame == /\ Kept /\ told \subseteq told' /\ verified' = verified
                      /\ \A v \in Verifiers :
                            /\ guess'[v] \in {guess[v], Wrong}
                            /\ pc'[v] \in Past => code'[v] = code[v] /\ pc[v] \in Past
                            /\ pc'[v] = "verify" => pc[v] = "verify"
  <2>0. Frame => Trace'
    BY TraceFrame
  <2> HIDE DEF Frame
  <2>1. ASSUME NEW r \in Issuers, IssueStep(r) PROVE Frame
    <3>1. Kept
      <4>1. CASE Supersede(r) BY <4>1 DEF Supersede, Kept, Final
      <4>2. CASE CreateAudit(r) BY <4>2 DEF CreateAudit, Kept, Final, Issued, Outcome, TypeOK
      <4>3. CASE StoreCode(r) \/ LogCode(r) \/ Mail(r)
        BY <4>3 DEF StoreCode, LogCode, Mail, Kept
      <4> QED BY <2>1, <4>1, <4>2, <4>3 DEF IssueStep
    <3>2. told \subseteq told' /\ verified' = verified
      BY <2>1 DEF IssueStep, Supersede, CreateAudit, StoreCode, LogCode, Mail
    <3>3. pc[r] \in IssuePC /\ pc'[r] \notin Past
      BY <2>1 DEF IssueStep, Supersede, CreateAudit, StoreCode, LogCode, Mail, Goto, Done,
                  TypeOK, IssuePC
    <3>4. \A q \in Requests \ {r} : pc'[q] = pc[q] /\ code'[q] = code[q]
      BY <2>1 DEF IssueStep, Supersede, CreateAudit, StoreCode, LogCode, Mail, Goto, Done,
                  TypeOK
    <3>5. \A v \in Verifiers : guess'[v] \in {guess[v], Wrong}
      BY <2>1 DEF IssueStep, Supersede, CreateAudit, StoreCode, LogCode, Mail, Goto, Done,
                  TypeOK
    <3> QED BY <3>1, <3>2, <3>3, <3>4, <3>5 DEF Frame
  <2>2. ASSUME NEW r \in Resends, ResendStep(r) PROVE Frame
    <3>1. Kept /\ told' = told /\ verified' = verified
      BY <2>2 DEF ResendStep, StartResend, CheckCooldown, CheckQuota, SetCooldown,
                  IncrQuota, ExpireQuota, codeVars, Kept
    <3>3. pc'[r] \notin Past
      BY <2>2 DEF ResendStep, StartResend, CheckCooldown, CheckQuota, SetCooldown,
                  IncrQuota, ExpireQuota, Goto, Done, Admitted, Counted, TypeOK
    <3>4. \A q \in Requests \ {r} : pc'[q] = pc[q] /\ code'[q] = code[q]
      BY <2>2 DEF ResendStep, StartResend, CheckCooldown, CheckQuota, SetCooldown,
                  IncrQuota, ExpireQuota, Goto, Done, Admitted, Counted, TypeOK
    <3>5. \A v \in Verifiers : guess'[v] \in {guess[v], Wrong}
      BY <2>2 DEF ResendStep, StartResend, CheckCooldown, CheckQuota, SetCooldown,
                  IncrQuota, ExpireQuota, Goto, Done, Admitted, Counted, TypeOK
    <3> QED BY <3>1, <3>3, <3>4, <3>5 DEF Frame
  <2>3. ASSUME NEW r \in Requests, Fail(r) PROVE Frame
    BY <2>3 DEF Fail, Done, codeVars, Frame, Kept, TypeOK
  <2>4. ASSUME UNCHANGED local, UNCHANGED <<audit, told, verified>> PROVE Frame
    BY <2>4 DEF local, Frame, Kept
  <2>5. CASE TimeStep \/ UNCHANGED vars
    <3>1. UNCHANGED local /\ UNCHANGED <<audit, told, verified>>
      BY <2>5 DEF TimeStep, CodeExpires, CodeEnds, CooldownEnds, QuotaEnds, AttemptsEnd,
                  LockoutEnds, codeVars, vars
    <3> QED BY <2>0, <2>4, <3>1
  <2>6. ASSUME NEW v \in Verifiers, VerifyStep(v) PROVE Trace'
    <3>1. ASSUME NEW g \in told \cup {Wrong}, CheckLock(v, g) PROVE Trace'
      BY <3>1 DEF CheckLock, codeVars, TypeOK, Trace, VerifiedLeavesTrace
    <3>2. CASE GetCode(v)
      <4>1. CASE otp = NoCode
        BY <2>0, <3>2, <4>1 DEF GetCode, Done, codeVars, Frame, Kept, TypeOK
      <4>2. CASE otp # NoCode
        <5>1. PICK next \in {"markExpired", "del", "miss"} :
                 /\ pc' = [pc EXCEPT ![v] = next] /\ code' = [code EXCEPT ![v] = otp]
                 /\ guess' = [guess EXCEPT ![v] = Wrong]
                 /\ next = "del" => guess[v] = otp
          BY <3>2, <4>2 DEF GetCode
        <5>2. next = "del" => otp \in told
          BY <4>2, <5>1 DEF Trace, Wrong, NoCode
        <5> QED BY <3>2, <5>1, <5>2 DEF GetCode, codeVars, TypeOK, Trace, VerifiedLeavesTrace
      <4> QED BY <4>1, <4>2
    <3>3. CASE MarkExpired(v)
      <4>1. Kept BY <3>3 DEF MarkExpired, Outcome, Kept, Final, TypeOK
      <4> QED BY <2>0, <3>3, <4>1 DEF MarkExpired, Goto, Frame, TypeOK
    <3>4. CASE DelExpired(v)
      BY <2>0, <3>4 DEF DelExpired, Done, Frame, Kept, TypeOK
    <3>5. CASE IncrAttempts(v) \/ ExpireAttempts(v) \/ SetLock(v)
      BY <2>0, <3>5 DEF IncrAttempts, ExpireAttempts, SetLock, AfterCount, Goto, Done,
                        codeVars, Frame, Kept, TypeOK
    <3>6. CASE MarkLocked(v)
      <4>1. Kept BY <3>6 DEF MarkLocked, Outcome, Kept, Final, TypeOK
      <4> QED BY <2>0, <3>6, <4>1 DEF MarkLocked, Done, Frame, TypeOK
    <3>7. CASE DelCode(v) \/ ClearAttempts(v)
      BY <2>0, <3>7 DEF DelCode, ClearAttempts, Goto, codeVars, Frame, Kept, TypeOK
    <3>8. CASE MarkConsumed(v)
      <4>1. Kept BY <3>8 DEF MarkConsumed, Outcome, Kept, Final, TypeOK
      <4>2. code[v] \in told BY <3>8 DEF MarkConsumed, Trace
      <4>3. audit'[code[v]] \in Final
        BY <3>8, <4>2 DEF MarkConsumed, Outcome, Final, TypeOK
      <4> QED BY <3>8, <4>1, <4>2, <4>3
              DEF MarkConsumed, Goto, Kept, TypeOK, Trace, VerifiedLeavesTrace, Final
    <3>9. CASE MarkEmailVerified(v)
      <4>1. \E k \in told : audit[k] \in Final
        BY <3>9 DEF MarkEmailVerified, Trace
      <4> QED BY <3>9, <4>1
              DEF MarkEmailVerified, Done, TypeOK, Trace, VerifiedLeavesTrace, Final
    <3> QED BY <2>6, <3>1, <3>2, <3>3, <3>4, <3>5, <3>6, <3>7, <3>8, <3>9 DEF VerifyStep
  <2> QED BY <2>0, <2>1, <2>2, <2>3, <2>5, <2>6 DEF Next
<1>3. Trace => VerifiedLeavesTrace
  BY DEF Trace
<1> QED BY <1>1, <1>2, <1>3, TypeCorrect, PTL DEF Spec

---------------------------------------------------------------------------
(* Every counter ends.                                                      *)

\* A step that takes no request out of the EXPIRE it owes, breaks nothing off
\* and leaves the counters alone.
LEMMA CountersFrame ==
    ASSUME CountersEnd, fails' = fails,
           UNCHANGED <<count, counting, attempts, attemptsEnd>>,
           \A r \in Resends : pc[r] = "expire" => pc'[r] = "expire" /\ left'[r] = left[r],
           \A v \in Verifiers : pc[v] = "missExpire" => pc'[v] = "missExpire"
    PROVE  CountersEnd'
  BY DEF CountersEnd

\* INCR and EXPIRE are two calls, yet no interleaving of any number of requests
\* leaves a counter that never ends: only a request that breaks off between the
\* two does.
THEOREM NoEndlessCounter == Spec => []CountersEnd
<1>1. Init => CountersEnd
  BY DEF Init, CountersEnd
<1>2. TypeOK /\ CountersEnd /\ [Next]_vars => CountersEnd'
  <2> SUFFICES ASSUME TypeOK, CountersEnd, [Next]_vars PROVE CountersEnd'
    OBVIOUS
  <2> USE Members
  <2> DEFINE Frame ==
        /\ fails' = fails /\ UNCHANGED <<count, counting, attempts, attemptsEnd>>
        /\ \A r \in Resends : pc[r] = "expire" => pc'[r] = "expire" /\ left'[r] = left[r]
        /\ \A v \in Verifiers : pc[v] = "missExpire" => pc'[v] = "missExpire"
  <2>0. Frame => CountersEnd'
    BY CountersFrame
  <2> HIDE DEF Frame
  <2>1. ASSUME NEW r \in Issuers, IssueStep(r) PROVE Frame
    <3>1. pc[r] \notin {"expire", "missExpire"}
      BY <2>1 DEF IssueStep, Supersede, CreateAudit, StoreCode, LogCode, Mail
    <3>2. \A q \in Requests \ {r} : pc'[q] = pc[q] /\ left'[q] = left[q]
      BY <2>1 DEF IssueStep, Supersede, CreateAudit, StoreCode, LogCode, Mail, Goto, Done,
                  TypeOK
    <3>3. fails' = fails /\ UNCHANGED <<count, counting, attempts, attemptsEnd>>
      BY <2>1 DEF IssueStep, Supersede, CreateAudit, StoreCode, LogCode, Mail,
                  quotaVars, attemptVars, bounds
    <3> QED BY <3>1, <3>2, <3>3 DEF Frame
  <2>2. ASSUME NEW r \in Resends,
               StartResend(r) \/ CheckCooldown(r) \/ CheckQuota(r) \/ SetCooldown(r)
        PROVE  Frame
    <3>1. pc[r] \notin {"expire", "missExpire"}
      BY <2>2 DEF StartResend, CheckCooldown, CheckQuota, SetCooldown
    <3>2. \A q \in Requests \ {r} : pc'[q] = pc[q] /\ left'[q] = left[q]
      BY <2>2 DEF StartResend, CheckCooldown, CheckQuota, SetCooldown, Goto, Done,
                  Admitted, TypeOK
    <3>3. fails' = fails /\ UNCHANGED <<count, counting, attempts, attemptsEnd>>
      BY <2>2 DEF StartResend, CheckCooldown, CheckQuota, SetCooldown,
                  quotaVars, attemptVars, bounds
    <3> QED BY <3>1, <3>2, <3>3 DEF Frame
  <2>3. ASSUME NEW r \in Resends, IncrQuota(r) PROVE CountersEnd'
    <3> DEFINE q == Head(left[r])
    <3>1. /\ pc[r] = "incr" /\ q \in Counters
          /\ count' = [count EXCEPT ![q] = @ + 1]
          /\ count[q] = 0 => pc' = [pc EXCEPT ![r] = "expire"] /\ left' = left
          /\ UNCHANGED <<counting, attempts, attemptsEnd, fails>>
      <4>1. left[r] \in Seq(Counters) /\ left[r] # <<>> BY <2>3 DEF IncrQuota, TypeOK
      <4> QED BY <2>3, <4>1, TailType DEF IncrQuota, Goto, attemptVars, bounds
    <3>2. \A p \in Requests \ {r} : pc'[p] = pc[p] /\ left'[p] = left[p]
      BY <2>3 DEF IncrQuota, Goto, Counted, TypeOK
    <3>3. ASSUME fails' = 0, NEW p \in Counters \ counting', count'[p] > 0
          PROVE  \E s \in Resends : pc'[s] = "expire" /\ Head(left'[s]) = p
      <4>1. CASE p = q /\ count[q] = 0
        <5>1. pc'[r] = "expire" /\ left'[r] = left[r] BY <3>1, <4>1 DEF TypeOK
        <5> QED BY <4>1, <5>1
      <4>2. CASE ~ (p = q /\ count[q] = 0)
        <5>1. count[p] > 0 BY <3>1, <3>3, <4>2 DEF TypeOK
        <5>2. PICK s \in Resends : pc[s] = "expire" /\ Head(left[s]) = p
          BY <3>1, <3>3, <5>1 DEF CountersEnd
        <5>3. s # r BY <3>1, <5>2
        <5> QED BY <3>2, <5>2, <5>3
      <4> QED BY <4>1, <4>2
    <3>4. ASSUME fails' = 0, attempts' > 0, ~ attemptsEnd'
          PROVE  \E v \in Verifiers : pc'[v] = "missExpire"
      BY <3>1, <3>2, <3>4 DEF CountersEnd
    <3> HIDE DEF q
    <3> QED BY <3>3, <3>4 DEF CountersEnd
  <2>4. ASSUME NEW r \in Resends, ExpireQuota(r) PROVE CountersEnd'
    <3>1. /\ pc[r] = "expire" /\ counting' = counting \cup {Head(left[r])}
          /\ UNCHANGED <<count, attempts, attemptsEnd, fails>>
          /\ \A p \in Requests \ {r} : pc'[p] = pc[p] /\ left'[p] = left[p]
      BY <2>4 DEF ExpireQuota, Counted, attemptVars, bounds, TypeOK
    <3> QED BY <3>1 DEF CountersEnd
  <2>5. ASSUME NEW v \in Verifiers, VerifyStep(v) PROVE CountersEnd'
    <3>1. /\ fails' = fails /\ UNCHANGED <<count, counting>>
          /\ \A p \in Requests \ {v} : pc'[p] = pc[p] /\ left'[p] = left[p]
          /\ pc[v] # "expire"
      <4>1. CASE \E g \in told \cup {Wrong} : CheckLock(v, g)
        BY <4>1 DEF CheckLock, quotaVars, TypeOK
      <4>2. CASE GetCode(v) \/ MarkExpired(v) \/ DelExpired(v) \/ IncrAttempts(v)
                 \/ ExpireAttempts(v) \/ SetLock(v)
        BY <4>2 DEF GetCode, MarkExpired, DelExpired, IncrAttempts, ExpireAttempts, SetLock,
                    AfterCount, Goto, Done, quotaVars, bounds, TypeOK
      <4>3. CASE MarkLocked(v) \/ DelCode(v) \/ ClearAttempts(v) \/ MarkConsumed(v)
                 \/ MarkEmailVerified(v)
        BY <4>3 DEF MarkLocked, DelCode, ClearAttempts, MarkConsumed, MarkEmailVerified,
                    Goto, Done, quotaVars, bounds, TypeOK
      <4> QED BY <2>5, <4>1, <4>2, <4>3 DEF VerifyStep
    <3>2. ASSUME fails' = 0, NEW p \in Counters \ counting', count'[p] > 0
          PROVE  \E r \in Resends : pc'[r] = "expire" /\ Head(left'[r]) = p
      BY <3>1, <3>2 DEF CountersEnd
    <3>3. ASSUME fails' = 0, attempts' > 0, ~ attemptsEnd'
          PROVE  \E w \in Verifiers : pc'[w] = "missExpire"
      <4>1. CASE IncrAttempts(v)
        <5>1. CASE attempts = 0
          BY <4>1, <5>1 DEF IncrAttempts, Goto, TypeOK
        <5>2. CASE attempts # 0
          <6>1. attempts > 0 /\ ~ attemptsEnd /\ pc[v] = "miss"
            BY <3>3, <4>1, <5>2 DEF IncrAttempts, TypeOK
          <6>2. PICK w \in Verifiers : pc[w] = "missExpire"
            BY <3>1, <3>3, <6>1 DEF CountersEnd
          <6>3. w # v BY <6>1, <6>2
          <6> QED BY <3>1, <6>2, <6>3
        <5> QED BY <5>1, <5>2
      <4>2. CASE ExpireAttempts(v)
        BY <3>3, <4>2 DEF ExpireAttempts
      <4>3. CASE ClearAttempts(v)
        BY <3>3, <4>3 DEF ClearAttempts
      <4>4. CASE ~ IncrAttempts(v) /\ ~ ExpireAttempts(v) /\ ~ ClearAttempts(v)
        <5>1. UNCHANGED <<attempts, attemptsEnd>> /\ pc[v] # "missExpire"
          BY <2>5, <4>4 DEF VerifyStep, CheckLock, GetCode, MarkExpired, DelExpired,
             SetLock, MarkLocked, DelCode, MarkConsumed, MarkEmailVerified, attemptVars
        <5>2. PICK w \in Verifiers : pc[w] = "missExpire"
          BY <3>1, <3>3, <5>1 DEF CountersEnd
        <5> QED BY <3>1, <5>1, <5>2
      <4> QED BY <4>1, <4>2, <4>3, <4>4
    <3> QED BY <3>2, <3>3 DEF CountersEnd
  <2>6. ASSUME NEW r \in Requests, Fail(r) PROVE CountersEnd'
    BY <2>6 DEF Fail, CountersEnd, TypeOK
  <2>7. CASE TimeStep
    <3>1. UNCHANGED <<pc, left, fails>>
      BY <2>7 DEF TimeStep, CodeExpires, CodeEnds, CooldownEnds, QuotaEnds, AttemptsEnd,
                  LockoutEnds, local, bounds
    <3>2. ASSUME NEW r \in Resends, QuotaEnds(r) PROVE CountersEnd'
      BY <3>1, <3>2 DEF QuotaEnds, CountersEnd, TypeOK, attemptVars
    <3>3. ASSUME NEW v \in Verifiers, AttemptsEnd(v) PROVE CountersEnd'
      BY <3>1, <3>3 DEF AttemptsEnd, CountersEnd, quotaVars
    <3>4. CASE UNCHANGED <<count, counting, attempts, attemptsEnd>>
      BY <3>1, <3>4 DEF CountersEnd
    <3> QED BY <2>7, <3>2, <3>3, <3>4
            DEF TimeStep, CodeExpires, CodeEnds, CooldownEnds, LockoutEnds,
                quotaVars, attemptVars
  <2>8. CASE UNCHANGED vars
    BY <2>8 DEF vars, quotaVars, attemptVars, local, bounds, CountersEnd
  <2> QED BY <2>0, <2>1, <2>2, <2>3, <2>4, <2>5, <2>6, <2>7, <2>8 DEF Next, ResendStep
<1> QED BY <1>1, <1>2, TypeCorrect, PTL DEF Spec
---------------------------------------------------------------------------
(* The limit on guesses.                                                    *)

\* How many requests are at a set of calls changes by the one that moves.
LEMMA OneMoves ==
    ASSUME NEW P, IsFiniteSet(P), NEW A \in SUBSET P, NEW B \in SUBSET P,
           NEW r, A \ {r} = B \ {r}
    PROVE  /\ Cardinality(P) \in Nat /\ Cardinality(A) \in Nat /\ Cardinality(B) \in Nat
           /\ Cardinality(A) <= Cardinality(P) /\ Cardinality(B) <= Cardinality(P)
           /\ Cardinality(B) = Cardinality(A)
                 + (IF r \in B /\ r \notin A THEN 1 ELSE IF r \in A /\ r \notin B THEN -1 ELSE 0)
<1>1. IsFiniteSet(A) /\ Cardinality(A) <= Cardinality(P) BY FS_Subset
<1>2. IsFiniteSet(B) /\ Cardinality(B) <= Cardinality(P) BY FS_Subset
<1>3. Cardinality(P) \in Nat /\ Cardinality(A) \in Nat /\ Cardinality(B) \in Nat
  BY <1>1, <1>2, FS_CardinalityType
<1>4. Cardinality(A \ {r}) = IF r \in A THEN Cardinality(A) - 1 ELSE Cardinality(A)
  BY <1>1, FS_RemoveElement
<1>5. Cardinality(B \ {r}) = IF r \in B THEN Cardinality(B) - 1 ELSE Cardinality(B)
  BY <1>2, FS_RemoveElement
<1> QED BY <1>1, <1>2, <1>3, <1>4, <1>5

LEMMA ApartCounts ==
    ASSUME NEW P, IsFiniteSet(P), NEW A \in SUBSET P, NEW B \in SUBSET P, A \cap B = {}
    PROVE  Cardinality(A) + Cardinality(B) <= Cardinality(P)
<1>1. IsFiniteSet(A) /\ IsFiniteSet(B) BY FS_Subset
<1>2. Cardinality(A) \in Nat /\ Cardinality(B) \in Nat BY <1>1, FS_CardinalityType
<1>3. Cardinality(A \cup B) = Cardinality(A) + Cardinality(B)
  <2>1. Cardinality(A \cup B) = Cardinality(A) + Cardinality(B) - Cardinality(A \cap B)
    BY <1>1, FS_Union
  <2>2. Cardinality(A \cap B) = 0 BY FS_EmptySet
  <2> QED BY <1>2, <2>1, <2>2
<1>4. Cardinality(A \cup B) <= Cardinality(P) BY FS_Subset
<1> QED BY <1>3, <1>4

\* Where a refused guess waits to be counted, or to lock the user out.
MissPC == {"miss", "lock"} \cup (IF MaxVerifyAttempts = 1 THEN {"missExpire"} ELSE {})
NMissed == Cardinality({v \in Verifiers : pc[v] \in MissPC})
NGuessing == Cardinality({v \in Verifiers : pc[v] = "get"})

\* Refused guesses that were counted without a lockout.
Tolerated == IF attempts < MaxVerifyAttempts THEN attempts ELSE MaxVerifyAttempts - 1

\* Without a lockout every refused guess was tolerated, is under way, or its
\* request broke off; under a lockout nobody starts, and whoever still compares
\* has a guess.
GuessInv ==
    /\ ~ lockout => misses <= Tolerated + NMissed + fails
    /\ lockout => misses + NGuessing <= MaxVerifyAttempts - 1 + Cardinality(Verifiers) + fails

Move(r, next) == pc' = [pc EXCEPT ![r] = next]

LEMMA GuessCounts ==
    ASSUME TypeOK, NEW r \in Requests, NEW next, Move(r, next)
    PROVE  /\ NMissed \in Nat /\ NGuessing \in Nat /\ Cardinality(Verifiers) \in Nat
           /\ NMissed' \in Nat /\ NGuessing' \in Nat
           /\ NMissed + NGuessing <= Cardinality(Verifiers)
           /\ NMissed' = NMissed +
                 (IF r \in Verifiers /\ next \in MissPC /\ pc[r] \notin MissPC THEN 1
                  ELSE IF r \in Verifiers /\ pc[r] \in MissPC /\ next \notin MissPC THEN -1 ELSE 0)
           /\ NGuessing' = NGuessing +
                 (IF r \in Verifiers /\ next = "get" /\ pc[r] # "get" THEN 1
                  ELSE IF r \in Verifiers /\ pc[r] = "get" /\ next # "get" THEN -1 ELSE 0)
<1> DEFINE A == {v \in Verifiers : pc[v] \in MissPC}
           B == {v \in Verifiers : pc[v] = "get"}
<1>0. DOMAIN pc = Requests BY DEF TypeOK
<1>1. /\ \A q \in Verifiers \ {r} : pc'[q] = pc[q]
      /\ pc'[r] = next
  BY <1>0, Members DEF Move
<1>2. IsFiniteSet(Verifiers) BY VerificationAssumption
<1>3. A \in SUBSET Verifiers /\ A' \in SUBSET Verifiers /\ A \ {r} = A' \ {r}
  BY <1>1
<1>4. B \in SUBSET Verifiers /\ B' \in SUBSET Verifiers /\ B \ {r} = B' \ {r}
  BY <1>1
<1>5. A \cap B = {} BY DEF MissPC
<1>6. r \in A <=> r \in Verifiers /\ pc[r] \in MissPC OBVIOUS
<1>7. r \in A' <=> r \in Verifiers /\ next \in MissPC BY <1>1
<1>8. r \in B <=> r \in Verifiers /\ pc[r] = "get" OBVIOUS
<1>9. r \in B' <=> r \in Verifiers /\ next = "get" BY <1>1
<1>10. NMissed = Cardinality(A) /\ NMissed' = Cardinality(A') BY DEF NMissed
<1>11. NGuessing = Cardinality(B) /\ NGuessing' = Cardinality(B') BY DEF NGuessing
<1> HIDE DEF A, B
<1>12. /\ Cardinality(A) \in Nat /\ Cardinality(A') \in Nat /\ Cardinality(Verifiers) \in Nat
       /\ Cardinality(A') = Cardinality(A)
             + (IF r \in A' /\ r \notin A THEN 1 ELSE IF r \in A /\ r \notin A' THEN -1 ELSE 0)
  BY <1>2, <1>3, OneMoves
<1>13. /\ Cardinality(B) \in Nat /\ Cardinality(B') \in Nat
       /\ Cardinality(B') = Cardinality(B)
             + (IF r \in B' /\ r \notin B THEN 1 ELSE IF r \in B /\ r \notin B' THEN -1 ELSE 0)
  BY <1>2, <1>4, OneMoves
<1>14. Cardinality(A) + Cardinality(B) <= Cardinality(Verifiers)
  BY <1>2, <1>3, <1>4, <1>5, ApartCounts
<1>15. NMissed' = NMissed +
          (IF r \in Verifiers /\ next \in MissPC /\ pc[r] \notin MissPC THEN 1
           ELSE IF r \in Verifiers /\ pc[r] \in MissPC /\ next \notin MissPC THEN -1 ELSE 0)
  BY <1>6, <1>7, <1>10, <1>12
<1>16. NGuessing' = NGuessing +
          (IF r \in Verifiers /\ next = "get" /\ pc[r] # "get" THEN 1
           ELSE IF r \in Verifiers /\ pc[r] = "get" /\ next # "get" THEN -1 ELSE 0)
  BY <1>8, <1>9, <1>11, <1>13
<1> QED BY <1>10, <1>11, <1>12, <1>13, <1>14, <1>15, <1>16

LEMMA Numbers ==
    ASSUME TypeOK
    PROVE  /\ misses \in Nat /\ attempts \in Nat /\ fails \in Nat /\ lockout \in BOOLEAN
           /\ MaxVerifyAttempts \in Nat \ {0} /\ Tolerated \in Nat
           /\ Tolerated <= MaxVerifyAttempts - 1
  BY VerificationAssumption DEF TypeOK, Tolerated

\* A call that has nothing to do with guesses.
LEMMA GuessFrame ==
    ASSUME TypeOK, GuessInv, NEW r \in Requests, NEW next, Move(r, next),
           UNCHANGED <<misses, attempts, lockout, fails>>,
           r \in Verifiers => pc[r] \notin MissPC /\ next \notin MissPC /\ next # "get"
    PROVE  GuessInv'
<1>1. Tolerated' = Tolerated BY DEF Tolerated
<1>2. NMissed' = NMissed /\ NGuessing' <= NGuessing BY GuessCounts
<1> QED BY <1>1, <1>2, GuessCounts, Numbers DEF GuessInv

\* The calls of the requests that issue codes.
LEMMA IssuerMoves ==
    ASSUME TypeOK, NEW r \in Issuers, IssueStep(r) \/ (r \in Resends /\ ResendStep(r))
    PROVE  /\ r \in Requests /\ pc[r] \in IssuePC \cup {"idle"}
           /\ \E next \in IssuePC \cup {"idle"} : Move(r, next)
           /\ UNCHANGED <<attemptVars, fails>>
<1>1. r \in Requests BY Members
<1>2. CASE IssueStep(r)
  BY <1>1, <1>2 DEF IssueStep, Supersede, CreateAudit, StoreCode, LogCode, Mail, Goto, Done, IssuePC,
     Move, bounds
<1>3. CASE r \in Resends /\ ResendStep(r)
  BY <1>1, <1>3 DEF ResendStep, StartResend, CheckCooldown, CheckQuota, SetCooldown, IncrQuota,
     ExpireQuota, Goto, Done, Admitted, Counted, IssuePC, Move, bounds
<1> QED BY <1>2, <1>3

LEMMA GuessInvAlways == Spec => []GuessInv
<1>1. Init => GuessInv
  <2> SUFFICES ASSUME Init PROVE GuessInv
    OBVIOUS
  <2>1. \A v \in Verifiers : pc[v] = "idle" BY Members DEF Init
  <2>2. {v \in Verifiers : pc[v] \in MissPC} = {} BY <2>1 DEF MissPC
  <2>3. NMissed = 0 BY <2>2, FS_EmptySet DEF NMissed
  <2>4. Tolerated \in Nat BY VerificationAssumption DEF Init, Tolerated
  <2> QED BY <2>3, <2>4 DEF Init, GuessInv
<1>2. TypeOK /\ TypeOK' /\ GuessInv /\ [Next]_vars => GuessInv'
  <2> SUFFICES ASSUME TypeOK, TypeOK', GuessInv, [Next]_vars PROVE GuessInv'
    OBVIOUS
  <2>1. ASSUME NEW r \in Issuers, IssueStep(r) \/ (r \in Resends /\ ResendStep(r))
        PROVE  GuessInv'
    <3>1. /\ r \in Requests /\ pc[r] \notin MissPC
          /\ \E next \in IssuePC \cup {"idle"} : Move(r, next)
          /\ UNCHANGED <<misses, attempts, lockout, fails>>
      BY <2>1, IssuerMoves DEF MissPC, IssuePC, attemptVars
    <3>2. \A next \in IssuePC \cup {"idle"} : next \notin MissPC /\ next # "get"
      BY DEF MissPC, IssuePC
    <3> QED BY <3>1, <3>2, GuessFrame
  <2>2. ASSUME NEW v \in Verifiers, VerifyStep(v) PROVE GuessInv'
    <3>0. v \in Requests BY Members
    <3>1. ASSUME NEW g, CheckLock(v, g) PROVE GuessInv'
      <4>1. /\ pc[v] = "idle" /\ Move(v, "get") /\ ~ lockout
            /\ UNCHANGED <<misses, attempts, lockout, fails>>
        BY <3>1 DEF CheckLock, Move, attemptVars
      <4>2. NMissed' = NMissed BY <3>0, <4>1, GuessCounts DEF MissPC
      <4> QED BY <4>1, <4>2 DEF GuessInv, Tolerated
    <3>2. CASE GetCode(v)
      <4>1. pc[v] = "get" /\ UNCHANGED <<attempts, lockout, fails>>
        BY <3>2 DEF GetCode, bounds
      <4>2. CASE Move(v, "miss") /\ misses' = misses + 1
        <5>1. NMissed' = NMissed + 1 /\ NGuessing' = NGuessing - 1
          BY <3>0, <4>1, <4>2, GuessCounts DEF MissPC
        <5>2. NMissed \in Nat /\ NGuessing \in Nat /\ Cardinality(Verifiers) \in Nat
          BY <3>0, <4>2, GuessCounts
        <5>3. Tolerated' = Tolerated BY <4>1 DEF Tolerated
        <5> QED BY <4>1, <4>2, <5>1, <5>2, <5>3, Numbers DEF GuessInv
      <4>3. CASE misses' = misses /\ \E next \in {"idle", "markExpired", "del"} : Move(v, next)
        <5>1. PICK next \in {"idle", "markExpired", "del"} : Move(v, next) BY <4>3
        <5>2. NMissed' = NMissed /\ NGuessing' = NGuessing - 1
          BY <3>0, <4>1, <5>1, GuessCounts DEF MissPC
        <5>3. NMissed \in Nat /\ NGuessing \in Nat /\ Cardinality(Verifiers) \in Nat
          BY <3>0, <5>1, GuessCounts
        <5>4. Tolerated' = Tolerated BY <4>1 DEF Tolerated
        <5> QED BY <4>1, <4>3, <5>2, <5>3, <5>4, Numbers DEF GuessInv
      <4>4. \/ Move(v, "miss") /\ misses' = misses + 1
            \/ misses' = misses /\ \E next \in {"idle", "markExpired", "del"} : Move(v, next)
        <5>1. CASE otp = NoCode BY <3>2, <5>1 DEF GetCode, Done, Move
        <5>2. CASE otp # NoCode
          <6> DEFINE n == IF otp \in stale THEN "markExpired"
                          ELSE IF guess[v] = otp THEN "del" ELSE "miss"
          <6>1. /\ pc' = [pc EXCEPT ![v] = n]
                /\ misses' = IF pc'[v] = "miss" THEN misses + 1 ELSE misses
            BY <3>2, <5>2 DEF GetCode
          <6>2. pc'[v] = n BY <3>0, <6>1 DEF TypeOK
          <6>3. n \in {"markExpired", "del", "miss"} OBVIOUS
          <6> HIDE DEF n
          <6> QED BY <6>1, <6>2, <6>3 DEF Move
        <5> QED BY <5>1, <5>2
      <4> QED BY <4>2, <4>3, <4>4
    <3>3. CASE \/ MarkExpired(v) \/ DelExpired(v) \/ DelCode(v) \/ MarkConsumed(v)
               \/ MarkEmailVerified(v)
      <4>1. /\ pc[v] \notin MissPC /\ \E next \in {"delExpired", "idle", "clear", "verify"} : Move(v, next)
            /\ UNCHANGED <<misses, attempts, lockout, fails>>
        BY <3>3 DEF MarkExpired, DelExpired, DelCode, MarkConsumed, MarkEmailVerified, Goto, Done, Move,
           MissPC, attemptVars, bounds
      <4>2. \A next \in {"delExpired", "idle", "clear", "verify"} : next \notin MissPC /\ next # "get"
        BY DEF MissPC
      <4> QED BY <3>0, <4>1, <4>2, GuessFrame
    <3>4. CASE MarkLocked(v)
      <4>1. /\ pc[v] = "markLocked" /\ Move(v, "idle")
            /\ UNCHANGED <<misses, attempts, lockout, fails>>
        BY <3>4 DEF MarkLocked, Done, Move, attemptVars, bounds
      <4> QED BY <3>0, <4>1, GuessFrame DEF MissPC
    <3>5. CASE ClearAttempts(v)
      <4>1. /\ pc[v] = "clear" /\ Move(v, "consume") /\ attempts' = 0 /\ misses' = 0
            /\ lockout' = FALSE /\ fails' = fails
        BY <3>5 DEF ClearAttempts, Goto, Move, bounds
      <4>2. NMissed' \in Nat BY <3>0, <4>1, GuessCounts
      <4>3. Tolerated' = 0 BY <4>1, Numbers DEF Tolerated
      <4>4. misses' <= Tolerated' + NMissed' + fails' BY <4>1, <4>2, <4>3, Numbers
      <4> QED BY <4>1, <4>4 DEF GuessInv
    <3>6. CASE IncrAttempts(v)
      <4>1. /\ pc[v] = "miss" /\ attempts' = attempts + 1
            /\ UNCHANGED <<misses, lockout, fails>>
            /\ Move(v, IF attempts = 0 THEN "missExpire"
                       ELSE IF attempts + 1 >= MaxVerifyAttempts THEN "lock" ELSE "idle")
        BY <3>6 DEF IncrAttempts, AfterCount, Over, Goto, Done, Move, bounds
      <4>2. PICK next : /\ Move(v, next)
                        /\ next = IF attempts = 0 THEN "missExpire"
                                  ELSE IF attempts + 1 >= MaxVerifyAttempts THEN "lock" ELSE "idle"
        BY <4>1
      <4>3. /\ NMissed' = NMissed + (IF next \in MissPC THEN 0 ELSE -1) /\ NGuessing' = NGuessing
            /\ NMissed \in Nat /\ NGuessing \in Nat /\ Cardinality(Verifiers) \in Nat
        <5>1. pc[v] \in MissPC /\ next # "get" BY <4>1, <4>2 DEF MissPC
        <5> QED BY <3>0, <4>1, <4>2, <5>1, GuessCounts
      <4>4. Tolerated' = Tolerated + (IF next \in MissPC THEN 0 ELSE 1)
        BY <4>1, <4>2, Numbers DEF Tolerated, MissPC
      <4> QED BY <4>1, <4>3, <4>4, Numbers DEF GuessInv
    <3>7. CASE ExpireAttempts(v)
      <4>1. /\ pc[v] = "missExpire" /\ UNCHANGED <<misses, lockout, fails, attempts>>
            /\ Move(v, IF 1 >= MaxVerifyAttempts THEN "lock" ELSE "idle")
        BY <3>7 DEF ExpireAttempts, AfterCount, Over, Goto, Done, Move, bounds
      <4>2. PICK next : /\ Move(v, next)
                        /\ next = IF 1 >= MaxVerifyAttempts THEN "lock" ELSE "idle"
        BY <4>1
      <4>3. next \in MissPC <=> pc[v] \in MissPC
        BY <4>1, <4>2, Numbers DEF MissPC
      <4>4. /\ NMissed' = NMissed /\ NGuessing' = NGuessing
        BY <3>0, <4>1, <4>2, <4>3, GuessCounts
      <4> QED BY <4>1, <4>4, Numbers DEF GuessInv, Tolerated
    <3>8. CASE SetLock(v)
      <4>1. /\ pc[v] = "lock" /\ Move(v, "markLocked") /\ lockout' = TRUE
            /\ UNCHANGED <<misses, attempts, fails>>
        BY <3>8 DEF SetLock, Goto, Move, bounds
      <4>2. NGuessing' = NGuessing BY <3>0, <4>1, GuessCounts
      <4>3. /\ NMissed + NGuessing <= Cardinality(Verifiers)
            /\ NMissed \in Nat /\ NGuessing \in Nat /\ Cardinality(Verifiers) \in Nat
        BY <3>0, <4>1, GuessCounts
      <4> QED BY <4>1, <4>2, <4>3, Numbers DEF GuessInv
    <3> QED BY <2>2, <3>1, <3>2, <3>3, <3>4, <3>5, <3>6, <3>7, <3>8 DEF VerifyStep
  <2>3. ASSUME NEW r \in Requests, Fail(r) PROVE GuessInv'
    <3>1. /\ Move(r, "idle") /\ fails' = fails + 1 /\ UNCHANGED <<misses, attempts, lockout>>
      BY <2>3 DEF Fail, Done, Move, attemptVars
    <3>2. /\ NMissed - 1 <= NMissed' /\ NGuessing' <= NGuessing
          /\ NMissed \in Nat /\ NGuessing \in Nat /\ Cardinality(Verifiers) \in Nat
          /\ NMissed' \in Nat /\ NGuessing' \in Nat
      <4>1. "idle" \notin MissPC BY DEF MissPC
      <4> QED BY <3>1, <4>1, GuessCounts
    <3>3. Tolerated' = Tolerated BY <3>1 DEF Tolerated
    <3> QED BY <3>1, <3>2, <3>3, Numbers DEF GuessInv
  <2>4. CASE TimeStep
    <3>1. UNCHANGED <<pc, fails>>
      BY <2>4 DEF TimeStep, CodeExpires, CodeEnds, CooldownEnds, QuotaEnds, AttemptsEnd, LockoutEnds,
         local, bounds
    <3>2. NMissed' = NMissed /\ NGuessing' = NGuessing
      BY <3>1 DEF NMissed, NGuessing
    <3>3. /\ NMissed \in Nat /\ NGuessing \in Nat /\ Cardinality(Verifiers) \in Nat
          /\ NGuessing <= Cardinality(Verifiers)
      <4>1. IsFiniteSet(Verifiers) BY VerificationAssumption
      <4>2. {v \in Verifiers : pc[v] = "get"} \in SUBSET Verifiers OBVIOUS
      <4>3. {v \in Verifiers : pc[v] \in MissPC} \in SUBSET Verifiers OBVIOUS
      <4> QED BY <4>1, <4>2, <4>3, OneMoves DEF NMissed, NGuessing
    <3>4. CASE misses' = 0
      <4>1. Tolerated' \in Nat
        <5>1. attempts' \in Nat BY DEF TypeOK
        <5> QED BY <5>1, Numbers DEF Tolerated
      <4> QED BY <3>1, <3>2, <3>3, <3>4, <4>1, Numbers DEF GuessInv
    <3>5. CASE UNCHANGED <<misses, attempts, lockout>>
      BY <3>1, <3>2, <3>5 DEF GuessInv, Tolerated
    <3>6. misses' = 0 \/ UNCHANGED <<misses, attempts, lockout>>
      BY <2>4 DEF TimeStep, CodeExpires, CodeEnds, CooldownEnds, QuotaEnds, AttemptsEnd, LockoutEnds,
         attemptVars
    <3> QED BY <3>4, <3>5, <3>6
  <2>5. CASE UNCHANGED vars
    BY <2>5 DEF vars, attemptVars, local, bounds, GuessInv, Tolerated, NMissed, NGuessing
  <2> QED BY <2>1, <2>2, <2>3, <2>4, <2>5, Members DEF Next
<1> QED BY <1>1, <1>2, TypeCorrect, PTL DEF Spec

\* verifyCode reads the lockout once and counts a guess after comparing it, and still
\* no interleaving gets more guesses than the limit, the requests in flight and those
\* that broke off.
THEOREM GuessLimitHolds == Spec => []GuessesAreLimited
<1>1. TypeOK /\ GuessInv => GuessesAreLimited
  <2> SUFFICES ASSUME TypeOK, GuessInv PROVE GuessesAreLimited
    OBVIOUS
  <2> DEFINE A == {v \in Verifiers : pc[v] \in MissPC}
             B == {v \in Verifiers : pc[v] = "get"}
  <2>1. IsFiniteSet(Verifiers) BY VerificationAssumption
  <2>2. A \in SUBSET Verifiers /\ B \in SUBSET Verifiers OBVIOUS
  <2>3. /\ Cardinality(A) \in Nat /\ Cardinality(B) \in Nat /\ Cardinality(Verifiers) \in Nat
        /\ Cardinality(A) <= Cardinality(Verifiers)
    BY <2>1, <2>2, OneMoves
  <2>4. NMissed = Cardinality(A) /\ NGuessing = Cardinality(B) BY DEF NMissed, NGuessing
  <2> HIDE DEF A, B
  <2> QED BY <2>3, <2>4, Numbers DEF GuessInv, GuessesAreLimited
<1> QED BY <1>1, TypeCorrect, GuessInvAlways, PTL

---------------------------------------------------------------------------
(* The limits on resends.                                                   *)

\* The counters a request has still to check or to count.
Ahead(r) == {left[r][i] : i \in 1 .. Len(left[r])}

\* A resend that stored its code and has not counted it at q; one that q admitted
\* and that has not stored its code.
Owes(r, q) ==
    \/ pc[r] \in {"log", "cool"}
    \/ pc[r] = "incr" /\ q \in Ahead(r)
    \/ pc[r] = "expire" /\ \E i \in 2 .. Len(left[r]) : left[r][i] = q
Passed(r, q) ==
    \/ pc[r] \in {"supersede", "create", "store"}
    \/ pc[r] = "check" /\ q \notin Ahead(r)

NOwing(q) == Cardinality({r \in Resends : Owes(r, q)})
NPassed(q) == Cardinality({r \in Resends : Passed(r, q)})

\* Every resend is counted, owed, or its request broke off; and whoever is admitted
\* found the counter below its limit.
ResendInv(q) ==
    /\ resent[q] <= count[q] + NOwing(q) + fails
    /\ resent[q] + NPassed(q) <= Limit[q] - 1 + Cardinality(Resends) + fails

\* A request begins with all counters.
AllAhead == \A r \in Resends : pc[r] = "cooldown" => left[r] = Quotas

Alone(r) == \A p \in Requests \ {r} : pc'[p] = pc[p] /\ left'[p] = left[p]

LEMMA ResendCounts ==
    ASSUME NEW r \in Requests, Alone(r), NEW q
    PROVE  /\ NOwing(q) \in Nat /\ NPassed(q) \in Nat /\ Cardinality(Resends) \in Nat
           /\ NOwing(q)' \in Nat /\ NPassed(q)' \in Nat
           /\ NPassed(q)' <= Cardinality(Resends)
           /\ NOwing(q)' + NPassed(q)' <= Cardinality(Resends)
           /\ NOwing(q)' = NOwing(q) +
                 (IF r \in Resends /\ Owes(r, q)' /\ ~ Owes(r, q) THEN 1
                  ELSE IF r \in Resends /\ Owes(r, q) /\ ~ Owes(r, q)' THEN -1 ELSE 0)
           /\ NPassed(q)' = NPassed(q) +
                 (IF r \in Resends /\ Passed(r, q)' /\ ~ Passed(r, q) THEN 1
                  ELSE IF r \in Resends /\ Passed(r, q) /\ ~ Passed(r, q)' THEN -1 ELSE 0)
<1> DEFINE A == {p \in Resends : Owes(p, q)}
           B == {p \in Resends : Passed(p, q)}
<1>1. ASSUME NEW p \in Resends, p # r
      PROVE  (Owes(p, q)' <=> Owes(p, q)) /\ (Passed(p, q)' <=> Passed(p, q))
  <2>1. p \in Requests BY Members
  <2>2. pc'[p] = pc[p] /\ left'[p] = left[p] BY <1>1, <2>1 DEF Alone
  <2> QED BY <2>2 DEF Owes, Passed, Ahead
<1>2. IsFiniteSet(Resends) BY VerificationAssumption
<1>3. A \in SUBSET Resends /\ A' \in SUBSET Resends /\ A \ {r} = A' \ {r} BY <1>1
<1>4. B \in SUBSET Resends /\ B' \in SUBSET Resends /\ B \ {r} = B' \ {r} BY <1>1
<1>5. A' \cap B' = {} BY DEF Owes, Passed
<1>6. NOwing(q) = Cardinality(A) /\ NOwing(q)' = Cardinality(A') BY DEF NOwing
<1>7. NPassed(q) = Cardinality(B) /\ NPassed(q)' = Cardinality(B') BY DEF NPassed
<1>8. /\ r \in A <=> r \in Resends /\ Owes(r, q)
      /\ r \in A' <=> r \in Resends /\ Owes(r, q)'
      /\ r \in B <=> r \in Resends /\ Passed(r, q)
      /\ r \in B' <=> r \in Resends /\ Passed(r, q)'
  OBVIOUS
<1> HIDE DEF A, B
<1>9. /\ Cardinality(A) \in Nat /\ Cardinality(A') \in Nat /\ Cardinality(Resends) \in Nat
      /\ Cardinality(A') = Cardinality(A)
            + (IF r \in A' /\ r \notin A THEN 1 ELSE IF r \in A /\ r \notin A' THEN -1 ELSE 0)
  BY <1>2, <1>3, OneMoves
<1>10. /\ Cardinality(B) \in Nat /\ Cardinality(B') \in Nat
       /\ Cardinality(B') <= Cardinality(Resends)
       /\ Cardinality(B') = Cardinality(B)
             + (IF r \in B' /\ r \notin B THEN 1 ELSE IF r \in B /\ r \notin B' THEN -1 ELSE 0)
  BY <1>2, <1>4, OneMoves
<1>11. Cardinality(A') + Cardinality(B') <= Cardinality(Resends)
  BY <1>2, <1>3, <1>4, <1>5, ApartCounts
<1>12. NOwing(q)' = NOwing(q) +
          (IF r \in Resends /\ Owes(r, q)' /\ ~ Owes(r, q) THEN 1
           ELSE IF r \in Resends /\ Owes(r, q) /\ ~ Owes(r, q)' THEN -1 ELSE 0)
  BY <1>6, <1>8, <1>9
<1>13. NPassed(q)' = NPassed(q) +
          (IF r \in Resends /\ Passed(r, q)' /\ ~ Passed(r, q) THEN 1
           ELSE IF r \in Resends /\ Passed(r, q) /\ ~ Passed(r, q)' THEN -1 ELSE 0)
  BY <1>7, <1>8, <1>10
<1> QED BY <1>6, <1>7, <1>9, <1>10, <1>11, <1>12, <1>13

LEMMA QuotaNumbers ==
    ASSUME TypeOK, NEW q \in Counters
    PROVE  resent[q] \in Nat /\ count[q] \in Nat /\ fails \in Nat /\ Limit[q] \in Nat \ {0}
  BY VerificationAssumption DEF TypeOK

\* A call that counts, admits and stores nothing as far as q is concerned.
LEMMA ResendFrame ==
    ASSUME TypeOK, NEW r \in Requests, Alone(r), NEW q \in Counters, ResendInv(q),
           resent'[q] = resent[q], count'[q] = count[q], fails' = fails,
           r \in Resends /\ Owes(r, q) => Owes(r, q)',
           r \in Resends /\ Passed(r, q)' => Passed(r, q)
    PROVE  ResendInv(q)'
<1>1. NOwing(q) <= NOwing(q)' /\ NPassed(q)' <= NPassed(q) BY ResendCounts
<1> QED BY <1>1, ResendCounts, QuotaNumbers DEF ResendInv

\* What is ahead, one counter at a time.
LEMMA HeadAndTail ==
    ASSUME NEW s \in Seq(Counters), s # <<>>
    PROVE  /\ Head(s) = s[1] /\ Len(s) \in Nat /\ Len(s) >= 1
           /\ \A q : (\E i \in 2 .. Len(s) : s[i] = q)
                        <=> \E i \in 1 .. Len(Tail(s)) : Tail(s)[i] = q
           /\ \A q : (\E i \in 1 .. Len(s) : s[i] = q)
                        <=> q = Head(s) \/ \E i \in 2 .. Len(s) : s[i] = q
<1>1. Head(s) = s[1] /\ Len(s) \in Nat /\ Len(s) >= 1
  BY HeadTailProperties, LenProperties, EmptySeq
<1>2. Len(Tail(s)) = Len(s) - 1 /\ \A i \in 1 .. Len(Tail(s)) : Tail(s)[i] = s[i + 1]
  BY HeadTailProperties
<1>3. ASSUME NEW q
      PROVE  (\E i \in 2 .. Len(s) : s[i] = q) <=> \E i \in 1 .. Len(Tail(s)) : Tail(s)[i] = q
  <2>1. ASSUME NEW i \in 2 .. Len(s), s[i] = q PROVE \E j \in 1 .. Len(Tail(s)) : Tail(s)[j] = q
    <3>1. i - 1 \in 1 .. Len(Tail(s)) /\ (i - 1) + 1 = i BY <1>1, <1>2
    <3> QED BY <1>2, <2>1, <3>1
  <2>2. ASSUME NEW j \in 1 .. Len(Tail(s)), Tail(s)[j] = q PROVE \E i \in 2 .. Len(s) : s[i] = q
    <3>1. j + 1 \in 2 .. Len(s) BY <1>1, <1>2
    <3> QED BY <1>2, <2>2, <3>1
  <2> QED BY <2>1, <2>2
<1>4. ASSUME NEW q
      PROVE  (\E i \in 1 .. Len(s) : s[i] = q) <=> q = Head(s) \/ \E i \in 2 .. Len(s) : s[i] = q
  <2>1. \A i : i \in 1 .. Len(s) <=> i = 1 \/ i \in 2 .. Len(s) BY <1>1
  <2> QED BY <1>1, <2>1
<1> QED BY <1>1, <1>3, <1>4

LEMMA MovesAlone ==
    ASSUME TypeOK, NEW r \in Requests,
           \/ r \in Issuers /\ IssueStep(r)
           \/ r \in Resends /\ ResendStep(r)
           \/ r \in Verifiers /\ VerifyStep(r)
           \/ Fail(r)
    PROVE  Alone(r)
<1>0. DOMAIN pc = Requests /\ DOMAIN left = Requests BY DEF TypeOK
<1>1. CASE r \in Issuers /\ IssueStep(r)
  BY <1>0, <1>1 DEF IssueStep, Supersede, CreateAudit, StoreCode, LogCode, Mail, Goto, Done, Alone
<1>2. CASE r \in Resends /\ ResendStep(r)
  BY <1>0, <1>2 DEF ResendStep, StartResend, CheckCooldown, CheckQuota, SetCooldown, IncrQuota,
     ExpireQuota, Goto, Done, Admitted, Counted, Alone
<1>3. CASE r \in Verifiers /\ VerifyStep(r)
  <2>1. CASE GetCode(r)
    <3>1. CASE otp = NoCode BY <1>0, <2>1, <3>1 DEF GetCode, Done, Alone
    <3>2. CASE otp # NoCode
      <4>1. UNCHANGED left /\ \E next : pc' = [pc EXCEPT ![r] = next]
        BY <2>1, <3>2 DEF GetCode
      <4> QED BY <1>0, <4>1 DEF Alone
    <3> QED BY <3>1, <3>2
  <2>2. CASE \E g \in told \cup {Wrong} : CheckLock(r, g)
    BY <1>0, <2>2 DEF CheckLock, Alone
  <2>3. CASE \/ MarkExpired(r) \/ DelExpired(r) \/ IncrAttempts(r) \/ ExpireAttempts(r)
             \/ SetLock(r)
    BY <1>0, <2>3 DEF MarkExpired, DelExpired, IncrAttempts, ExpireAttempts, SetLock, AfterCount,
       Goto, Done, Alone
  <2>4. CASE \/ MarkLocked(r) \/ DelCode(r) \/ ClearAttempts(r) \/ MarkConsumed(r)
             \/ MarkEmailVerified(r)
    BY <1>0, <2>4 DEF MarkLocked, DelCode, ClearAttempts, MarkConsumed, MarkEmailVerified, Goto, Done,
       Alone
  <2> QED BY <1>3, <2>1, <2>2, <2>3, <2>4 DEF VerifyStep
<1>4. CASE Fail(r) BY <1>0, <1>4 DEF Fail, Done, Alone
<1> QED BY <1>1, <1>2, <1>3, <1>4

\* A verify request is at calls of its own.
LEMMA VerifierMoves ==
    ASSUME TypeOK, NEW v \in Verifiers, VerifyStep(v)
    PROVE  /\ pc[v] \in VerifyPC \cup {"idle"} /\ pc'[v] \in VerifyPC \cup {"idle"}
           /\ UNCHANGED <<quotaVars, fails>>
<1>0. v \in DOMAIN pc BY Members DEF TypeOK
<1>1. CASE GetCode(v)
  <2>1. CASE otp = NoCode BY <1>0, <1>1, <2>1 DEF GetCode, Done, VerifyPC, bounds
  <2>2. CASE otp # NoCode
    <3>1. \E next \in {"markExpired", "del", "miss"} : pc' = [pc EXCEPT ![v] = next]
      BY <1>1, <2>2 DEF GetCode
    <3> QED BY <1>0, <1>1, <3>1 DEF GetCode, VerifyPC, bounds
  <2> QED BY <2>1, <2>2
<1>2. CASE \E g \in told \cup {Wrong} : CheckLock(v, g)
  BY <1>0, <1>2 DEF CheckLock, VerifyPC
<1>3. CASE MarkExpired(v) \/ DelExpired(v) \/ IncrAttempts(v) \/ ExpireAttempts(v) \/ SetLock(v)
  BY <1>0, <1>3 DEF MarkExpired, DelExpired, IncrAttempts, ExpireAttempts, SetLock, AfterCount,
     Goto, Done, VerifyPC, bounds
<1>4. CASE MarkLocked(v) \/ DelCode(v) \/ ClearAttempts(v) \/ MarkConsumed(v) \/ MarkEmailVerified(v)
  BY <1>0, <1>4 DEF MarkLocked, DelCode, ClearAttempts, MarkConsumed, MarkEmailVerified, Goto, Done,
     VerifyPC, bounds
<1> QED BY <1>1, <1>2, <1>3, <1>4 DEF VerifyStep

\* In development the caller gets the code back from issueCode.
Development == ~ Production
QuotasInv == AllAhead /\ \A q \in Counters : ResendInv(q)

LEMMA IssuerQuotas ==
    ASSUME Development, TypeOK, QuotasInv, NEW r \in Issuers, IssueStep(r)
    PROVE  QuotasInv'
<1> DEFINE Ready == r \in Resends /\ pc'[r] = "cooldown" => left'[r] = Quotas
<1>0. r \in Requests /\ Alone(r) /\ r \in DOMAIN pc /\ r \in DOMAIN left
  BY Members, MovesAlone DEF TypeOK
<1>1. SUFFICES Ready /\ \A q \in Counters : ResendInv(q)'
  <2>1. \A p \in Resends \ {r} : pc'[p] = pc[p] /\ left'[p] = left[p]
    BY <1>0, Members DEF Alone
  <2> QED BY <2>1 DEF QuotasInv, AllAhead
<1>2. \A q \in Counters : ResendInv(q) BY DEF QuotasInv
<1>3. CASE StoreCode(r) /\ r \in Resends
  <2>1. /\ pc[r] = "store" /\ pc'[r] = "log" /\ \A q \in Counters : resent'[q] = resent[q] + 1
        /\ UNCHANGED <<count, fails>>
    BY <1>0, <1>3 DEF StoreCode, Goto, bounds
  <2>2. ASSUME NEW q \in Counters PROVE ResendInv(q)'
    <3>1. ~ Owes(r, q) /\ Passed(r, q) /\ Owes(r, q)' /\ ~ Passed(r, q)'
      BY <2>1 DEF Owes, Passed
    <3>2. NOwing(q)' = NOwing(q) + 1 /\ NPassed(q)' = NPassed(q) - 1
      BY <1>0, <1>3, <3>1, ResendCounts
    <3>3. NOwing(q) \in Nat /\ NPassed(q) \in Nat /\ Cardinality(Resends) \in Nat
      BY <1>0, ResendCounts
    <3> QED BY <1>2, <2>1, <3>2, <3>3, QuotaNumbers DEF ResendInv
  <2> QED BY <2>1, <2>2
<1>4. CASE ~ (StoreCode(r) /\ r \in Resends)
  <2>1. UNCHANGED <<resent, count, fails>>
    BY <1>4 DEF IssueStep, Supersede, CreateAudit, StoreCode, LogCode, Mail, quotaVars, bounds
  <2>2. ASSUME r \in Resends
        PROVE  \/ pc[r] \in {"supersede", "create"} /\ pc'[r] \in {"create", "store"}
               \/ pc[r] = "log" /\ pc'[r] = "cool"
               \/ pc[r] = "mail" /\ pc'[r] = "idle"
    <3>1. r # Signup /\ ~ Production BY <2>2, Members DEF Development
    <3>2. CASE Supersede(r) BY <1>0, <3>2 DEF Supersede, Goto
    <3>3. CASE CreateAudit(r) BY <1>0, <3>3 DEF CreateAudit
    <3>4. CASE LogCode(r) BY <1>0, <3>1, <3>4 DEF LogCode, Goto
    <3>5. CASE Mail(r) BY <1>0, <3>5 DEF Mail, Done
    <3> QED BY <1>4, <2>2, <3>2, <3>3, <3>4, <3>5 DEF IssueStep
  <2>3. Ready BY <2>2
  <2>4. ASSUME NEW q \in Counters PROVE ResendInv(q)'
    <3>1. r \in Resends => (Owes(r, q) => Owes(r, q)') /\ (Passed(r, q)' => Passed(r, q))
      BY <2>2 DEF Owes, Passed
    <3> QED BY <1>0, <1>2, <2>1, <3>1, ResendFrame
  <2> QED BY <2>3, <2>4
<1> QED BY <1>3, <1>4

LEMMA ResenderQuotas ==
    ASSUME TypeOK, QuotasInv, NEW r \in Resends, ResendStep(r)
    PROVE  QuotasInv'
<1> DEFINE Ready == pc'[r] = "cooldown" => left'[r] = Quotas
<1>s. PICK s : s = left[r] OBVIOUS
<1>h. PICK h : h = Head(s) OBVIOUS
<1>0. r \in Requests /\ Alone(r) /\ r \in DOMAIN pc /\ r \in DOMAIN left /\ s \in Seq(Counters)
  BY <1>s, Members, MovesAlone DEF TypeOK
<1>1. SUFFICES Ready /\ \A q \in Counters : ResendInv(q)'
  <2>1. \A p \in Resends \ {r} : pc'[p] = pc[p] /\ left'[p] = left[p]
    BY <1>0, Members DEF Alone
  <2> QED BY <2>1 DEF QuotasInv, AllAhead
<1>2. \A q \in Counters : ResendInv(q) BY DEF QuotasInv
<1>3. \A q : q \in Ahead(r) <=> \E i \in 1 .. Len(s) : s[i] = q BY <1>s DEF Ahead
<1>4. \A q \in Counters : \E i \in 1 .. Len(Quotas) : Quotas[i] = q BY DEF Counters
<1>5. ASSUME UNCHANGED <<resent, count, fails>>, NEW q \in Counters,
             Owes(r, q) => Owes(r, q)', Passed(r, q)' => Passed(r, q)
      PROVE  ResendInv(q)'
  BY <1>0, <1>2, <1>5, ResendFrame
<1>6. CASE StartResend(r)
  <2>1. /\ pc[r] = "idle" /\ pc'[r] = "cooldown" /\ left'[r] = Quotas
        /\ UNCHANGED <<resent, count, fails>>
    BY <1>0, <1>6 DEF StartResend, quotaVars
  <2>2. \A q \in Counters : ~ Owes(r, q) /\ ~ Passed(r, q)' BY <2>1 DEF Owes, Passed
  <2> QED BY <1>5, <2>1, <2>2
<1>7. CASE CheckCooldown(r)
  <2>1. /\ pc[r] = "cooldown" /\ UNCHANGED <<resent, count, fails>>
        /\ \/ pc'[r] = "idle"
           \/ pc'[r] = "check" /\ left'[r] = left[r]
    BY <1>0, <1>7 DEF CheckCooldown, Goto, Done, quotaVars, bounds
  <2>2. left[r] = Quotas BY <2>1 DEF QuotasInv, AllAhead
  <2>3. pc'[r] = "check" => \A q \in Counters : q \in Ahead(r)'
    BY <1>4, <2>1, <2>2 DEF Ahead
  <2>4. \A q \in Counters : ~ Owes(r, q) /\ ~ Passed(r, q)' BY <2>1, <2>3 DEF Owes, Passed
  <2> QED BY <1>5, <2>1, <2>4
<1>8. CASE CheckQuota(r)
  <2>1. pc[r] = "check" /\ UNCHANGED <<resent, count, fails>> /\ s # <<>>
    BY <1>8, <1>s DEF CheckQuota, quotaVars, bounds, TypeOK
  <2>2. \A q : ~ Owes(r, q) BY <2>1 DEF Owes
  <2>3. CASE Done(r)
    <3>1. pc'[r] = "idle" BY <1>0, <2>3 DEF Done
    <3>2. \A q : ~ Passed(r, q)' BY <3>1 DEF Passed
    <3> QED BY <1>5, <2>1, <2>2, <3>1, <3>2
  <2>4. CASE ~ (count[h] >= Limit[h]) /\ Admitted(r)
    <3>1. /\ pc'[r] = IF Len(s) = 1 THEN "supersede" ELSE "check"
          /\ left'[r] = Tail(s)
      BY <1>0, <1>s, <2>4 DEF Admitted
    <3>2. \A q : ~ Owes(r, q)' BY <3>1 DEF Owes
    <3>3. ASSUME NEW q \in Counters, q # h PROVE ResendInv(q)'
      <4>1. q \in Ahead(r) => Len(s) # 1 /\ q \in Ahead(r)'
        <5>1. q \in Ahead(r) => \E i \in 2 .. Len(s) : s[i] = q
          BY <1>0, <1>3, <1>h, <2>1, <3>3, HeadAndTail
        <5>2. Len(s) \in Nat BY <1>0, <2>1, HeadAndTail
        <5>3. q \in Ahead(r) => \E i \in 1 .. Len(Tail(s)) : Tail(s)[i] = q
          BY <1>0, <2>1, <5>1, HeadAndTail
        <5> QED BY <3>1, <5>1, <5>2, <5>3 DEF Ahead
      <4>2. Passed(r, q)' => Passed(r, q) BY <2>1, <3>1, <4>1 DEF Passed
      <4> QED BY <1>5, <2>1, <2>2, <4>2
    <3>4. ASSUME h \in Counters PROVE ResendInv(h)'
      <4>1. NOwing(h)' = NOwing(h) BY <1>0, <2>2, <3>2, ResendCounts
      <4>2. /\ NOwing(h)' + NPassed(h)' <= Cardinality(Resends)
            /\ NOwing(h) \in Nat /\ NPassed(h)' \in Nat /\ Cardinality(Resends) \in Nat
        BY <1>0, ResendCounts
      <4>3. ResendInv(h) BY <1>2, <3>4
      <4>4. /\ resent[h] \in Nat /\ count[h] \in Nat /\ fails \in Nat /\ Limit[h] \in Nat
        BY <3>4, QuotaNumbers
      <4>5. resent'[h] = resent[h] /\ count'[h] = count[h] /\ fails' = fails BY <2>1
      <4> QED BY <2>4, <4>1, <4>2, <4>3, <4>4, <4>5 DEF ResendInv
    <3>5. Ready BY <3>1
    <3> QED BY <3>3, <3>4, <3>5
  <2> QED BY <1>8, <1>s, <1>h, <2>3, <2>4 DEF CheckQuota
<1>9. CASE SetCooldown(r)
  <2>1. /\ pc[r] = "cool" /\ pc'[r] = "incr" /\ left'[r] = Quotas
        /\ UNCHANGED <<resent, count, fails>>
    BY <1>0, <1>9 DEF SetCooldown, bounds
  <2>2. \A q \in Counters : q \in Ahead(r)' BY <1>4, <2>1 DEF Ahead
  <2>3. \A q \in Counters : Owes(r, q)' /\ ~ Passed(r, q)' BY <2>1, <2>2 DEF Owes, Passed
  <2> QED BY <1>5, <2>1, <2>3
<1>10. CASE IncrQuota(r)
  <2>1. /\ pc[r] = "incr" /\ s # <<>> /\ UNCHANGED <<resent, fails>>
        /\ count' = [count EXCEPT ![h] = @ + 1]
        /\ \/ pc'[r] = "expire" /\ left'[r] = s
           \/ pc'[r] = (IF Len(s) = 1 THEN "mail" ELSE "incr") /\ left'[r] = Tail(s)
    BY <1>0, <1>s, <1>h, <1>10 DEF IncrQuota, Goto, Counted, bounds, TypeOK
  <2>2. \A q : ~ Passed(r, q) /\ ~ Passed(r, q)' BY <2>1 DEF Passed
  <2>3. Ready BY <2>1
  <2>4. ASSUME NEW q \in Counters PROVE ResendInv(q)'
    <3>1. NPassed(q)' = NPassed(q) /\ NOwing(q) - 1 <= NOwing(q)'
      <4>1. NOwing(q) \in Nat /\ NPassed(q) \in Nat BY <1>0, ResendCounts
      <4>2. NPassed(q)' = NPassed(q) BY <1>0, <2>2, <4>1, ResendCounts
      <4>3. NOwing(q)' \in {NOwing(q), NOwing(q) + 1, NOwing(q) - 1}
        BY <1>0, <4>1, ResendCounts
      <4> QED BY <4>1, <4>2, <4>3
    <3>2. CASE q = h
      <4>1. count'[q] = count[q] + 1 BY <2>1, <3>2 DEF TypeOK
      <4>2. NOwing(q) \in Nat /\ NOwing(q)' \in Nat /\ NPassed(q) \in Nat
            /\ Cardinality(Resends) \in Nat
        BY <1>0, ResendCounts
      <4>3. resent'[q] = resent[q] /\ fails' = fails BY <2>1
      <4> QED BY <1>2, <3>1, <4>1, <4>2, <4>3, QuotaNumbers DEF ResendInv
    <3>3. CASE q # h
      <4>1. count'[q] = count[q] /\ resent'[q] = resent[q] /\ fails' = fails
        BY <2>1, <3>3 DEF TypeOK
      <4>2. Owes(r, q) => Owes(r, q)'
        <5>1. Owes(r, q) => \E i \in 2 .. Len(s) : s[i] = q
          BY <1>0, <1>3, <2>1, <3>3, HeadAndTail, <1>h DEF Owes
        <5>2. Owes(r, q) => \E i \in 1 .. Len(Tail(s)) : Tail(s)[i] = q
          BY <1>0, <2>1, <5>1, HeadAndTail
        <5>3. Len(s) \in Nat BY <1>0, <2>1, HeadAndTail
        <5>4. CASE pc'[r] = "expire" /\ left'[r] = s BY <2>1, <5>1, <5>4, <1>s DEF Owes
        <5>5. CASE pc'[r] = (IF Len(s) = 1 THEN "mail" ELSE "incr") /\ left'[r] = Tail(s)
          BY <2>1, <5>1, <5>2, <5>3, <5>5 DEF Owes, Ahead
        <5> QED BY <2>1, <5>4, <5>5
      <4>3. ResendInv(q) BY <1>2
      <4>4. Passed(r, q)' => Passed(r, q) BY <2>2
      <4> HIDE DEF ResendInv, Owes, Passed, Alone
      <4> QED BY <1>0, <4>1, <4>2, <4>3, <4>4, ResendFrame
    <3> QED BY <3>2, <3>3
  <2> QED BY <2>3, <2>4
<1>11. CASE ExpireQuota(r)
  <2>1. /\ pc[r] = "expire" /\ s # <<>> /\ UNCHANGED <<resent, count, fails>>
        /\ pc'[r] = (IF Len(s) = 1 THEN "mail" ELSE "incr") /\ left'[r] = Tail(s)
    BY <1>0, <1>s, <1>11 DEF ExpireQuota, Counted, bounds, TypeOK
  <2>2. \A q : ~ Passed(r, q)' BY <2>1 DEF Passed
  <2>3. ASSUME NEW q \in Counters PROVE Owes(r, q) => Owes(r, q)'
    <3>1. Owes(r, q) => \E i \in 2 .. Len(s) : s[i] = q BY <1>s, <2>1 DEF Owes
    <3>2. Owes(r, q) => \E i \in 1 .. Len(Tail(s)) : Tail(s)[i] = q
      BY <1>0, <2>1, <3>1, HeadAndTail
    <3>3. Len(s) \in Nat BY <1>0, <2>1, HeadAndTail
    <3> QED BY <2>1, <3>1, <3>2, <3>3 DEF Owes, Ahead
  <2> QED BY <1>5, <2>1, <2>2, <2>3
<1> QED BY <1>6, <1>7, <1>8, <1>9, <1>10, <1>11 DEF ResendStep

LEMMA QuotasInvAlways ==
    ASSUME Development
    PROVE  Spec => []QuotasInv
<1>1. Init => QuotasInv
  <2> SUFFICES ASSUME Init PROVE QuotasInv
    OBVIOUS
  <2>1. \A r \in Resends : pc[r] = "idle" BY Members DEF Init
  <2>2. AllAhead BY <2>1 DEF AllAhead
  <2>3. ASSUME NEW q \in Counters PROVE ResendInv(q)
    <3>1. {r \in Resends : Owes(r, q)} = {} /\ {r \in Resends : Passed(r, q)} = {}
      BY <2>1 DEF Owes, Passed
    <3>2. NOwing(q) = 0 /\ NPassed(q) = 0 BY <3>1, FS_EmptySet DEF NOwing, NPassed
    <3>3. Limit[q] \in Nat \ {0} BY VerificationAssumption
    <3>4. Cardinality(Resends) \in Nat BY VerificationAssumption, FS_CardinalityType
    <3> QED BY <3>2, <3>3, <3>4 DEF Init, ResendInv
  <2> QED BY <2>2, <2>3 DEF QuotasInv
<1>2. TypeOK /\ QuotasInv /\ [Next]_vars => QuotasInv'
  <2> SUFFICES ASSUME TypeOK, QuotasInv, [Next]_vars PROVE QuotasInv'
    OBVIOUS
  <2>1. ASSUME NEW r \in Issuers, IssueStep(r) PROVE QuotasInv'
    BY <2>1, IssuerQuotas
  <2>2. ASSUME NEW r \in Resends, ResendStep(r) PROVE QuotasInv'
    BY <2>2, ResenderQuotas
  <2>3. ASSUME NEW v \in Verifiers, VerifyStep(v) PROVE QuotasInv'
    <3>1. /\ v \in Requests /\ Alone(v) /\ UNCHANGED <<resent, count, fails>>
          /\ pc[v] \in VerifyPC \cup {"idle"} /\ pc'[v] \in VerifyPC \cup {"idle"}
      BY <2>3, Members, MovesAlone, VerifierMoves DEF quotaVars
    <3>2. \A q : ~ Owes(v, q) /\ ~ Passed(v, q)' BY <3>1 DEF Owes, Passed, VerifyPC
    <3>3. \A q \in Counters : ResendInv(q)' BY <3>1, <3>2, ResendFrame DEF QuotasInv
    <3>4. AllAhead'
      <4>1. pc'[v] # "cooldown" BY <3>1 DEF VerifyPC
      <4> QED BY <3>1, <4>1, Members DEF QuotasInv, AllAhead, Alone
    <3> QED BY <3>3, <3>4 DEF QuotasInv
  <2>4. ASSUME NEW r \in Requests, Fail(r) PROVE QuotasInv'
    <3>1. /\ Alone(r) /\ pc'[r] = "idle" /\ fails' = fails + 1 /\ UNCHANGED <<resent, count>>
      BY <2>4, MovesAlone DEF Fail, Done, quotaVars, TypeOK
    <3>2. ASSUME NEW q \in Counters PROVE ResendInv(q)'
      <4>1. ~ Passed(r, q)' BY <3>1 DEF Passed
      <4>2. /\ NOwing(q) - 1 <= NOwing(q)' /\ NPassed(q)' <= NPassed(q)
            /\ NOwing(q) \in Nat /\ NOwing(q)' \in Nat /\ NPassed(q) \in Nat /\ NPassed(q)' \in Nat
            /\ Cardinality(Resends) \in Nat
        BY <3>1, <4>1, ResendCounts
      <4>3. ResendInv(q) BY DEF QuotasInv
      <4> QED BY <3>1, <4>2, <4>3, QuotaNumbers DEF ResendInv
    <3>3. AllAhead' BY <3>1, Members DEF QuotasInv, AllAhead, Alone
    <3> QED BY <3>2, <3>3 DEF QuotasInv
  <2>5. CASE TimeStep \/ UNCHANGED vars
    <3>1. UNCHANGED <<pc, left, fails>>
      BY <2>5 DEF TimeStep, CodeExpires, CodeEnds, CooldownEnds, QuotaEnds, AttemptsEnd, LockoutEnds,
         local, bounds, vars
    <3>2. \A q : NOwing(q)' = NOwing(q) /\ NPassed(q)' = NPassed(q)
      BY <3>1 DEF NOwing, NPassed, Owes, Passed, Ahead
    <3>3. AllAhead' BY <3>1 DEF QuotasInv, AllAhead
    <3>4. CASE UNCHANGED <<resent, count>>
      BY <3>1, <3>2, <3>3, <3>4 DEF QuotasInv, ResendInv
    <3>5. ASSUME NEW r \in Resends, QuotaEnds(r) PROVE QuotasInv'
      <4>1. PICK h : /\ count' = [count EXCEPT ![h] = 0] /\ resent' = [resent EXCEPT ![h] = 0]
        BY <3>5 DEF QuotaEnds
      <4>2. ASSUME NEW q \in Counters PROVE ResendInv(q)'
        <5>1. CASE q = h
          <6>1. count'[q] = 0 /\ resent'[q] = 0 BY <4>1, <5>1 DEF TypeOK
          <6>2. Signup \in Requests /\ Alone(Signup) BY <3>1, Members DEF Alone
          <6>3. /\ NOwing(q)' \in Nat /\ NPassed(q)' \in Nat /\ Cardinality(Resends) \in Nat
                /\ NPassed(q)' <= Cardinality(Resends)
            BY <6>2, ResendCounts
          <6> QED BY <3>1, <6>1, <6>3, QuotaNumbers DEF ResendInv
        <5>2. CASE q # h
          <6>1. count'[q] = count[q] /\ resent'[q] = resent[q] BY <4>1, <5>2 DEF TypeOK
          <6> QED BY <3>1, <3>2, <6>1 DEF QuotasInv, ResendInv
        <5> QED BY <5>1, <5>2
      <4> QED BY <3>3, <4>2 DEF QuotasInv
    <3>6. UNCHANGED <<resent, count>> \/ \E r \in Resends : QuotaEnds(r)
      BY <2>5 DEF TimeStep, CodeExpires, CodeEnds, CooldownEnds, AttemptsEnd, LockoutEnds,
         quotaVars, vars
    <3> QED BY <3>4, <3>5, <3>6
  <2> QED BY <2>1, <2>2, <2>3, <2>4, <2>5 DEF Next
<1> QED BY <1>1, <1>2, TypeCorrect, PTL DEF Spec

\* Limits are checked before a code is issued and counted after: only the requests in
\* flight at once and those that broke off get beyond them.  In production, where
\* issueCode throws before the count, only the limit on guesses is left.
THEOREM LimitsHold ==
    ASSUME Development
    PROVE  Spec => []RatesAreLimited
<1>1. TypeOK /\ QuotasInv => ResendsAreLimited
  <2> SUFFICES ASSUME TypeOK, QuotasInv, NEW q \in Counters
               PROVE  resent[q] <= Limit[q] + (Cardinality(Resends) - 1) + fails
    BY DEF ResendsAreLimited
  <2>1. NPassed(q) \in Nat /\ Cardinality(Resends) \in Nat
    <3>1. IsFiniteSet(Resends) BY VerificationAssumption
    <3>2. {r \in Resends : Passed(r, q)} \in SUBSET Resends OBVIOUS
    <3> QED BY <3>1, <3>2, OneMoves DEF NPassed
  <2> QED BY <2>1, QuotaNumbers DEF QuotasInv, ResendInv
<1> QED BY <1>1, TypeCorrect, GuessLimitHolds, QuotasInvAlways, PTL DEF RatesAreLimited

---------------------------------------------------------------------------
(* The codes of one user.                                                   *)

\* While nothing breaks off and no code grows old: no request takes a code for
\* expired, and the stored code is the user's, or about to be, or being used.
InHand ==
    fails = 0 /\ stale = {} =>
        /\ \A v \in Verifiers : pc[v] \notin {"markExpired", "delExpired"}
        /\ \/ verified
           \/ \E v \in Verifiers : pc[v] \in {"clear", "consume", "verify"}
           \/ pc[Signup] \in {"supersede", "create", "store"}
           \/ otp \in told
           \/ \E r \in Issuers : pc[r] = "log" /\ code[r] = otp

\* The sign-up is answered before the first request that needs its token.
SignupFirst == pc[Signup] # "idle" => \A r \in Requests \ {Signup} : pc[r] = "idle"

NPending == Cardinality({k \in Issues : audit[k] = "pending"})
NCreating == Cardinality({r \in Issuers : pc[r] = "create"})

\* A record pends for each request that has created one since the last supersede,
\* and another may for each that is about to.
Pendings == Resends # {} => NPending + NCreating <= Cardinality(Resends)

LEMMA InHandSteps ==
    ASSUME Development, TypeOK, InHand, NEW r \in Requests,
           \/ r \in Issuers /\ IssueStep(r)
           \/ r \in Resends /\ ResendStep(r)
           \/ r \in Verifiers /\ VerifyStep(r)
           \/ Fail(r)
    PROVE  InHand'
<1>0. /\ Alone(r) /\ r \in DOMAIN pc /\ r \in DOMAIN code /\ fails \in Nat
      /\ \A p \in Requests : p \in DOMAIN pc /\ p \in DOMAIN code
      /\ \A p \in Issuers \cup Verifiers : p \in Requests
      /\ Signup \in Issuers /\ Signup \in Requests
  BY Members, MovesAlone DEF TypeOK
<1>1. CASE Fail(r)
  <2>1. fails' # 0 BY <1>0, <1>1 DEF Fail
  <2> QED BY <2>1 DEF InHand
<1>2. SUFFICES ASSUME ~ Fail(r), fails = 0, stale = {} PROVE InHand'
  <2>1. CASE Fail(r) BY <1>1, <2>1
  <2>2. ASSUME ~ Fail(r) PROVE UNCHANGED <<fails, stale>>
    <3>1. CASE r \in Issuers /\ IssueStep(r)
      BY <3>1 DEF IssueStep, Supersede, CreateAudit, StoreCode, LogCode, Mail, bounds
    <3>2. CASE r \in Resends /\ ResendStep(r)
      BY <3>2 DEF ResendStep, StartResend, CheckCooldown, CheckQuota, SetCooldown, IncrQuota,
         ExpireQuota, codeVars, bounds
    <3>3. CASE r \in Verifiers /\ VerifyStep(r)
      BY <3>3, VerifierMoves DEF VerifyStep, CheckLock, GetCode, MarkExpired, DelExpired,
         IncrAttempts, ExpireAttempts, SetLock, MarkLocked, DelCode, ClearAttempts, MarkConsumed,
         MarkEmailVerified, codeVars
    <3> QED BY <2>2, <3>1, <3>2, <3>3
  <2> QED BY <1>2, <2>1, <2>2 DEF InHand
<1>3. \A v \in Verifiers : pc[v] \notin {"markExpired", "delExpired"}
  BY <1>2 DEF InHand
<1>4. /\ \A v \in Verifiers : v # r => pc'[v] = pc[v]
      /\ \A p \in Issuers : p # r => pc'[p] = pc[p]
  BY <1>0 DEF Alone
<1> DEFINE Clean == pc'[r] \notin {"markExpired", "delExpired"}
           StillHeld == \/ verified'
                        \/ \E v \in Verifiers : pc'[v] \in {"clear", "consume", "verify"}
                        \/ pc'[Signup] \in {"supersede", "create", "store"}
                        \/ otp' \in told'
                        \/ \E p \in Issuers : pc'[p] = "log" /\ code'[p] = otp'
<1>5. SUFFICES Clean /\ StillHeld
  BY <1>3, <1>4 DEF InHand
<1>6. \/ verified
      \/ \E v \in Verifiers : pc[v] \in {"clear", "consume", "verify"}
      \/ pc[Signup] \in {"supersede", "create", "store"}
      \/ otp \in told
      \/ \E p \in Issuers : pc[p] = "log" /\ code[p] = otp
  BY <1>2 DEF InHand
<1> HIDE DEF Clean, StillHeld
\* A step that leaves the code alone and is none of those the stored code waits for.
<1>7. ASSUME UNCHANGED <<otp, told>>, verified => verified',
             pc[r] \in {"clear", "consume", "verify"} =>
                 verified' \/ pc'[r] \in {"clear", "consume", "verify"},
             pc[r] \in {"supersede", "create", "store"} => pc'[r] \in {"create", "store"},
             pc[r] # "log",
             \A p \in Issuers \ {r} : code'[p] = code[p]
      PROVE  StillHeld
  <2>1. CASE verified BY <1>7, <2>1 DEF StillHeld
  <2>2. ASSUME NEW v \in Verifiers, pc[v] \in {"clear", "consume", "verify"} PROVE StillHeld
    <3>1. CASE v = r BY <1>7, <2>2, <3>1 DEF StillHeld
    <3>2. CASE v # r BY <1>4, <2>2, <3>2 DEF StillHeld
    <3> QED BY <3>1, <3>2
  <2>3. CASE pc[Signup] \in {"supersede", "create", "store"}
    <3>1. CASE Signup = r BY <1>7, <2>3, <3>1 DEF StillHeld
    <3>2. CASE Signup # r BY <1>0, <1>4, <2>3, <3>2 DEF StillHeld
    <3> QED BY <3>1, <3>2
  <2>4. CASE otp \in told BY <1>7, <2>4 DEF StillHeld
  <2>5. ASSUME NEW p \in Issuers, pc[p] = "log", code[p] = otp PROVE StillHeld
    BY <1>4, <1>7, <2>5 DEF StillHeld
  <2> QED BY <1>6, <2>1, <2>2, <2>3, <2>4, <2>5
<1>8. CASE r \in Issuers /\ IssueStep(r)
  <2>1. CASE Supersede(r)
    <3>1. pc[r] = "supersede" /\ pc'[r] = "create" /\ UNCHANGED <<otp, told, verified, code>>
      BY <1>0, <2>1 DEF Supersede, Goto
    <3> QED BY <1>7, <3>1 DEF Clean
  <2>2. CASE CreateAudit(r)
    <3>1. /\ pc[r] = "create" /\ pc'[r] = "store" /\ UNCHANGED <<otp, told, verified>>
          /\ \A p \in Issuers \ {r} : code'[p] = code[p]
      BY <1>0, <2>2 DEF CreateAudit
    <3> QED BY <1>7, <3>1 DEF Clean
  <2>3. CASE StoreCode(r)
    <3>1. pc'[r] = "log" /\ code'[r] = code[r] /\ otp' = code[r]
      BY <1>0, <2>3 DEF StoreCode, Goto
    <3> QED BY <1>8, <3>1 DEF Clean, StillHeld
  <2>4. CASE LogCode(r)
    <3>1. /\ pc[r] = "log" /\ pc'[r] \in {"mail", "cool"} /\ told' = told \cup {code[r]}
          /\ UNCHANGED <<otp, verified, code>>
      BY <1>0, <2>4 DEF LogCode, Goto, Development
    <3>2. Clean BY <3>1 DEF Clean
    <3>3. StillHeld
      <4>1. CASE verified \/ otp \in told \/ otp = code[r] BY <3>1, <4>1 DEF StillHeld
      <4>2. ASSUME NEW v \in Verifiers, pc[v] \in {"clear", "consume", "verify"} PROVE StillHeld
        BY <1>4, <3>1, <4>2 DEF StillHeld
      <4>3. CASE pc[Signup] \in {"supersede", "create", "store"}
        BY <1>0, <1>4, <3>1, <4>3 DEF StillHeld
      <4>4. ASSUME NEW p \in Issuers, pc[p] = "log", code[p] = otp, otp # code[r] PROVE StillHeld
        BY <1>4, <3>1, <4>4 DEF StillHeld
      <4> QED BY <1>6, <4>1, <4>2, <4>3, <4>4
    <3> QED BY <3>2, <3>3
  <2>5. CASE Mail(r)
    <3>1. /\ pc[r] = "mail" /\ pc'[r] = "idle" /\ UNCHANGED <<otp, told, verified>>
          /\ \A p \in Issuers \ {r} : code'[p] = code[p]
      BY <1>0, <2>5 DEF Mail, Done, Development
    <3> QED BY <1>7, <3>1 DEF Clean
  <2> QED BY <1>8, <2>1, <2>2, <2>3, <2>4, <2>5 DEF IssueStep
<1>9. CASE r \in Resends /\ ResendStep(r)
  <2>1. /\ pc[r] \in {"idle", "cooldown", "check", "cool", "incr", "expire"}
        /\ UNCHANGED <<otp, told, verified>>
        /\ \A p \in Issuers \ {r} : code'[p] = code[p]
        /\ pc'[r] \in {"idle", "cooldown", "check", "supersede", "incr", "expire", "mail"}
    BY <1>0, <1>9 DEF ResendStep, StartResend, CheckCooldown, CheckQuota, SetCooldown, IncrQuota,
       ExpireQuota, Goto, Done, Admitted, Counted, codeVars
  <2> QED BY <1>7, <2>1 DEF Clean
<1>10. CASE r \in Verifiers /\ VerifyStep(r)
  <2>1. ASSUME NEW g, CheckLock(r, g) PROVE Clean /\ StillHeld
    <3>1. pc[r] = "idle" /\ pc'[r] = "get" /\ UNCHANGED <<otp, told, verified, code>>
      BY <1>0, <2>1 DEF CheckLock, codeVars
    <3> QED BY <1>7, <3>1 DEF Clean
  <2>2. CASE GetCode(r)
    <3>1. /\ pc[r] = "get" /\ UNCHANGED <<otp, told, verified>>
          /\ \A p \in Issuers \ {r} : code'[p] = code[p]
      <4>1. CASE otp = NoCode BY <1>0, <2>2, <4>1 DEF GetCode, Done, codeVars
      <4>2. CASE otp # NoCode BY <1>0, <2>2, <4>2 DEF GetCode, codeVars
      <4> QED BY <4>1, <4>2
    <3>2. pc'[r] \in {"idle", "del", "miss"}
      <4>1. CASE otp = NoCode BY <1>0, <2>2, <4>1 DEF GetCode, Done
      <4>2. CASE otp # NoCode
        <5>1. pc' = [pc EXCEPT ![r] = IF guess[r] = otp THEN "del" ELSE "miss"]
          BY <1>2, <2>2, <4>2 DEF GetCode
        <5> QED BY <1>0, <5>1
      <4> QED BY <4>1, <4>2
    <3> QED BY <1>7, <3>1, <3>2 DEF Clean
  <2>3. CASE IncrAttempts(r) \/ ExpireAttempts(r) \/ SetLock(r) \/ MarkLocked(r)
    <3>1. /\ pc[r] \in {"miss", "missExpire", "lock", "markLocked"}
          /\ pc'[r] \in {"missExpire", "lock", "markLocked", "idle"}
          /\ UNCHANGED <<otp, told, verified>>
          /\ \A p \in Issuers \ {r} : code'[p] = code[p]
      BY <1>0, <2>3 DEF IncrAttempts, ExpireAttempts, SetLock, MarkLocked, AfterCount, Goto, Done,
         codeVars
    <3> QED BY <1>7, <3>1 DEF Clean
  <2>4. CASE DelCode(r)
    <3>1. pc'[r] = "clear" BY <1>0, <2>4 DEF DelCode, Goto
    <3> QED BY <1>10, <3>1 DEF Clean, StillHeld
  <2>5. CASE ClearAttempts(r) \/ MarkConsumed(r)
    <3>1. pc'[r] \in {"consume", "verify"} BY <1>0, <2>5 DEF ClearAttempts, MarkConsumed, Goto
    <3> QED BY <1>10, <3>1 DEF Clean, StillHeld
  <2>6. CASE MarkEmailVerified(r)
    <3>1. pc'[r] = "idle" /\ verified' BY <1>0, <2>6 DEF MarkEmailVerified, Done
    <3> QED BY <3>1 DEF Clean, StillHeld
  <2>7. ~ MarkExpired(r) /\ ~ DelExpired(r) BY <1>3, <1>10 DEF MarkExpired, DelExpired
  <2> QED BY <1>10, <2>1, <2>2, <2>3, <2>4, <2>5, <2>6, <2>7 DEF VerifyStep
<1> QED BY <1>2, <1>8, <1>9, <1>10

LEMMA SignupFirstSteps ==
    ASSUME TypeOK, SignupFirst, NEW r \in Requests,
           \/ r \in Issuers /\ IssueStep(r)
           \/ r \in Resends /\ ResendStep(r)
           \/ r \in Verifiers /\ VerifyStep(r)
           \/ Fail(r)
    PROVE  SignupFirst'
<1>0. Alone(r) /\ Signup \in Requests BY Members, MovesAlone
<1>1. pc[r] # "idle" \/ SignedUp
  <2>1. CASE r \in Issuers /\ IssueStep(r)
    BY <2>1 DEF IssueStep, Supersede, CreateAudit, StoreCode, LogCode, Mail
  <2>2. CASE r \in Resends /\ ResendStep(r)
    BY <2>2 DEF ResendStep, StartResend, CheckCooldown, CheckQuota, SetCooldown, IncrQuota,
       ExpireQuota
  <2>3. CASE r \in Verifiers /\ VerifyStep(r)
    BY <2>3 DEF VerifyStep, CheckLock, GetCode, MarkExpired, DelExpired, IncrAttempts,
       ExpireAttempts, SetLock, MarkLocked, DelCode, ClearAttempts, MarkConsumed, MarkEmailVerified
  <2>4. CASE Fail(r) BY <2>4 DEF Fail
  <2> QED BY <2>1, <2>2, <2>3, <2>4
<1>2. CASE r = Signup
  <2>1. Signup \notin Resends \cup Verifiers BY VerificationAssumption
  <2>2. pc[r] # "idle"
    <3>1. CASE IssueStep(r)
      BY <3>1 DEF IssueStep, Supersede, CreateAudit, StoreCode, LogCode, Mail
    <3>2. CASE Fail(r) BY <3>2 DEF Fail
    <3> QED BY <1>2, <2>1, <3>1, <3>2
  <2>3. \A p \in Requests \ {Signup} : pc'[p] = "idle"
    BY <1>0, <1>2, <2>2 DEF SignupFirst, Alone
  <2> QED BY <2>3 DEF SignupFirst
<1>3. CASE r # Signup
  <2>1. pc'[Signup] = pc[Signup] BY <1>0, <1>3 DEF Alone
  <2>2. pc[Signup] = "idle" BY <1>1, <1>3 DEF SignupFirst, SignedUp
  <2> QED BY <2>1, <2>2 DEF SignupFirst
<1> QED BY <1>2, <1>3

\* How the two counts move, for a step of one request.
LEMMA PendingCounts ==
    ASSUME TypeOK, TypeOK', NEW r \in Requests, Alone(r)
    PROVE  /\ NPending \in Nat /\ NCreating \in Nat /\ NPending' \in Nat /\ NCreating' \in Nat
           /\ Cardinality(Resends) \in Nat
           /\ NCreating' = NCreating +
                 (IF r \in Issuers /\ pc'[r] = "create" /\ pc[r] # "create" THEN 1
                  ELSE IF r \in Issuers /\ pc[r] = "create" /\ pc'[r] # "create" THEN -1 ELSE 0)
           /\ \A k \in Issues : (\A i \in Issues \ {k} : audit'[i] = audit[i]) =>
                 /\ NPending' <= NPending + 1
                 /\ audit'[k] # "pending" \/ audit[k] = "pending" => NPending' <= NPending
           /\ audit' = audit => NPending' = NPending
<1> DEFINE A == {p \in Issuers : pc[p] = "create"}
           B == {k \in Issues : audit[k] = "pending"}
<1>1. IsFiniteSet(Issuers) /\ IsFiniteSet(Issues) /\ IsFiniteSet(Resends)
  <2>1. IsFiniteSet(Resends) BY VerificationAssumption
  <2>2. IsFiniteSet(Issuers) BY <2>1, FS_AddElement DEF Issuers
  <2>3. MaxRequests + 1 \in Int /\ 1 \in Int BY VerificationAssumption
  <2>4. IsFiniteSet(Issues) BY <2>3, FS_Interval DEF Issues
  <2> QED BY <2>1, <2>2, <2>4
<1>2. \A p \in Issuers \ {r} : pc'[p] = pc[p] BY Members DEF Alone
<1>3. A \in SUBSET Issuers /\ A' \in SUBSET Issuers /\ A \ {r} = A' \ {r} BY <1>2
<1>4. B \in SUBSET Issues /\ B' \in SUBSET Issues OBVIOUS
<1>5. \A k \in Issues : (\A i \in Issues \ {k} : audit'[i] = audit[i]) => B \ {k} = B' \ {k}
  OBVIOUS
<1>6. \A k \in Issues : (k \in B <=> audit[k] = "pending") /\ (k \in B' <=> audit'[k] = "pending")
  OBVIOUS
<1>7. /\ r \in A <=> r \in Issuers /\ pc[r] = "create"
      /\ r \in A' <=> r \in Issuers /\ pc'[r] = "create"
  OBVIOUS
<1>8. /\ NCreating = Cardinality(A) /\ NCreating' = Cardinality(A')
      /\ NPending = Cardinality(B) /\ NPending' = Cardinality(B')
      /\ audit' = audit => B' = B
  BY DEF NCreating, NPending
<1> HIDE DEF A, B
<1>9. /\ Cardinality(A) \in Nat /\ Cardinality(A') \in Nat
      /\ Cardinality(A') = Cardinality(A)
            + (IF r \in A' /\ r \notin A THEN 1 ELSE IF r \in A /\ r \notin A' THEN -1 ELSE 0)
  BY <1>1, <1>3, OneMoves
<1>10. Cardinality(B) \in Nat /\ Cardinality(B') \in Nat /\ Cardinality(Resends) \in Nat
  BY <1>1, <1>4, FS_Subset, FS_CardinalityType
<1>11. ASSUME NEW k \in Issues, \A i \in Issues \ {k} : audit'[i] = audit[i]
       PROVE  /\ NPending' <= NPending + 1
              /\ audit'[k] # "pending" \/ audit[k] = "pending" => NPending' <= NPending
  <2>1. B \ {k} = B' \ {k} BY <1>5, <1>11
  <2>2. Cardinality(B') = Cardinality(B)
           + (IF k \in B' /\ k \notin B THEN 1 ELSE IF k \in B /\ k \notin B' THEN -1 ELSE 0)
    BY <1>1, <1>4, <2>1, OneMoves
  <2> QED BY <1>6, <1>8, <1>10, <2>2
<1>12. NCreating' = NCreating +
                 (IF r \in Issuers /\ pc'[r] = "create" /\ pc[r] # "create" THEN 1
                  ELSE IF r \in Issuers /\ pc[r] = "create" /\ pc'[r] # "create" THEN -1 ELSE 0)
  BY <1>7, <1>8, <1>9
<1> QED BY <1>8, <1>9, <1>10, <1>11, <1>12

\* Only as many as there are resends are about to create a record.
LEMMA FewCreate ==
    ASSUME TypeOK', SignupFirst', Resends # {}
    PROVE  NCreating' <= Cardinality(Resends)
<1>1. IsFiniteSet(Resends) /\ Cardinality(Resends) \in Nat
  BY VerificationAssumption, FS_CardinalityType
<1>2. Cardinality(Resends) >= 1
  <2>1. Cardinality(Resends) # 0 BY <1>1, FS_EmptySet
  <2> QED BY <1>1, <2>1
<1>3. CASE pc'[Signup] = "create"
  <2>1. {p \in Issuers : pc'[p] = "create"} = {Signup} BY <1>3, Members DEF SignupFirst
  <2>2. NCreating' = 1 BY <2>1, FS_Singleton DEF NCreating
  <2> QED BY <1>1, <1>2, <2>2
<1>4. CASE pc'[Signup] # "create"
  <2>1. {p \in Issuers : pc'[p] = "create"} \in SUBSET Resends BY <1>4, Members
  <2> QED BY <1>1, <2>1, FS_Subset DEF NCreating
<1> QED BY <1>3, <1>4

LEMMA PendingSteps ==
    ASSUME TypeOK, TypeOK', SignupFirst', Pendings, NEW r \in Requests,
           \/ r \in Issuers /\ IssueStep(r)
           \/ r \in Resends /\ ResendStep(r)
           \/ r \in Verifiers /\ VerifyStep(r)
           \/ Fail(r)
    PROVE  Pendings'
<1>0. /\ Alone(r) /\ r \in DOMAIN pc /\ code[r] \in Issues \cup {NoCode}
      /\ audit \in [Issues -> Outcomes] /\ NoCode \notin Issues
  BY Members, MovesAlone DEF TypeOK, Outcomes
<1>1. SUFFICES ASSUME Resends # {} PROVE NPending' + NCreating' <= Cardinality(Resends)
  BY DEF Pendings
<1>2. /\ NPending + NCreating <= Cardinality(Resends)
      /\ NPending \in Nat /\ NCreating \in Nat /\ NPending' \in Nat /\ NCreating' \in Nat
      /\ Cardinality(Resends) \in Nat
  BY <1>0, <1>1, PendingCounts DEF Pendings
\* No record becomes pending and nobody new is about to create one.
<1>3. ASSUME pc'[r] # "create" \/ r \notin Issuers, NPending' <= NPending
      PROVE  NPending' + NCreating' <= Cardinality(Resends)
  <2>1. NCreating' <= NCreating BY <1>0, <1>2, <1>3, PendingCounts
  <2> QED BY <1>2, <1>3, <2>1
<1>4. ASSUME audit' = audit PROVE NPending' <= NPending BY <1>0, <1>2, <1>4, PendingCounts
<1>5. ASSUME NEW outcome, outcome # "pending", Outcome(code[r], outcome)
      PROVE  NPending' <= NPending
  <2>1. CASE code[r] = NoCode
    <3>1. audit' = audit BY <1>0, <1>5, <2>1 DEF Outcome
    <3> QED BY <1>4, <3>1
  <2>2. CASE code[r] \in Issues
    <3>1. /\ \A i \in Issues \ {code[r]} : audit'[i] = audit[i]
          /\ audit'[code[r]] # "pending"
      BY <1>0, <1>5, <2>2 DEF Outcome
    <3> QED BY <1>0, <2>2, <3>1, PendingCounts
  <2> QED BY <1>0, <2>1, <2>2
<1>6. CASE r \in Issuers /\ IssueStep(r)
  <2>1. CASE Supersede(r)
    <3>1. {k \in Issues : audit'[k] = "pending"} = {} BY <2>1 DEF Supersede
    <3>2. NPending' = 0 BY <3>1, FS_EmptySet DEF NPending
    <3>3. NCreating' <= Cardinality(Resends) BY <1>1, FewCreate
    <3> QED BY <1>2, <3>2, <3>3
  <2>2. CASE CreateAudit(r)
    <3>1. pc[r] = "create" /\ pc'[r] = "store" BY <1>0, <2>2 DEF CreateAudit
    <3>2. PICK k \in Issues : \A i \in Issues \ {k} : audit'[i] = audit[i]
      BY <1>0, <2>2 DEF CreateAudit, Outcome
    <3>3. NPending' <= NPending + 1 BY <1>0, <3>2, PendingCounts
    <3>4. NCreating' = NCreating - 1 BY <1>0, <1>2, <1>6, <3>1, PendingCounts
    <3> QED BY <1>2, <3>3, <3>4
  <2>3. CASE StoreCode(r) \/ LogCode(r) \/ Mail(r)
    <3>1. audit' = audit BY <2>3 DEF StoreCode, LogCode, Mail
    <3>2. pc'[r] # "create" BY <1>0, <2>3 DEF StoreCode, LogCode, Mail, Goto, Done
    <3> QED BY <1>3, <1>4, <3>1, <3>2
  <2> QED BY <1>6, <2>1, <2>2, <2>3 DEF IssueStep
<1>7. CASE r \in Resends /\ ResendStep(r)
  <2>1. audit' = audit
    BY <1>7 DEF ResendStep, StartResend, CheckCooldown, CheckQuota, SetCooldown, IncrQuota,
       ExpireQuota, codeVars
  <2>2. pc'[r] # "create"
    BY <1>0, <1>7 DEF ResendStep, StartResend, CheckCooldown, CheckQuota, SetCooldown, IncrQuota,
       ExpireQuota, Goto, Done, Admitted, Counted
  <2> QED BY <1>3, <1>4, <2>1, <2>2
<1>8. CASE r \in Verifiers /\ VerifyStep(r)
  <2>1. pc'[r] # "create" BY <1>8, VerifierMoves DEF VerifyPC
  <2>2. NPending' <= NPending
    <3>1. CASE MarkExpired(r) BY <1>5, <3>1 DEF MarkExpired
    <3>2. CASE MarkLocked(r) BY <1>5, <3>2 DEF MarkLocked
    <3>3. CASE MarkConsumed(r) BY <1>5, <3>3 DEF MarkConsumed
    <3>4. CASE ~ MarkExpired(r) /\ ~ MarkLocked(r) /\ ~ MarkConsumed(r)
      <4>1. audit' = audit
        BY <1>8, <3>4 DEF VerifyStep, CheckLock, GetCode, DelExpired, IncrAttempts, ExpireAttempts,
           SetLock, DelCode, ClearAttempts, MarkEmailVerified, codeVars
      <4> QED BY <1>4, <4>1
    <3> QED BY <3>1, <3>2, <3>3, <3>4
  <2> QED BY <1>3, <2>1, <2>2
<1>9. CASE Fail(r)
  <2>1. audit' = audit /\ pc'[r] = "idle" BY <1>0, <1>9 DEF Fail, Done, codeVars
  <2> QED BY <1>3, <1>4, <2>1
<1> QED BY <1>6, <1>7, <1>8, <1>9

LEMMA CodesInvAlways ==
    ASSUME Development
    PROVE  Spec => [](InHand /\ SignupFirst /\ Pendings)
<1>1. Init => InHand /\ SignupFirst /\ Pendings
  <2> SUFFICES ASSUME Init PROVE InHand /\ SignupFirst /\ Pendings
    OBVIOUS
  <2>1. /\ \A r \in Requests \ {Signup} : pc[r] = "idle"
        /\ pc[Signup] = "supersede"
    BY Members DEF Init
  <2>2. InHand BY <2>1, Members DEF InHand
  <2>3. {k \in Issues : audit[k] = "pending"} = {} /\ {r \in Issuers : pc[r] = "create"} = {}
    BY <2>1, Members DEF Init
  <2>4. NPending = 0 /\ NCreating = 0 BY <2>3, FS_EmptySet DEF NPending, NCreating
  <2>5. Cardinality(Resends) \in Nat BY VerificationAssumption, FS_CardinalityType
  <2>6. Pendings BY <2>4, <2>5 DEF Pendings
  <2> QED BY <2>1, <2>2, <2>6 DEF SignupFirst
<1>2. /\ TypeOK /\ TypeOK'
      /\ InHand /\ SignupFirst /\ Pendings
      /\ [Next]_vars
      => (InHand /\ SignupFirst /\ Pendings)'
  <2> SUFFICES ASSUME TypeOK, TypeOK', InHand, SignupFirst, Pendings, [Next]_vars
               PROVE  InHand' /\ SignupFirst' /\ Pendings'
    OBVIOUS
  <2>1. ASSUME NEW r \in Requests,
               \/ r \in Issuers /\ IssueStep(r)
               \/ r \in Resends /\ ResendStep(r)
               \/ r \in Verifiers /\ VerifyStep(r)
               \/ Fail(r)
        PROVE  InHand' /\ SignupFirst' /\ Pendings'
    <3>1. InHand' BY <2>1, InHandSteps
    <3>2. SignupFirst' BY <2>1, SignupFirstSteps
    <3> QED BY <2>1, <3>1, <3>2, PendingSteps
  <2>2. CASE TimeStep
    <3>1. UNCHANGED <<pc, code, audit, verified, told, fails>>
      BY <2>2 DEF TimeStep, CodeExpires, CodeEnds, CooldownEnds, QuotaEnds, AttemptsEnd, LockoutEnds,
         local, bounds, codeVars
    <3>2. CASE UNCHANGED <<otp, stale>>
      BY <3>1, <3>2 DEF InHand, SignupFirst, Pendings, NPending, NCreating
    <3>3. ASSUME NEW v \in Verifiers, CodeExpires(v) \/ CodeEnds(v)
          PROVE  InHand' /\ SignupFirst' /\ Pendings'
      <4>1. stale' # {} BY <3>3 DEF CodeExpires, CodeEnds
      <4> QED BY <3>1, <4>1 DEF InHand, SignupFirst, Pendings, NPending, NCreating
    <3>4. UNCHANGED <<otp, stale>> \/ \E v \in Verifiers : CodeExpires(v) \/ CodeEnds(v)
      BY <2>2 DEF TimeStep, CooldownEnds, QuotaEnds, AttemptsEnd, LockoutEnds, codeVars
    <3> QED BY <3>2, <3>3, <3>4
  <2>3. CASE UNCHANGED vars
    BY <2>3 DEF vars, codeVars, local, bounds, InHand, SignupFirst, Pendings, NPending, NCreating
  <2> QED BY <2>1, <2>2, <2>3, Members DEF Next
<1> QED BY <1>1, <1>2, TypeCorrect, PTL DEF Spec

\* No interleaving of resends, guesses and lockouts takes an unverified user's last good
\* code away, and no more records pend than there are resends at once.  In production the
\* first half fails: issueCode throws when it logs a resent code.
THEOREM CodesStayTraceable ==
    ASSUME Development
    PROVE  Spec => []CodesAreTraceable
<1>1. TypeOK /\ InHand => CodeInHand
  <2> SUFFICES ASSUME TypeOK, InHand, AtRest, fails = 0, stale = {}, ~ verified
               PROVE  otp \in told
    BY DEF CodeInHand
  <2>1. \A r \in Issuers \cup Verifiers : pc[r] = "idle" BY Members DEF AtRest
  <2> QED BY <2>1, Members DEF InHand
<1>2. TypeOK /\ Pendings => PendingPerIssuer
  <2> SUFFICES ASSUME TypeOK, Pendings, Resends # {}
               PROVE  NPending <= Cardinality(Resends)
    BY DEF PendingPerIssuer, NPending
  <2> DEFINE A == {r \in Issuers : pc[r] = "create"}
             B == {k \in Issues : audit[k] = "pending"}
  <2>1. IsFiniteSet(Issuers) /\ IsFiniteSet(Issues) /\ Cardinality(Resends) \in Nat
    <3>1. IsFiniteSet(Resends) BY VerificationAssumption
    <3>2. IsFiniteSet(Issuers) BY <3>1, FS_AddElement DEF Issuers
    <3>3. MaxRequests + 1 \in Int /\ 1 \in Int BY VerificationAssumption
    <3> QED BY <3>1, <3>2, <3>3, FS_Interval, FS_CardinalityType DEF Issues
  <2>2. A \in SUBSET Issuers /\ B \in SUBSET Issues OBVIOUS
  <2>3. Cardinality(A) \in Nat /\ Cardinality(B) \in Nat
    BY <2>1, <2>2, FS_Subset, FS_CardinalityType
  <2>4. NCreating = Cardinality(A) /\ NPending = Cardinality(B) BY DEF NCreating, NPending
  <2> HIDE DEF A, B
  <2> QED BY <2>1, <2>3, <2>4 DEF Pendings
<1> QED BY <1>1, <1>2, TypeCorrect, CodesInvAlways, PTL DEF CodesAreTraceable
=============================================================================
