------------------------------ MODULE Accounts ------------------------------
(* Accounts from sign-up to deletion: registration by password and Google,   *)
(* access tokens, which outlive the account, onboarding with its minimum of  *)
(* followed coins, the copy of those on the account, and deleteAccount, which *)
(* takes the user's data apart step by step.                                 *)
EXTENDS Budget, Integers, FiniteSets

CONSTANTS People,      \* e-mail addresses; an address has one account at a time
          Handles,     \* usernames people ask for
          Followables, \* coins to follow
          MinCoins,    \* MIN_COINS of the onboarding
          Sessions,    \* requests under way at a time
          NoAccount

AccountDocs == [id : Nat, handle : Handles, verified : BOOLEAN, onboarded : BOOLEAN,
                mirror : SUBSET Followables]

ASSUME AccountAssumption ==
  MinCoins \in Nat \ {0} /\ IsFiniteSet(Followables) /\ NoAccount \notin AccountDocs

VARIABLES accounts,   \* person -> account: [id, handle, verified, onboarded, mirror]
          lastUser,   \* ids given out
          tokens,     \* access tokens issued: [person, id, verified]
          followed,   \* Follow documents <<id, coin>>
          live,       \* comments <<id, number>> that are shown
          tombs,      \* comments '[deleted]' because of their replies
          tally,      \* metrics.comments of the article, which counts the live
          wallets,    \* user ids with a wallet
          watched,    \* user ids whose address the providers report on
          session,    \* request -> its progress
          late,       \* Ghost: users who wrote while, or after, being deleted
          unheard,    \* Ghost: users whose deregistration failed
          unbalanced, \* Ghost: a deletion counted comments twice
          enough,     \* Ghost: users who followed MinCoins coins at a time
          hasty,      \* Ghost: users whose follows went while onboarding
          unmirrored  \* Ghost: users whose follows changed without a copy

accountVars == <<accounts, lastUser, tokens, followed, live, tombs, tally, wallets, watched,
                 session, late, unheard, unbalanced, enough, hasty, unmirrored>>

Ended == [pc |-> "over", kind |-> "none", person |-> NoAccount, id |-> 0, handle |-> NoAccount,
         verified |-> FALSE, coins |-> {}]
Follows(id) == {c \in Followables : <<id, c>> \in followed}
By(id, comments) == {c \in comments : c[1] = id}
Alive(id) == \E p \in People : accounts[p] # NoAccount /\ accounts[p].id = id
Account(p, id) == accounts[p] # NoAccount /\ accounts[p].id = id
GoOn(r, pc) == session' = [session EXCEPT ![r].pc = pc]
End(r) == session' = [session EXCEPT ![r] = Ended]
Deleting(id) == \E r \in Sessions : session[r].kind = "delete" /\ session[r].id = id
Onboarding(id) == \E r \in Sessions : session[r].kind = "complete" /\ session[r].id = id
Sessioned(id, kinds, r) == \E q \in Sessions \ {r} : session[q].kind \in kinds /\ session[q].id = id

\* What a request of a user whose account is going, or gone, writes stays.
Notes(id) == late' = IF Alive(id) /\ ~Deleting(id) THEN late ELSE late \cup {id}
-----------------------------------------------------------------------------
(* signup, login and googleSignIn *)

Enter(r, kind, p, h, v) ==
  /\ session[r] = Ended /\ Spend(1)
  /\ session' = [session EXCEPT ![r] = [Ended EXCEPT !.pc = "email", !.kind = kind, !.person = p,
                                          !.handle = h, !.verified = v]]
  /\ UNCHANGED <<accounts, lastUser, tokens, followed, live, tombs, tally, wallets, watched, late,
                 unheard, unbalanced, enough, hasty, unmirrored>>

\* findByEmail: an account is an error to sign-up, the way on for the others.
FindEmail(r) ==
  LET k == session[r]
      a == accounts[k.person]
  IN  /\ k.pc = "email"
      /\ CASE a = NoAccount /\ k.kind = "login" -> End(r)
           [] a = NoAccount /\ k.kind # "login" -> GoOn(r, "handle")
           [] a # NoAccount /\ k.kind = "signup" -> End(r)
           [] OTHER -> session' = [session EXCEPT ![r] = [k EXCEPT !.id = a.id, !.pc =
                         IF k.kind = "google" /\ k.verified /\ ~a.verified THEN "verify" ELSE "onboarded"]]
      /\ UNCHANGED <<stimuli, accounts, lastUser, tokens, followed, live, tombs, tally, wallets,
                     watched, late, unheard, unbalanced, enough, hasty, unmirrored>>

\* findByUsername: sign-up gives up, Google tries other names, five at most.
FindHandle(r) ==
  LET k == session[r]
      taken == {accounts[p].handle : p \in {q \in People : accounts[q] # NoAccount}}
  IN  /\ k.pc = "handle"
      /\ \/ k.handle \notin taken /\ GoOn(r, "create")
         \/ k.handle \in taken /\ k.kind = "signup" /\ End(r)
         \/ /\ k.handle \in taken /\ k.kind = "google"
            /\ \E h \in Handles : session' = [session EXCEPT ![r] = [k EXCEPT !.pc = "create", !.handle = h]]
      /\ UNCHANGED <<stimuli, accounts, lastUser, tokens, followed, live, tombs, tally, wallets,
                     watched, late, unheard, unbalanced, enough, hasty, unmirrored>>

\* Both indexes are unique; a violation ends the request.
CreateUser(r) ==
  LET k == session[r]
      free == accounts[k.person] = NoAccount
              /\ \A p \in People : accounts[p] # NoAccount => accounts[p].handle # k.handle
  IN  /\ k.pc = "create"
      /\ IF free
         THEN /\ lastUser' = lastUser + 1
              /\ accounts' = [accounts EXCEPT ![k.person] = [id |-> lastUser + 1, handle |-> k.handle,
                   verified |-> k.kind = "google" /\ k.verified, onboarded |-> FALSE, mirror |-> {}]]
              /\ session' = [session EXCEPT ![r] = [k EXCEPT !.pc = "onboarded", !.id = lastUser + 1]]
         ELSE End(r) /\ UNCHANGED <<accounts, lastUser>>
      /\ UNCHANGED <<stimuli, tokens, followed, live, tombs, tally, wallets, watched, late, unheard,
                     unbalanced, enough, hasty, unmirrored>>

\* markEmailVerified, from Google or from a code (EmailVerification).
MarkVerified(r) ==
  LET k == session[r]
  IN  /\ k.pc = "verify" /\ GoOn(r, "onboarded")
      /\ accounts' = IF Account(k.person, k.id) THEN [accounts EXCEPT ![k.person].verified = TRUE] ELSE accounts
      /\ UNCHANGED <<stimuli, lastUser, tokens, followed, live, tombs, tally, wallets, watched, late,
                     unheard, unbalanced, enough, hasty, unmirrored>>

\* ensureCoinOnboardingMigrated, then the token, of what was read.  A sign-up
\* whose code cannot be issued fails here, with the account made.
Onboarded(r) ==
  LET k == session[r]
  IN  /\ k.pc = "onboarded"
      /\ IF ~Account(k.person, k.id) THEN End(r) ELSE
           session' = [session EXCEPT ![r] = [k EXCEPT !.verified = accounts[k.person].verified,
             !.pc = IF accounts[k.person].onboarded \/ Cardinality(Follows(k.id)) < MinCoins
                    THEN "token" ELSE "migrate"]]
      /\ UNCHANGED <<stimuli, accounts, lastUser, tokens, followed, live, tombs, tally, wallets,
                     watched, late, unheard, unbalanced, enough, hasty, unmirrored>>

GiveToken(r) ==
  LET k == session[r]
  IN  /\ k.pc = "token" /\ End(r)
      /\ \/ /\ tokens' = tokens \cup {[person |-> k.person, id |-> k.id, verified |-> k.verified]}
            /\ UNCHANGED stimuli
         \/ k.kind = "signup" /\ Spend(1) /\ UNCHANGED tokens
      /\ UNCHANGED <<accounts, lastUser, followed, live, tombs, tally, wallets, watched, late, unheard,
                     unbalanced, enough, hasty, unmirrored>>

\* setCoinOnboardingCompleted, for a login or at the end of the onboarding.
SetOnboarded(r) ==
  LET k == session[r]
      is == Account(k.person, k.id)
  IN  /\ k.pc = "migrate"
      /\ accounts' = IF is THEN [accounts EXCEPT ![k.person].onboarded = TRUE] ELSE accounts
      /\ IF k.kind = "complete" \/ ~is THEN End(r) ELSE GoOn(r, "token")
      /\ UNCHANGED <<stimuli, lastUser, tokens, followed, live, tombs, tally, wallets, watched, late,
                     unheard, unbalanced, enough, hasty, unmirrored>>
-----------------------------------------------------------------------------
(* Following coins *)

\* Slip: as many coins as were asked for, whatever they resolve to.
EnoughAsked(coins) == TRUE

\* completeCoinOnboarding wants MIN_COINS distinct coins, once it follows them.
Enough(coins) == Cardinality(coins) >= MinCoins

\* completeCoinOnboarding, toggleFollowCoin, and the follow routes, which do
\* not copy; a toggle goes by what isFollowingCoin said.  An onboarding whose
\* names resolve to too few coins follows them, throws, and copies nothing.
AskFollow(r, t, kind, S) ==
  LET short == kind = "complete" /\ ~Enough(S)
  IN  /\ session[r] = Ended /\ t \in tokens /\ S # {} /\ Spend(1)
      /\ IF kind = "complete" THEN Account(t.person, t.id) /\ ~accounts[t.person].onboarded
                              ELSE Cardinality(S) = 1
      /\ session' = [session EXCEPT ![r] = [Ended EXCEPT !.kind = IF short THEN "follow" ELSE kind,
           !.person = t.person, !.id = t.id, !.coins = S,
           !.pc = IF kind = "complete" \/ S \cap Follows(t.id) = {} THEN "follow" ELSE "unfollow"]]
      /\ unmirrored' = unmirrored \cup {i \in {t.id} : short \/ kind = "follow"
                                         \/ Sessioned(t.id, {"complete", "toggle", "follow"}, r)}
      /\ UNCHANGED <<accounts, lastUser, tokens, followed, live, tombs, tally, wallets, watched, late,
                     unheard, unbalanced, enough, hasty>>

Next1(k, rest) == IF rest # {} THEN k.pc ELSE IF k.kind = "follow" THEN "over" ELSE "mirror"

ChangeFollow(r, c) ==
  LET k == session[r]
      rest == k.coins \ {c}
  IN  /\ k.pc \in {"follow", "unfollow"} /\ c \in k.coins /\ Notes(k.id)
      /\ followed' = IF k.pc = "follow" THEN followed \cup {<<k.id, c>>} ELSE followed \ {<<k.id, c>>}
      /\ session' = [session EXCEPT ![r] = IF Next1(k, rest) = "over" THEN Ended
                       ELSE [k EXCEPT !.coins = rest, !.pc = Next1(k, rest)]]
      /\ enough' = enough \cup {i \in {k.id} : Cardinality({d \in Followables : <<i, d>> \in followed'}) >= MinCoins}
      /\ hasty' = hasty \cup {i \in {k.id} : k.pc = "unfollow" /\ Onboarding(i)}
      /\ UNCHANGED <<stimuli, accounts, lastUser, tokens, live, tombs, tally, wallets, watched, unheard,
                     unbalanced, unmirrored>>

\* syncLegacyFollowingCoins; nothing of it is done when the request fails.
Mirror(r) ==
  LET k == session[r]
  IN  /\ k.pc = "mirror"
      /\ \/ /\ accounts' = IF Account(k.person, k.id)
                           THEN [accounts EXCEPT ![k.person].mirror = Follows(k.id)] ELSE accounts
            /\ (IF k.kind = "complete" THEN GoOn(r, "migrate") ELSE End(r)) /\ UNCHANGED <<stimuli, unmirrored>>
         \/ Spend(1) /\ End(r) /\ unmirrored' = unmirrored \cup {k.id} /\ UNCHANGED accounts
      /\ UNCHANGED <<lastUser, tokens, followed, live, tombs, tally, wallets, watched, late, unheard,
                     unbalanced, enough, hasty>>
-----------------------------------------------------------------------------
(* What else a token is used for (Social and Portfolio have the details) *)

Comment(t) ==
  /\ t \in tokens /\ Spend(1) /\ Notes(t.id)
  /\ live' = live \cup {<<t.id, stimuli'>>} /\ tally' = tally + 1
  /\ UNCHANGED <<accounts, lastUser, tokens, followed, tombs, wallets, watched, session, unheard, unbalanced,
                 enough, hasty, unmirrored>>

\* A comment with replies keeps its document when its author deletes it.
Bury(t) ==
  /\ t \in tokens /\ Spend(1) /\ Notes(t.id)
  /\ \E c \in By(t.id, live) : live' = live \ {c} /\ tombs' = tombs \cup {c}
  /\ tally' = tally - 1
  /\ UNCHANGED <<accounts, lastUser, tokens, followed, wallets, watched, session, unheard, unbalanced, enough,
                 hasty, unmirrored>>

LinkWallet(t) ==
  /\ t \in tokens /\ Spend(1) /\ Notes(t.id)
  /\ wallets' = wallets \cup {t.id} /\ watched' = watched \cup {t.id}
  /\ UNCHANGED <<accounts, lastUser, tokens, followed, live, tombs, tally, session, unheard, unbalanced,
                 enough, hasty, unmirrored>>
-----------------------------------------------------------------------------
(* deleteAccount *)

\* A deletion that meets comments another one has counted counts them again.
AskDelete(r, t) ==
  /\ session[r] = Ended /\ t \in tokens /\ Account(t.person, t.id) /\ Spend(1)
  /\ session' = [session EXCEPT ![r] = [Ended EXCEPT !.pc = "deregister", !.kind = "delete",
                                          !.person = t.person, !.id = t.id]]
  /\ unbalanced' = (unbalanced \/ Deleting(t.id))
  /\ late' = late \cup {i \in {t.id} : Sessioned(i, {"complete", "toggle", "follow"}, r)}
  /\ UNCHANGED <<accounts, lastUser, tokens, followed, live, tombs, tally, wallets, watched, unheard,
                 enough, hasty, unmirrored>>

\* deregisterWalletAddresses; a provider's error is logged.
Deregister(r) ==
  LET id == session[r].id
  IN  /\ session[r].pc = "deregister" /\ GoOn(r, "recount")
      /\ \/ watched' = (IF id \in wallets THEN watched \ {id} ELSE watched) /\ UNCHANGED <<stimuli, unheard>>
         \/ id \in wallets /\ Spend(1) /\ unheard' = unheard \cup {id} /\ UNCHANGED watched
      /\ UNCHANGED <<accounts, lastUser, tokens, followed, live, tombs, tally, wallets, late, unbalanced,
                     enough, hasty, unmirrored>>

\* reconcileUserComments takes every document off the article's count, those
\* deleted before, which were taken off then, among them.
Recount(r) ==
  LET id == session[r].id
  IN  /\ session[r].pc = "recount" /\ GoOn(r, "purge")
      /\ tally' = tally - Cardinality(By(id, live \cup tombs))
      /\ unbalanced' = (unbalanced \/ By(id, tombs) # {})
      /\ UNCHANGED <<stimuli, accounts, lastUser, tokens, followed, live, tombs, wallets, watched, late,
                     unheard, enough, hasty, unmirrored>>

\* purgeUserData, then the user's Redis keys and sockets.
Purge(r) ==
  LET id == session[r].id
  IN  /\ session[r].pc = "purge" /\ GoOn(r, "erase")
      /\ live' = live \ By(id, live) /\ tombs' = tombs \ By(id, tombs)
      /\ followed' = {f \in followed : f[1] # id} /\ wallets' = wallets \ {id}
      /\ unmirrored' = unmirrored \cup {id} /\ hasty' = hasty \cup {i \in {id} : Onboarding(i)}
      /\ UNCHANGED <<stimuli, accounts, lastUser, tokens, tally, watched, late, unheard, unbalanced,
                     enough>>

Erase(r) ==
  LET k == session[r]
  IN  /\ k.pc = "erase" /\ End(r)
      /\ accounts' = IF Account(k.person, k.id) THEN [accounts EXCEPT ![k.person] = NoAccount] ELSE accounts
      /\ UNCHANGED <<stimuli, lastUser, tokens, followed, live, tombs, tally, wallets, watched, late,
                     unheard, unbalanced, enough, hasty, unmirrored>>

\* A database error or the death of the process; a deletion can be asked again.
StopDelete(r) ==
  /\ session[r].kind = "delete" /\ Spend(1) /\ End(r)
  /\ unbalanced' = (unbalanced \/ (session[r].pc = "purge"))
  /\ UNCHANGED <<accounts, lastUser, tokens, followed, live, tombs, tally, wallets, watched, late,
                 unheard, enough, hasty, unmirrored>>
-----------------------------------------------------------------------------
\* Nobody has an account, or one person has, and a token.
AccountInit ==
  /\ \/ /\ accounts = [p \in People |-> NoAccount] /\ lastUser = 0 /\ tokens = {}
     \/ \E p \in People, h \in Handles :
          /\ accounts = [q \in People |-> IF q # p THEN NoAccount ELSE
                           [id |-> 1, handle |-> h, verified |-> FALSE, onboarded |-> FALSE, mirror |-> {}]]
          /\ lastUser = 1 /\ tokens = {[person |-> p, id |-> 1, verified |-> FALSE]}
  /\ followed = {}
  /\ live = {} /\ tombs = {} /\ tally = 0
  /\ wallets = {} /\ watched = {} /\ session = [r \in Sessions |-> Ended]
  /\ late = {} /\ unheard = {} /\ unbalanced = FALSE /\ enough = {} /\ hasty = {} /\ unmirrored = {}

AccountNext ==
  \/ \E r \in Sessions :
       \/ \E p \in People, h \in Handles : \/ Enter(r, "signup", p, h, FALSE)
                                         \/ \E v \in BOOLEAN : Enter(r, "google", p, h, v)
       \/ \E p \in People : Enter(r, "login", p, NoAccount, FALSE)
       \/ FindEmail(r) \/ FindHandle(r) \/ CreateUser(r) \/ MarkVerified(r) \/ Onboarded(r)
       \/ GiveToken(r) \/ SetOnboarded(r) \/ Mirror(r)
       \/ \E t \in tokens, S \in SUBSET Followables, kind \in {"complete", "toggle", "follow"} :
            AskFollow(r, t, kind, S)
       \/ \E c \in Followables : ChangeFollow(r, c)
       \/ \E t \in tokens : AskDelete(r, t)
       \/ Deregister(r) \/ Recount(r) \/ Purge(r) \/ Erase(r) \/ StopDelete(r)
  \/ \E t \in tokens : Comment(t) \/ Bury(t) \/ LinkWallet(t)
-----------------------------------------------------------------------------
\* Nothing is left of a deleted user - follows, comments, wallets, addresses
\* providers report on - unless a request of his, the token of which lives on,
\* wrote while he was being deleted or after, or a provider refused; and the
\* article counts the comments it shows, unless a deletion was stopped between
\* counting and purging, overlapped another, or met comments deleted before.
DeletionIsComplete ==
  /\ \A i \in 1..lastUser : (~Alive(i) /\ i \notin late) =>
       /\ Follows(i) = {} /\ By(i, live \cup tombs) = {} /\ i \notin wallets
       /\ i \in watched => i \in unheard
  /\ (~unbalanced /\ late = {} /\ \A r \in Sessions : session[r].pc # "purge") => tally = Cardinality(live)

\* An e-mail's token says verified only if its account is; an onboarded user
\* has followed MinCoins coins at a time, unless one was unfollowed or purged meanwhile;
\* and the account's copy of the followed coins is exact between requests,
\* unless two overlapped, one failed, or the follow routes, which leave the
\* copy alone, were used.
AccountsAddUp == \A p \in People : accounts[p] # NoAccount =>
  LET a == accounts[p]
  IN  /\ \A t \in tokens : t.id = a.id => t.person = p /\ (t.verified => a.verified)
      /\ a.onboarded => a.id \in enough \cup hasty
      /\ \A q \in People \ {p} : accounts[q] # NoAccount => accounts[q].handle # a.handle
      /\ (a.id \notin unmirrored /\ ~\E r \in Sessions : session[r].id = a.id) => a.mirror = Follows(a.id)

AccountTypeOK ==
  /\ \A p \in People : accounts[p] # NoAccount => accounts[p].id \in 1..lastUser
  /\ \A t \in tokens : t.id \in 1..lastUser /\ t.person \in People
  /\ \A r \in Sessions : session[r].id <= lastUser
  /\ \A c \in live \cup tombs : c[1] \in 1..lastUser /\ c[2] \in 1..stimuli
=============================================================================
