------------------------------ MODULE Switches ------------------------------
(* The two documents that switch the server's parts on and off: the runtime  *)
(* configuration (one document in MongoDB, cached in Redis and in every      *)
(* process's memory) and a feature flag (cached in Redis).  Both are patched *)
(* by read-modify-write while caches are filled and expire.                  *)
EXTENDS Budget, Integers, FiniteSets

CONSTANTS Procs,    \* server processes
          Callers,  \* what asks: <<process, "admin">> and <<process, "refresh">>
          Options,  \* switches of the runtime configuration, all on by default
          NoDoc,    \* nothing stored or cached
          Users,    \* users a feature is asked about
          Admins,   \* updates of a feature that may be under way at a time
          Flags     \* a feature flag's possible targeting, see Enabled

ConfigDocs == [version : Nat, on : SUBSET Options]
FlagDocs == [active : BOOLEAN, stamp : Nat, toggles : Nat, target : Flags]

ASSUME SwitchAssumption ==
  /\ Callers \subseteq Procs \X {"admin", "refresh"}
  /\ NoDoc \notin ConfigDocs \cup FlagDocs \cup [doc : FlagDocs, late : BOOLEAN]

VARIABLES config,   \* admin_config in MongoDB
          shared,   \* runtime:config:v1 in Redis
          memory,   \* process -> [doc, fresh]; doc is also its switchSnapshot
          call,     \* caller -> a getRuntimeConfig or patch under way
          chosen,   \* Ghost: switch -> what the last stored patch of it asked
          excused,  \* Ghost: why a patch may be undone or Redis be behind
          flag,     \* the feature's document: [active, stamp, target, toggles]
          cached,   \* feature:<key> in Redis; Ghost: late, it was not the newest
          dels,     \* deletions of it that have been sent
          toggler,  \* admin -> updateSafeFields under way
          reader,   \* a getByKey under way
          audits    \* FeatureAuditLog: toggles as [nth, old, new]

configVars == <<config, shared, memory, call, chosen, excused>>
flagVars == <<flag, cached, dels, toggler, reader, audits>>
switchVars == <<configVars, flagVars>>

Defaults == [version |-> 1, on |-> Options]
Idle == [pc |-> "idle", option |-> CHOOSE o \in Options : TRUE, to |-> TRUE,
         base |-> NoDoc]
-----------------------------------------------------------------------------
(* Runtime configuration *)

\* A getRuntimeConfig is over; a patch goes on to write.
Finish(c, doc) ==
  call' = [call EXCEPT ![c] = IF c[2] = "admin" THEN [@ EXCEPT !.pc = "write", !.base = doc]
                              ELSE Idle]

Remember(c, doc) == memory' = [memory EXCEPT ![c[1]] = [doc |-> doc, fresh |-> TRUE]]

\* A patch, or the refresh loop's turn: memory is used for ten seconds.
AskRefresh(c) ==
  /\ call[c] = Idle /\ c[2] = "refresh" /\ ~memory[c[1]].fresh
  /\ call' = [call EXCEPT ![c].pc = "redis"]
  /\ UNCHANGED <<stimuli, config, shared, memory, chosen, excused, flagVars>>

AskPatch(c, o, b) ==
  LET m == memory[c[1]]
  IN  /\ call[c] = Idle /\ c[2] = "admin" /\ Spend(1)
      /\ call' = [call EXCEPT ![c] = [pc |-> IF m.fresh THEN "write" ELSE "redis",
                    option |-> o, to |-> b, base |-> IF m.fresh THEN m.doc ELSE NoDoc]]
      /\ excused' = (\/ excused
                     \/ m.fresh /\ m.doc # config
                     \/ \E d \in Callers \ {c} : d[2] = "admin" /\ call[d] # Idle)
      /\ UNCHANGED <<config, shared, memory, chosen, flagVars>>

\* loadFromRedis; an error is a miss.
AskRedis(c) ==
  /\ call[c].pc = "redis"
  /\ \/ shared # NoDoc /\ Remember(c, shared) /\ Finish(c, shared) /\ UNCHANGED stimuli
     \/ /\ IF shared # NoDoc THEN Spend(1) ELSE UNCHANGED stimuli
        /\ call' = [call EXCEPT ![c].pc = "mongo"] /\ UNCHANGED memory
  /\ UNCHANGED <<config, shared, chosen, excused, flagVars>>

\* loadFromMongo; an error, like a missing document, means the defaults.
AskMongo(c) ==
  /\ call[c].pc = "mongo"
  /\ \/ /\ config # NoDoc /\ Remember(c, config) /\ UNCHANGED <<stimuli, excused>>
        /\ call' = [call EXCEPT ![c] = [@ EXCEPT !.pc = "fill", !.base = config]]
     \/ /\ Remember(c, Defaults) /\ Finish(c, Defaults)
        /\ IF config # NoDoc THEN Spend(1) ELSE UNCHANGED stimuli
        /\ excused' = (excused \/ (c[2] = "admin" /\ config # NoDoc))
  /\ UNCHANGED <<config, shared, chosen, flagVars>>

FillRedis(c) ==
  /\ call[c].pc = "fill" /\ Finish(c, call[c].base)
  /\ \/ shared' = call[c].base /\ UNCHANGED stimuli /\ excused' = (excused \/ call[c].base # config)
     \/ Spend(1) /\ UNCHANGED <<shared, excused>>
  /\ UNCHANGED <<config, memory, chosen, flagVars>>

\* Slip: the patch is laid over the defaults.
PatchedDefaults(doc, option, to) ==
  [version |-> doc.version + 1, on |-> IF to THEN Options ELSE Options \ {option}]

\* patchRuntimeConfig: the whole document is written over what is there.
Patched(doc, option, to) ==
  [version |-> doc.version + 1, on |-> IF to THEN doc.on \cup {option} ELSE doc.on \ {option}]

WriteConfig(c) ==
  LET k == call[c]
      next == Patched(k.base, k.option, k.to)
  IN  /\ k.pc = "write"
      /\ \/ /\ config' = next /\ chosen' = [chosen EXCEPT ![k.option] = k.to]
            /\ UNCHANGED stimuli
            /\ call' = [call EXCEPT ![c] = [@ EXCEPT !.pc = "publish", !.base = next]]
         \/ /\ Spend(1) /\ call' = [call EXCEPT ![c] = Idle]
            /\ UNCHANGED <<config, chosen>>
      /\ UNCHANGED <<shared, memory, excused, flagVars>>

\* Redis, then memory, which the controller at once declares out of date; when
\* Redis fails the request fails, with the patch stored.
PublishConfig(c) ==
  /\ call[c].pc = "publish" /\ call' = [call EXCEPT ![c] = Idle]
  /\ \/ /\ shared' = call[c].base /\ UNCHANGED stimuli
        /\ memory' = [memory EXCEPT ![c[1]] = [doc |-> call[c].base, fresh |-> FALSE]]
        /\ excused' = (excused \/ call[c].base # config)
     \/ Spend(1) /\ excused' = TRUE /\ UNCHANGED <<shared, memory>>
  /\ UNCHANGED <<config, chosen, flagVars>>

Expire ==
  /\ \/ \E p \in Procs : /\ memory[p].fresh /\ memory' = [memory EXCEPT ![p].fresh = FALSE]
                         /\ UNCHANGED shared
     \/ shared # NoDoc /\ shared' = NoDoc /\ UNCHANGED memory
  /\ UNCHANGED <<stimuli, config, call, chosen, excused, flagVars>>
-----------------------------------------------------------------------------
(* Feature flags *)

\* updateSafeFields: a toggle, or an edit of the name alone.
BeginUpdate(a, kind, b) ==
  /\ toggler[a].pc = "idle" /\ Spend(1)
  /\ toggler' = [toggler EXCEPT ![a] = [pc |-> "update", kind |-> kind, to |-> b, seen |-> flag,
                                          nth |-> 0]]
  /\ UNCHANGED <<configVars, flag, cached, dels, reader, audits>>

\* Slip: the toggle does not look.
UnmodifiedAlways(seen) == TRUE

\* A toggle only if the document is still the one that was read.
Unmodified(seen) == flag.stamp = seen.stamp

UpdateFlag(a) ==
  LET t == toggler[a]
      next == [active |-> IF t.kind = "toggle" THEN t.to ELSE flag.active, stamp |-> flag.stamp + 1,
               toggles |-> IF t.kind = "toggle" THEN flag.toggles + 1 ELSE flag.toggles,
               target |-> flag.target]
  IN  /\ t.pc = "update"
      /\ IF t.kind = "toggle" => Unmodified(t.seen)
         THEN /\ flag' = next /\ dels' = dels + 1
              /\ toggler' = [toggler EXCEPT ![a] = [t EXCEPT !.pc = "audit",
                               !.nth = next.toggles]]
         ELSE toggler' = [toggler EXCEPT ![a].pc = "idle"] /\ UNCHANGED <<flag, dels>>
      /\ UNCHANGED <<stimuli, configVars, cached, reader, audits>>

Audit(a) ==
  LET t == toggler[a]
  IN  /\ t.pc = "audit" /\ toggler' = [toggler EXCEPT ![a].pc = "idle"]
      /\ \/ /\ t.kind = "toggle" /\ UNCHANGED stimuli
            /\ audits' = audits \cup {[nth |-> t.nth, old |-> t.seen.active, new |-> t.to]}
         \/ (IF t.kind = "toggle" THEN Spend(1) ELSE UNCHANGED stimuli) /\ UNCHANGED audits
      /\ UNCHANGED <<configVars, flag, cached, dels, reader>>

\* The deletion nobody waits for, or the expiry after 45 seconds.
Uncache ==
  /\ \/ dels > 0 /\ dels' = dels - 1 /\ cached' = NoDoc /\ UNCHANGED stimuli
     \/ /\ dels > 0 /\ dels' = dels - 1 /\ Spend(1)
        /\ cached' = IF cached = NoDoc THEN NoDoc ELSE [cached EXCEPT !.late = TRUE]
     \/ cached # NoDoc /\ cached' = NoDoc /\ UNCHANGED <<stimuli, dels>>
  /\ UNCHANGED <<configVars, flag, toggler, reader, audits>>

\* getByKey: the cache, else the document, which is then cached.
Miss ==
  /\ reader = NoDoc /\ cached = NoDoc /\ reader' = flag
  /\ UNCHANGED <<stimuli, configVars, flag, cached, dels, toggler, audits>>

FillFlag ==
  /\ reader # NoDoc /\ reader' = NoDoc
  /\ cached' = [doc |-> reader, late |-> (reader # flag)]
  /\ UNCHANGED <<stimuli, configVars, flag, dels, toggler, audits>>

\* isEnabled: a critical feature must be active; then the first targeting that
\* is set decides, whatever isActive says.
Enabled(f, u) ==
  CASE f.target.critical /\ ~f.active -> FALSE
    [] f.target.allowed # {} -> u \in f.target.allowed
    [] f.target.segment # {} -> u \in f.target.segment
    [] f.target.rollout # {} -> u \in f.target.rollout
    [] OTHER -> f.active
-----------------------------------------------------------------------------
SwitchInit ==
  /\ config = NoDoc /\ shared = NoDoc /\ excused = FALSE
  /\ memory = [p \in Procs |-> [doc |-> Defaults, fresh |-> FALSE]]
  /\ call = [c \in Callers |-> Idle]
  /\ chosen = [o \in Options |-> TRUE]
  /\ \E target \in Flags : flag = [active |-> TRUE, stamp |-> 0, toggles |-> 0,
                                   target |-> target]
  /\ cached = NoDoc /\ dels = 0 /\ reader = NoDoc /\ audits = {}
  /\ toggler = [a \in Admins |-> [pc |-> "idle", kind |-> "toggle", to |-> TRUE,
                                  seen |-> flag, nth |-> 0]]

ConfigNext ==
  \/ \E c \in Callers : \/ AskRefresh(c) \/ AskRedis(c) \/ AskMongo(c) \/ FillRedis(c)
                        \/ WriteConfig(c) \/ PublishConfig(c)
                        \/ \E o \in Options, b \in BOOLEAN : AskPatch(c, o, b)
  \/ Expire

FlagNext ==
  \/ \E a \in Admins : \/ \E b \in BOOLEAN : BeginUpdate(a, "toggle", b)
                       \/ BeginUpdate(a, "rename", TRUE)
                       \/ UpdateFlag(a) \/ Audit(a)
  \/ Uncache \/ Miss \/ FillFlag
-----------------------------------------------------------------------------
\* A stored patch of a kill switch stays in force until the switch is patched
\* again, and Redis holds the stored document whenever nothing is on its way
\* to it - unless a patch started from an older copy (another process's, kept
\* in memory or Redis), from the defaults because both stores failed, or
\* overlapped another, or a write to Redis failed or came late.
SwitchesStay == ~excused =>
  /\ config # NoDoc => config.on = {o \in Options : chosen[o]}
  /\ (shared # NoDoc /\ \A c \in Callers : call[c].pc # "publish") => shared = config

\* Each audited toggle of a feature starts from the value the one before it
\* left; and a cached flag decides every user's access as the stored one does
\* unless its deletion is on the way, failed, or was overtaken by a late fill.
FlagsAreTraceable ==
  /\ \A x, y \in audits : y.nth = x.nth + 1 => y.old = x.new
  /\ \A x, y \in audits : x.nth = y.nth => x = y
  /\ (cached # NoDoc /\ ~cached.late /\ dels = 0) =>
       \A u \in Users : Enabled(cached.doc, u) = Enabled(flag, u)

SwitchTypeOK ==
  /\ \A c \in Callers : call[c].pc \in {"idle", "redis", "mongo", "fill", "write", "publish"}
  /\ \A p \in Procs : memory[p].doc # NoDoc /\ memory[p].doc.on \subseteq Options
  /\ dels \in Nat /\ IsFiniteSet(audits) /\ flag.toggles <= flag.stamp
=============================================================================
