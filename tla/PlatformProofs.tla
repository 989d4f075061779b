--------------------------- MODULE PlatformProofs ---------------------------
(* Proofs about Platform.  Each behaviour runs one component, so each proof  *)
(* is about one component's actions, and the others stand still.             *)
EXTENDS Platform, FiniteSetTheorems, WellFoundedInduction, TLAPS

\* A behaviour stays with its component, which takes a step or stands still.
LEMMA PartStays ==
    ASSUME [Next]_vars
    PROVE  /\ part' = part
           /\ part = "config" => ConfigNext \/ UNCHANGED switchVars
           /\ part = "flags" => FlagNext \/ UNCHANGED switchVars
           /\ part \in {"boards", "profile"} => ReadingNext \/ UNCHANGED readingVars
  BY DEF Next, vars, readerVars, ReadingNext

(* Runtime configuration                                                     *)

Admin(c) == c[2] = "admin"

CallPc == {"idle", "redis", "mongo", "fill", "write", "publish"}
ConfigCall ==
  [pc : CallPc, option : Options \cup {Idle.option}, to : BOOLEAN, base : ConfigDocs \cup {NoDoc}]

\* What callers and caches hold at each call.
ConfigTypes ==
  /\ config \in ConfigDocs \cup {NoDoc} /\ shared \in ConfigDocs \cup {NoDoc}
  /\ memory \in [Procs -> [doc : ConfigDocs, fresh : BOOLEAN]]
  /\ chosen \in [Options -> BOOLEAN] /\ excused \in BOOLEAN
  /\ call \in [Callers -> ConfigCall]
  /\ \A c \in Callers :
       /\ call[c].pc = "idle" => call[c] = Idle
       /\ call[c].pc \in {"fill", "write", "publish"} => call[c].base \in ConfigDocs
       /\ call[c].pc \in {"write", "publish"} => Admin(c)
       /\ Admin(c) /\ call[c].pc # "idle" => call[c].option \in Options

\* The switches that are on, stored or by default.
SwitchedOn == IF config = NoDoc THEN Options ELSE config.on

\* In a history without an excuse there is one patch at a time, it starts from
\* the stored switches and ends with what it stored; those are the chosen ones.
InForce ==
  /\ \A c, d \in Callers : Admin(c) /\ Admin(d) /\ call[c].pc # "idle" /\ call[d].pc # "idle" => c = d
  /\ SwitchedOn = {o \in Options : chosen[o]}
  /\ \A c \in Callers : Admin(c) =>
       /\ call[c].pc \in {"fill", "publish"} => call[c].base = config
       /\ call[c].pc = "write" => call[c].base.on = SwitchedOn
  /\ (\A c \in Callers : call[c].pc # "publish") => shared \in {NoDoc, config}

ConfigInv == ~excused => InForce

LEMMA IdleIs == Idle.pc = "idle" /\ Idle.to \in BOOLEAN /\ Idle.base = NoDoc
             /\ Idle = [pc |-> "idle", option |-> Idle.option, to |-> TRUE, base |-> NoDoc]
  BY DEF Idle

LEMMA DefaultsIs == Defaults \in ConfigDocs /\ Defaults.on = Options
  BY DEF Defaults, ConfigDocs

LEMMA CallersAre == \A c \in Callers : c[1] \in Procs /\ c[2] \in {"admin", "refresh"}
  BY SwitchAssumption

LEMMA PatchedIs ==
    ASSUME NEW doc \in ConfigDocs, NEW o \in Options, NEW b \in BOOLEAN
    PROVE  Patched(doc, o, b) \in ConfigDocs
  BY DEF Patched, ConfigDocs

\* After a call of getRuntimeConfig by one caller the others are as they were.
LEMMA FinishIs ==
    ASSUME ConfigTypes, NEW c \in Callers, NEW doc \in ConfigDocs, Finish(c, doc), call[c].pc # "idle"
    PROVE  /\ \A d \in Callers : d # c => call'[d] = call[d]
           /\ Admin(c) => /\ call'[c].pc = "write" /\ call'[c].base = doc
                          /\ call'[c].option = call[c].option /\ call'[c].to = call[c].to
           /\ ~Admin(c) => call'[c] = Idle
           /\ call' \in [Callers -> ConfigCall]
<1>1. PICK n : n = IF Admin(c) THEN [call[c] EXCEPT !.pc = "write", !.base = doc] ELSE Idle OBVIOUS
<1>2. call' = [call EXCEPT ![c] = n] BY <1>1 DEF Finish, Admin
<1>3. /\ n \in ConfigCall
      /\ Admin(c) => /\ n.pc = "write" /\ n.base = doc
                     /\ n.option = call[c].option /\ n.to = call[c].to
      /\ ~Admin(c) => n = Idle
  <2>1. CASE Admin(c)
    <3>1. /\ call[c].to \in BOOLEAN /\ call[c].option \in Options \cup {Idle.option}
          /\ n = [pc |-> "write", option |-> call[c].option, to |-> call[c].to, base |-> doc]
      BY <1>1, <2>1 DEF ConfigTypes, ConfigCall, CallPc
    <3> QED BY <2>1, <3>1 DEF ConfigCall, CallPc
  <2>2. CASE ~Admin(c) BY <1>1, <2>2, IdleIs DEF ConfigCall, CallPc
  <2> QED BY <2>1, <2>2
<1> QED BY <1>2, <1>3 DEF ConfigTypes

LEMMA RememberIs ==
    ASSUME ConfigTypes, NEW c \in Callers, NEW doc \in ConfigDocs, Remember(c, doc)
    PROVE  memory' \in [Procs -> [doc : ConfigDocs, fresh : BOOLEAN]]
  BY CallersAre DEF ConfigTypes, Remember

\* Each call leaves callers, caches and the document within their types.
LEMMA ConfigStepTypes ==
    ASSUME ConfigTypes, NEW c \in Callers,
           \/ AskRefresh(c) \/ AskRedis(c) \/ AskMongo(c) \/ FillRedis(c)
           \/ WriteConfig(c) \/ PublishConfig(c)
           \/ \E o \in Options, b \in BOOLEAN : AskPatch(c, o, b)
    PROVE  ConfigTypes'
<1> USE IdleIs, DefaultsIs, CallersAre
<1>0. NoDoc \notin ConfigDocs BY SwitchAssumption
<1>1. CASE AskRefresh(c)
  <2>1. PICK n : n = [call[c] EXCEPT !.pc = "redis"] OBVIOUS
  <2>2. n \in ConfigCall /\ n.pc = "redis" /\ ~Admin(c) BY <1>1, <2>1 DEF AskRefresh, Admin, ConfigCall, CallPc
  <2>3. call' = [call EXCEPT ![c] = n] BY <1>1, <2>1 DEF AskRefresh
  <2> QED BY <1>1, <2>2, <2>3 DEF AskRefresh, ConfigTypes
<1>2. CASE AskRedis(c)
  <2>1. CASE shared # NoDoc /\ Remember(c, shared) /\ Finish(c, shared)
    BY <1>2, <2>1, FinishIs, RememberIs DEF AskRedis, ConfigTypes
  <2>2. CASE call' = [call EXCEPT ![c].pc = "mongo"] /\ UNCHANGED memory
    <3>1. PICK n : n = [call[c] EXCEPT !.pc = "mongo"] OBVIOUS
    <3>2. n \in ConfigCall /\ n.pc = "mongo" /\ n.option = call[c].option /\ call[c].pc = "redis"
      BY <1>2, <3>1 DEF AskRedis, ConfigCall, CallPc, ConfigTypes
    <3>3. call' = [call EXCEPT ![c] = n] BY <2>2, <3>1
    <3> QED BY <1>2, <2>2, <3>2, <3>3 DEF AskRedis, ConfigTypes
  <2> QED BY <1>2, <2>1, <2>2 DEF AskRedis
<1>3. CASE AskMongo(c)
  <2>1. CASE /\ config # NoDoc /\ Remember(c, config) /\ UNCHANGED excused
             /\ call' = [call EXCEPT ![c] = [@ EXCEPT !.pc = "fill", !.base = config]]
    <3>1. PICK n : n = [call[c] EXCEPT !.pc = "fill", !.base = config] OBVIOUS
    <3>2. n \in ConfigCall /\ n.pc = "fill" /\ n.option = call[c].option /\ n.base \in ConfigDocs
      <4>1. PICK k : k = call[c] /\ k \in ConfigCall BY DEF ConfigTypes
      <4>2. k.to \in BOOLEAN /\ k.option \in Options \cup {Idle.option} BY <4>1 DEF ConfigCall
      <4>3. n = [pc |-> "fill", option |-> k.option, to |-> k.to, base |-> config]
        <5>1. n = [k EXCEPT !.pc = "fill", !.base = config] BY <3>1, <4>1
        <5>2. PICK O, B : O = Options \cup {Idle.option} /\ B = ConfigDocs \cup {NoDoc} OBVIOUS
        <5>3. k \in [pc : CallPc, option : O, to : BOOLEAN, base : B] BY <4>1, <5>2 DEF ConfigCall
        <5> QED BY <5>1, <5>3
      <4> QED BY <2>1, <4>1, <4>2, <4>3 DEF ConfigCall, CallPc, ConfigTypes
    <3>3. call' = [call EXCEPT ![c] = n] BY <2>1, <3>1
    <3> QED BY <1>3, <2>1, <3>2, <3>3, RememberIs DEF AskMongo, ConfigTypes
  <2>2. CASE Remember(c, Defaults) /\ Finish(c, Defaults) /\ excused' \in BOOLEAN
    BY <1>3, <2>2, FinishIs, RememberIs DEF AskMongo, ConfigTypes
  <2> QED BY <1>3, <2>1, <2>2 DEF AskMongo, ConfigTypes
<1>4. CASE FillRedis(c)
  <2>1. call[c].base \in ConfigDocs /\ Finish(c, call[c].base) BY <1>4 DEF FillRedis, ConfigTypes
  <2> QED BY <1>4, <2>1, FinishIs DEF FillRedis, ConfigTypes
<1>5. CASE WriteConfig(c)
  <2>1. PICK next : next = Patched(call[c].base, call[c].option, call[c].to) OBVIOUS
  <2>2. next \in ConfigDocs /\ Admin(c)
    BY <1>5, <2>1, PatchedIs DEF WriteConfig, ConfigTypes, ConfigCall, CallPc
  <2>3. CASE /\ config' = next /\ chosen' = [chosen EXCEPT ![call[c].option] = call[c].to]
             /\ call' = [call EXCEPT ![c] = [@ EXCEPT !.pc = "publish", !.base = next]]
    <3>1. PICK n : n = [call[c] EXCEPT !.pc = "publish", !.base = next] OBVIOUS
    <3>2. n \in ConfigCall /\ n.pc = "publish" /\ n.option = call[c].option /\ n.base = next
      <4>1. PICK k : k = call[c] /\ k \in ConfigCall BY DEF ConfigTypes
      <4>2. k.to \in BOOLEAN /\ k.option \in Options \cup {Idle.option} BY <4>1 DEF ConfigCall
      <4>3. n = [pc |-> "publish", option |-> k.option, to |-> k.to, base |-> next]
        <5>1. n = [k EXCEPT !.pc = "publish", !.base = next] BY <3>1, <4>1
        <5>2. PICK O, B : O = Options \cup {Idle.option} /\ B = ConfigDocs \cup {NoDoc} OBVIOUS
        <5>3. k \in [pc : CallPc, option : O, to : BOOLEAN, base : B] BY <4>1, <5>2 DEF ConfigCall
        <5> QED BY <5>1, <5>3
      <4> QED BY <2>2, <4>1, <4>2, <4>3 DEF ConfigCall, CallPc, ConfigTypes
    <3>3. call' = [call EXCEPT ![c] = n] BY <2>3, <3>1
    <3>4. call[c].option \in Options /\ call[c].to \in BOOLEAN
      BY <1>5, <2>2 DEF WriteConfig, ConfigTypes, ConfigCall, CallPc
    <3> QED BY <1>5, <2>2, <2>3, <3>2, <3>3, <3>4 DEF WriteConfig, ConfigTypes
  <2>4. CASE call' = [call EXCEPT ![c] = Idle] /\ UNCHANGED <<config, chosen>>
    BY <1>5, <2>4 DEF WriteConfig, ConfigTypes, ConfigCall, CallPc
  <2> QED BY <1>5, <2>1, <2>3, <2>4 DEF WriteConfig
<1>6. CASE PublishConfig(c)
  <2>1. call[c].base \in ConfigDocs BY <1>6 DEF PublishConfig, ConfigTypes
  <2>2. Idle \in ConfigCall /\ call' = [call EXCEPT ![c] = Idle] BY <1>6 DEF PublishConfig, ConfigCall, CallPc
  <2>3. memory' \in [Procs -> [doc : ConfigDocs, fresh : BOOLEAN]]
    <3>1. CASE memory' = [memory EXCEPT ![c[1]] = [doc |-> call[c].base, fresh |-> FALSE]]
      BY <2>1, <3>1 DEF ConfigTypes
    <3>2. CASE memory' = memory BY <3>2 DEF ConfigTypes
    <3> QED BY <1>6, <3>1, <3>2 DEF PublishConfig
  <2>4. shared' \in ConfigDocs \cup {NoDoc} /\ excused' \in BOOLEAN
    BY <1>6, <2>1 DEF PublishConfig, ConfigTypes
  <2> QED BY <1>6, <2>2, <2>3, <2>4 DEF PublishConfig, ConfigTypes
<1>7. ASSUME NEW o \in Options, NEW b \in BOOLEAN, AskPatch(c, o, b) PROVE ConfigTypes'
  <2>1. PICK n : n = [pc |-> IF memory[c[1]].fresh THEN "write" ELSE "redis", option |-> o, to |-> b,
                      base |-> IF memory[c[1]].fresh THEN memory[c[1]].doc ELSE NoDoc] OBVIOUS
  <2>2. /\ n \in ConfigCall /\ n.pc \in {"write", "redis"} /\ n.option = o /\ Admin(c)
        /\ n.pc = "write" => n.base \in ConfigDocs
    BY <1>7, <2>1 DEF AskPatch, ConfigCall, CallPc, ConfigTypes, Admin
  <2>3. call' = [call EXCEPT ![c] = n] /\ excused' \in BOOLEAN BY <1>7, <2>1 DEF AskPatch, ConfigTypes
  <2>4. UNCHANGED <<config, shared, memory, chosen>> BY <1>7 DEF AskPatch
  <2>5. call' \in [Callers -> ConfigCall] /\ \A d \in Callers : call'[d] = IF d = c THEN n ELSE call[d]
    BY <2>2, <2>3 DEF ConfigTypes
  <2> QED BY <2>2, <2>3, <2>4, <2>5 DEF ConfigTypes
<1> QED BY <1>1, <1>2, <1>3, <1>4, <1>5, <1>6, <1>7

LEMMA ConfigNextTypes ==
    ASSUME ConfigTypes, ConfigNext
    PROVE  ConfigTypes'
<1>1. CASE Expire BY <1>1 DEF Expire, ConfigTypes
<1> QED BY <1>1, ConfigStepTypes DEF ConfigNext

\* A call that neither starts, writes nor publishes a patch.
LEMMA ConfigStays ==
    ASSUME ConfigTypes, ConfigInv, NEW c \in Callers, UNCHANGED <<config, chosen>>,
           \A d \in Callers \ {c} : call'[d] = call[d],
           call[c].pc \notin {"idle", "publish"}, call'[c].pc # "publish",
           ~excused' => ~excused,
           ~excused' /\ Admin(c) /\ call'[c].pc = "fill" => call'[c].base = config,
           ~excused' /\ Admin(c) /\ call'[c].pc = "write" => call'[c].base.on = SwitchedOn,
           ~excused' => shared' = shared \/ shared' = config \/ shared' = NoDoc
    PROVE  ConfigInv'
<1> SUFFICES ASSUME ~excused' PROVE InForce' BY DEF ConfigInv
<1>1. SwitchedOn' = SwitchedOn BY DEF SwitchedOn
<1>2. (\A d \in Callers : call'[d].pc # "publish") => \A d \in Callers : call[d].pc # "publish"
  OBVIOUS
<1> QED BY <1>1, <1>2 DEF ConfigInv, InForce, Admin

\* Each call keeps the chosen switches in force, or is an excuse.
LEMMA ConfigStepKeeps ==
    ASSUME ConfigTypes, ConfigTypes', ConfigInv, NEW c \in Callers,
           \/ AskRefresh(c) \/ AskRedis(c) \/ AskMongo(c) \/ FillRedis(c)
           \/ WriteConfig(c) \/ PublishConfig(c)
           \/ \E o \in Options, b \in BOOLEAN : AskPatch(c, o, b)
    PROVE  ConfigInv'
<1> USE IdleIs, DefaultsIs
<1>0. NoDoc \notin ConfigDocs BY SwitchAssumption
<1>8. DOMAIN call = Callers BY DEF ConfigTypes
<1>1. CASE AskRefresh(c)
  <2>1. /\ ~Admin(c) /\ \A d \in Callers \ {c} : call'[d] = call[d]
        /\ call'[c].pc = "redis" /\ call[c].pc = "idle"
    BY <1>1, <1>8 DEF AskRefresh, Admin, ConfigTypes, ConfigCall
  <2>2. (\A d \in Callers : call'[d].pc # "publish") => \A d \in Callers : call[d].pc # "publish"
    BY <2>1
  <2>3. SwitchedOn' = SwitchedOn BY <1>1 DEF AskRefresh, SwitchedOn
  <2> QED BY <1>1, <2>1, <2>2, <2>3 DEF AskRefresh, ConfigInv, InForce, Admin
<1>2. CASE AskRedis(c)
  <2>1. ~excused /\ shared # NoDoc /\ Admin(c) => shared = config
    <3>1. ~excused /\ Admin(c) => \A d \in Callers : call[d].pc # "publish"
      BY <1>2 DEF AskRedis, ConfigInv, InForce, ConfigTypes
    <3> QED BY <3>1 DEF ConfigInv, InForce
  <2>2. CASE shared # NoDoc /\ Finish(c, shared)
    <3>1. /\ \A d \in Callers \ {c} : call'[d] = call[d]
          /\ Admin(c) => call'[c].pc = "write" /\ call'[c].base = shared
          /\ ~Admin(c) => call'[c] = Idle
      BY <1>2, <2>2, FinishIs DEF AskRedis, ConfigTypes
    <3> QED BY <1>0, <1>2, <2>1, <2>2, <3>1, ConfigStays DEF AskRedis, SwitchedOn
  <2>3. CASE call' = [call EXCEPT ![c].pc = "mongo"]
    <3>1. (\A d \in Callers \ {c} : call'[d] = call[d]) /\ call'[c].pc = "mongo"
      BY <1>8, <2>3 DEF ConfigTypes, ConfigCall
    <3> QED BY <1>2, <3>1, ConfigStays DEF AskRedis
  <2> QED BY <1>2, <2>2, <2>3 DEF AskRedis
<1>3. CASE AskMongo(c)
  <2>1. CASE /\ UNCHANGED excused /\ config # NoDoc
             /\ call' = [call EXCEPT ![c] = [@ EXCEPT !.pc = "fill", !.base = config]]
    <3>1. PICK n : n = [call[c] EXCEPT !.pc = "fill", !.base = config] OBVIOUS
    <3>2. n.pc = "fill" /\ n.base = config BY <3>1 DEF ConfigTypes, ConfigCall
    <3>3. (\A d \in Callers \ {c} : call'[d] = call[d]) /\ call'[c] = n
      BY <1>8, <2>1, <3>1
    <3> QED BY <1>3, <2>1, <3>2, <3>3, ConfigStays DEF AskMongo
  <2>2. CASE Finish(c, Defaults) /\ excused' = (excused \/ (Admin(c) /\ config # NoDoc))
    <3>1. /\ \A d \in Callers \ {c} : call'[d] = call[d]
          /\ Admin(c) => call'[c].pc = "write" /\ call'[c].base = Defaults
          /\ ~Admin(c) => call'[c] = Idle
      BY <1>3, <2>2, FinishIs DEF AskMongo
    <3> QED BY <1>3, <2>2, <3>1, ConfigStays DEF AskMongo, SwitchedOn
  <2> QED BY <1>3, <2>1, <2>2 DEF AskMongo, Admin
<1>4. CASE FillRedis(c)
  <2>1. /\ \A d \in Callers \ {c} : call'[d] = call[d]
        /\ Admin(c) => call'[c].pc = "write" /\ call'[c].base = call[c].base
        /\ ~Admin(c) => call'[c] = Idle
    BY <1>4, FinishIs DEF FillRedis, ConfigTypes
  <2>2. Admin(c) /\ ~excused => call[c].base = config BY <1>4 DEF FillRedis, ConfigInv, InForce
  <2>3. call[c].base \in ConfigDocs BY <1>4 DEF FillRedis, ConfigTypes
  <2>4. ~excused' => ~excused /\ (shared' = shared \/ shared' = config)
    BY <1>4 DEF FillRedis, ConfigTypes
  <2> QED BY <1>0, <1>4, <2>1, <2>2, <2>3, <2>4, ConfigStays DEF FillRedis, SwitchedOn
<1>5. CASE WriteConfig(c)
  <2>1. PICK next : next = Patched(call[c].base, call[c].option, call[c].to) OBVIOUS
  <2>2. /\ next \in ConfigDocs /\ Admin(c) /\ call[c].option \in Options /\ call[c].to \in BOOLEAN
        /\ call[c].base \in ConfigDocs
    BY <1>5, <2>1, PatchedIs DEF WriteConfig, ConfigTypes, ConfigCall
  <2>3. CASE /\ config' = next /\ chosen' = [chosen EXCEPT ![call[c].option] = call[c].to]
             /\ call' = [call EXCEPT ![c] = [@ EXCEPT !.pc = "publish", !.base = next]]
    <3>1. PICK n : n = [call[c] EXCEPT !.pc = "publish", !.base = next] OBVIOUS
    <3>2. n.pc = "publish" /\ n.base = next BY <3>1 DEF ConfigTypes, ConfigCall
    <3>3. (\A d \in Callers \ {c} : call'[d] = call[d]) /\ call'[c] = n
      BY <1>8, <2>3, <3>1
    <3> SUFFICES ASSUME ~excused' PROVE InForce' BY DEF ConfigInv
    <3>4. ~excused /\ \A d \in Callers \ {c} : Admin(d) => call[d].pc = "idle"
      BY <1>5, <2>2 DEF WriteConfig, ConfigInv, InForce
    <3>5. SwitchedOn = {o \in Options : chosen[o]} /\ call[c].base.on = SwitchedOn
      BY <1>5, <2>2, <3>4 DEF WriteConfig, ConfigInv, InForce
    <3>6. SwitchedOn' = {o \in Options : chosen'[o]}
      <4>1. SwitchedOn' = next.on BY <1>0, <2>2, <2>3 DEF SwitchedOn
      <4>2. next.on = IF call[c].to THEN SwitchedOn \cup {call[c].option}
                                    ELSE SwitchedOn \ {call[c].option}
        BY <2>1, <3>5 DEF Patched
      <4>3. chosen \in [Options -> BOOLEAN] BY DEF ConfigTypes
      <4> QED BY <2>2, <2>3, <3>5, <4>1, <4>2, <4>3
    <3> QED BY <2>3, <3>2, <3>3, <3>4, <3>6 DEF Admin, InForce
  <2>4. CASE call' = [call EXCEPT ![c] = Idle] /\ UNCHANGED <<config, chosen>>
    BY <1>5, <1>8, <2>4, ConfigStays DEF WriteConfig
  <2> QED BY <1>5, <2>1, <2>3, <2>4 DEF WriteConfig
<1>6. CASE PublishConfig(c)
  <2> SUFFICES ASSUME ~excused' PROVE InForce' BY DEF ConfigInv
  <2>1. /\ ~excused /\ shared' = call[c].base /\ call[c].base = config
        /\ (\A d \in Callers \ {c} : call'[d] = call[d]) /\ call'[c] = Idle
    BY <1>6, <1>8 DEF PublishConfig, ConfigTypes
  <2>2. SwitchedOn' = SwitchedOn BY <1>6 DEF PublishConfig, SwitchedOn
  <2> QED BY <1>6, <2>1, <2>2 DEF PublishConfig, ConfigInv, InForce, Admin
<1>7. ASSUME NEW o \in Options, NEW b \in BOOLEAN, AskPatch(c, o, b) PROVE ConfigInv'
  <2> SUFFICES ASSUME ~excused' PROVE InForce' BY DEF ConfigInv
  <2>1. PICK n : n = [pc |-> IF memory[c[1]].fresh THEN "write" ELSE "redis", option |-> o, to |-> b,
                      base |-> IF memory[c[1]].fresh THEN memory[c[1]].doc ELSE NoDoc] OBVIOUS
  <2>2. /\ (\A d \in Callers \ {c} : call'[d] = call[d]) /\ call'[c] = n
        /\ n.pc \in {"write", "redis"} /\ call[c].pc = "idle"
    BY <1>7, <1>8, <2>1 DEF AskPatch
  <2>3. /\ ~excused
        /\ memory[c[1]].fresh => memory[c[1]].doc = config
        /\ \A d \in Callers \ {c} : Admin(d) => call[d] = Idle
    BY <1>7 DEF AskPatch, Admin
  <2>4. n.pc = "write" => n.base.on = SwitchedOn
    <3>1. n.pc = "write" => n.base = config /\ memory[c[1]].doc \in ConfigDocs /\ n.base = memory[c[1]].doc
      <4>1. c[1] \in Procs /\ memory[c[1]].doc \in ConfigDocs BY CallersAre DEF ConfigTypes
      <4>2. n.pc = "write" => memory[c[1]].fresh /\ n.base = memory[c[1]].doc
        <5>1. CASE memory[c[1]].fresh BY <2>1, <5>1
        <5>2. CASE ~memory[c[1]].fresh BY <2>1, <5>2
        <5> QED BY <5>1, <5>2
      <4> QED BY <2>1, <2>3, <4>1, <4>2
    <3> QED BY <1>0, <3>1 DEF SwitchedOn
  <2>5. SwitchedOn' = SwitchedOn BY <1>7 DEF AskPatch, SwitchedOn
  <2>6. (\A d \in Callers : call'[d].pc # "publish") => \A d \in Callers : call[d].pc # "publish"
    BY <2>2
  <2>7. UNCHANGED <<config, shared, chosen>> BY <1>7 DEF AskPatch
  <2>8. \A d \in Callers : Admin(d) /\ d # c => call'[d].pc = "idle" BY <2>2, <2>3
  <2>9. n.base.on = SwitchedOn' \/ n.pc # "write" BY <2>4, <2>5
  <2>10. InForce BY <2>3 DEF ConfigInv
  <2> QED BY <2>2, <2>5, <2>6, <2>7, <2>8, <2>9, <2>10 DEF InForce, Admin
<1> QED BY <1>1, <1>2, <1>3, <1>4, <1>5, <1>6, <1>7

LEMMA ConfigKeeps ==
    ASSUME ConfigTypes, ConfigTypes', ConfigInv, ConfigNext
    PROVE  ConfigInv'
<1>1. CASE Expire
  <2>1. SwitchedOn' = SwitchedOn BY <1>1 DEF Expire, SwitchedOn
  <2> QED BY <1>1, <2>1 DEF Expire, ConfigInv, InForce, Admin
<1> QED BY <1>1, ConfigStepKeeps DEF ConfigNext

(* Feature flags                                                             *)

FlagTypes ==
  /\ flag \in FlagDocs /\ dels \in Nat
  /\ cached \in [doc : FlagDocs, late : BOOLEAN] \cup {NoDoc}
  /\ reader \in FlagDocs \cup {NoDoc}
  /\ audits \subseteq [nth : Nat, old : BOOLEAN, new : BOOLEAN]
  /\ toggler \in [Admins -> [pc : {"idle", "update", "audit"}, kind : {"toggle", "rename"},
                             to : BOOLEAN, seen : FlagDocs, nth : Nat]]

\* The toggles that have been written: audited, or about to be.
Toggled(a) == [nth |-> toggler[a].nth, old |-> toggler[a].seen.active, new |-> toggler[a].to]
Toggles == audits \cup {Toggled(a) : a \in {b \in Admins :
             toggler[b].pc = "audit" /\ toggler[b].kind = "toggle"}}

\* They are a chain that ends with the flag as it is; a stamp stands for one
\* content of the document; and a cached copy that is behind will be deleted.
FlagInv ==
  /\ \A x \in Toggles : x.nth <= flag.toggles /\ (x.nth = flag.toggles => x.new = flag.active)
  /\ \A x, y \in Toggles : /\ x.nth = y.nth => x = y
                           /\ y.nth = x.nth + 1 => y.old = x.new
  /\ \A a \in Admins : toggler[a].pc = "update" =>
       /\ toggler[a].seen.stamp <= flag.stamp
       /\ toggler[a].seen.stamp = flag.stamp => toggler[a].seen = flag
  /\ cached # NoDoc /\ ~cached.late => cached.doc = flag \/ dels > 0

\* One administrator's turn: what he holds becomes n.
LEMMA TogglerTypes ==
    ASSUME FlagTypes, NEW a \in Admins,
           NEW n \in [pc : {"idle", "update", "audit"}, kind : {"toggle", "rename"},
                      to : BOOLEAN, seen : FlagDocs, nth : Nat],
           toggler' = [toggler EXCEPT ![a] = n]
    PROVE  /\ toggler' \in [Admins -> [pc : {"idle", "update", "audit"}, kind : {"toggle", "rename"},
                                       to : BOOLEAN, seen : FlagDocs, nth : Nat]]
           /\ toggler'[a] = n /\ \A b \in Admins \ {a} : toggler'[b] = toggler[b]
  BY DEF FlagTypes

\* Fewer toggles under way, and none new: the chain stays one.
LEMMA ChainStays ==
    ASSUME FlagInv, Toggles' \subseteq Toggles,
           flag'.toggles = flag.toggles, flag'.active = flag.active
    PROVE  /\ \A x \in Toggles' : x.nth <= flag'.toggles /\ (x.nth = flag'.toggles => x.new = flag'.active)
           /\ \A x, y \in Toggles' : /\ x.nth = y.nth => x = y
                                     /\ y.nth = x.nth + 1 => y.old = x.new
  BY DEF FlagInv

LEMMA BeginKeeps ==
    ASSUME FlagTypes, FlagInv, NEW a \in Admins, NEW kind \in {"toggle", "rename"}, NEW b \in BOOLEAN,
           BeginUpdate(a, kind, b)
    PROVE  FlagTypes' /\ FlagInv'
<1>1. PICK n : n = [pc |-> "update", kind |-> kind, to |-> b, seen |-> flag, nth |-> 0] OBVIOUS
<1>2. /\ toggler' = [toggler EXCEPT ![a] = n] /\ UNCHANGED <<flag, cached, dels, reader, audits>>
      /\ toggler[a].pc = "idle"
  BY <1>1 DEF BeginUpdate
<1>3. n \in [pc : {"idle", "update", "audit"}, kind : {"toggle", "rename"}, to : BOOLEAN,
             seen : FlagDocs, nth : Nat]
  BY <1>1 DEF FlagTypes
<1>4. /\ FlagTypes' /\ toggler'[a] = n /\ \A d \in Admins \ {a} : toggler'[d] = toggler[d]
  BY <1>2, <1>3, TogglerTypes DEF FlagTypes
<1>5. n.pc = "update" /\ n.seen = flag BY <1>1
<1>6. Toggles' \subseteq Toggles BY <1>2, <1>4, <1>5 DEF Toggles, Toggled
<1>7. flag.stamp \in Nat BY DEF FlagTypes, FlagDocs
<1> QED BY <1>2, <1>4, <1>5, <1>6, <1>7, ChainStays DEF FlagInv

LEMMA UpdateKeeps ==
    ASSUME FlagTypes, FlagInv, NEW a \in Admins, UpdateFlag(a)
    PROVE  FlagTypes' /\ FlagInv'
<1>0. PICK t : t = toggler[a] OBVIOUS
<1>1. /\ t.kind \in {"toggle", "rename"} /\ t.to \in BOOLEAN /\ t.seen \in FlagDocs /\ t.nth \in Nat
      /\ t.pc = "update" /\ t \in [pc : {"idle", "update", "audit"}, kind : {"toggle", "rename"},
                                   to : BOOLEAN, seen : FlagDocs, nth : Nat]
  BY <1>0 DEF UpdateFlag, FlagTypes
<1>2. /\ flag.active \in BOOLEAN /\ flag.stamp \in Nat /\ flag.toggles \in Nat
      /\ flag = [active |-> flag.active, stamp |-> flag.stamp, toggles |-> flag.toggles,
                 target |-> flag.target]
      /\ flag.target \in Flags
  BY DEF FlagTypes, FlagDocs
<1>3. PICK next : next = [active |-> IF t.kind = "toggle" THEN t.to ELSE flag.active,
                          stamp |-> flag.stamp + 1,
                          toggles |-> IF t.kind = "toggle" THEN flag.toggles + 1 ELSE flag.toggles,
                          target |-> flag.target]
  OBVIOUS
<1>4. /\ next \in FlagDocs /\ next.stamp = flag.stamp + 1 /\ next.toggles \in Nat
      /\ t.kind = "toggle" => next.toggles = flag.toggles + 1 /\ next.active = t.to
      /\ t.kind # "toggle" => next.toggles = flag.toggles /\ next.active = flag.active
  <2>1. CASE t.kind = "toggle" BY <1>1, <1>2, <1>3, <2>1 DEF FlagDocs
  <2>2. CASE t.kind # "toggle" BY <1>1, <1>2, <1>3, <2>2 DEF FlagDocs
  <2> QED BY <2>1, <2>2
<1>5. CASE /\ t.kind = "toggle" => Unmodified(t.seen)
           /\ flag' = next /\ dels' = dels + 1
           /\ toggler' = [toggler EXCEPT ![a] = [t EXCEPT !.pc = "audit", !.nth = next.toggles]]
           /\ UNCHANGED <<cached, reader, audits>>
  <2>1. PICK n : n = [t EXCEPT !.pc = "audit", !.nth = next.toggles] OBVIOUS
  <2>2. n = [pc |-> "audit", kind |-> t.kind, to |-> t.to, seen |-> t.seen, nth |-> next.toggles]
    BY <1>1, <2>1
  <2>3. n \in [pc : {"idle", "update", "audit"}, kind : {"toggle", "rename"}, to : BOOLEAN,
               seen : FlagDocs, nth : Nat]
    BY <1>1, <1>4, <2>2
  <2>4. toggler' = [toggler EXCEPT ![a] = n] BY <1>5, <2>1
  <2>5. /\ FlagTypes' /\ toggler'[a] = n /\ \A d \in Admins \ {a} : toggler'[d] = toggler[d]
    <3>1. flag' \in FlagDocs /\ dels' \in Nat BY <1>4, <1>5 DEF FlagTypes
    <3> QED BY <1>5, <2>3, <2>4, <3>1, TogglerTypes DEF FlagTypes
  <2>6. DEFINE new == [nth |-> next.toggles, old |-> t.seen.active, new |-> t.to]
  <2>7. t.kind = "toggle" => t.seen = flag
    BY <1>0, <1>1, <1>5 DEF Unmodified, FlagInv
  <2>8. Toggles' \subseteq Toggles \cup (IF t.kind = "toggle" THEN {new} ELSE {})
    <3>1. t.kind = "toggle" => Toggled(a)' = new BY <2>2, <2>5 DEF Toggled
    <3>2. \A d \in Admins \ {a} : Toggled(d)' = Toggled(d) BY <2>5 DEF Toggled
    <3>3. n.kind = t.kind BY <2>2
    <3> QED BY <1>5, <2>5, <3>1, <3>2, <3>3 DEF Toggles
  <2>9. \A x \in Toggles : x.nth \in Nat
    BY DEF Toggles, Toggled, FlagTypes
  <2>10. /\ \A x \in Toggles' : x.nth <= flag'.toggles /\ (x.nth = flag'.toggles => x.new = flag'.active)
         /\ \A x, y \in Toggles' : /\ x.nth = y.nth => x = y
                                   /\ y.nth = x.nth + 1 => y.old = x.new
    <3>1. CASE t.kind = "toggle"
      <4>1. /\ new.nth = flag.toggles + 1 /\ new.old = flag.active /\ new.new = t.to
            /\ flag'.toggles = flag.toggles + 1 /\ flag'.active = t.to
        BY <1>4, <1>5, <2>7, <3>1
      <4> HIDE DEF new
      <4>2. \A x \in Toggles : x.nth <= flag.toggles /\ (x.nth = flag.toggles => x.new = flag.active)
        BY DEF FlagInv
      <4>3. \A x, y \in Toggles : (x.nth = y.nth => x = y) /\ (y.nth = x.nth + 1 => y.old = x.new)
        BY DEF FlagInv
      <4>4. \A x \in Toggles' : x \in Toggles \/ x = new BY <2>8, <3>1
      <4>5. \A x \in Toggles : x.nth < new.nth /\ new.nth # x.nth /\ x.nth # new.nth + 1
        BY <1>2, <2>9, <4>1, <4>2
      <4>6. new.nth # new.nth + 1 BY <1>2, <4>1
      <4>7. \A x \in Toggles : new.nth = x.nth + 1 => new.old = x.new
        BY <1>2, <2>9, <4>1, <4>2
      <4>8. \A x \in Toggles' : x.nth <= flag'.toggles /\ (x.nth = flag'.toggles => x.new = flag'.active)
        BY <1>2, <2>9, <4>1, <4>4, <4>5
      <4> QED BY <4>3, <4>4, <4>5, <4>6, <4>7, <4>8
    <3>2. CASE t.kind # "toggle"
      BY <1>4, <1>5, <2>8, <3>2, ChainStays
    <3> QED BY <3>1, <3>2
  <2>11. \A d \in Admins : toggler'[d].pc = "update" =>
           /\ toggler'[d].seen.stamp <= flag'.stamp
           /\ toggler'[d].seen.stamp = flag'.stamp => toggler'[d].seen = flag'
    <3>1. n.pc = "audit" BY <2>2
    <3>2. \A d \in Admins : toggler[d].seen.stamp \in Nat BY DEF FlagTypes, FlagDocs
    <3> QED BY <1>2, <1>4, <1>5, <2>5, <3>1, <3>2 DEF FlagInv
  <2>12. dels' > 0 BY <1>5 DEF FlagTypes
  <2> QED BY <1>5, <2>5, <2>10, <2>11, <2>12 DEF FlagInv
<1>6. CASE /\ toggler' = [toggler EXCEPT ![a].pc = "idle"]
           /\ UNCHANGED <<flag, dels, cached, reader, audits>>
  <2>1. PICK n : n = [t EXCEPT !.pc = "idle"] OBVIOUS
  <2>2. /\ n.pc = "idle" /\ toggler' = [toggler EXCEPT ![a] = n]
        /\ n \in [pc : {"idle", "update", "audit"}, kind : {"toggle", "rename"}, to : BOOLEAN,
                  seen : FlagDocs, nth : Nat]
    BY <1>0, <1>1, <1>6, <2>1
  <2>3. /\ FlagTypes' /\ toggler'[a] = n /\ \A d \in Admins \ {a} : toggler'[d] = toggler[d]
    BY <1>6, <2>2, TogglerTypes DEF FlagTypes
  <2>4. Toggles' \subseteq Toggles BY <1>6, <2>2, <2>3 DEF Toggles, Toggled
  <2> QED BY <1>6, <2>2, <2>3, <2>4, ChainStays DEF FlagInv
<1> QED BY <1>0, <1>3, <1>5, <1>6 DEF UpdateFlag

LEMMA AuditKeeps ==
    ASSUME FlagTypes, FlagInv, NEW a \in Admins, Audit(a)
    PROVE  FlagTypes' /\ FlagInv'
<1>1. PICK n : n = [toggler[a] EXCEPT !.pc = "idle"] OBVIOUS
<1>2. /\ n.pc = "idle" /\ toggler' = [toggler EXCEPT ![a] = n]
      /\ n \in [pc : {"idle", "update", "audit"}, kind : {"toggle", "rename"}, to : BOOLEAN,
                seen : FlagDocs, nth : Nat]
  BY <1>1 DEF Audit, FlagTypes
<1>3. toggler'[a] = n /\ \A d \in Admins \ {a} : toggler'[d] = toggler[d]
  BY <1>2, TogglerTypes
<1>4. UNCHANGED <<flag, dels, cached, reader>> BY DEF Audit
<1>5. audits' = audits \/ (toggler[a].kind = "toggle" /\ audits' = audits \cup {Toggled(a)})
  BY DEF Audit, Toggled
<1>6. Toggled(a) \in [nth : Nat, old : BOOLEAN, new : BOOLEAN] BY DEF Toggled, FlagTypes, FlagDocs
<1>7. FlagTypes' BY <1>2, <1>4, <1>5, <1>6, TogglerTypes DEF FlagTypes
<1>8. Toggles' \subseteq Toggles
  <2>1. toggler[a].pc = "audit" BY DEF Audit
  <2>2. \A d \in Admins \ {a} : Toggled(d)' = Toggled(d) BY <1>3 DEF Toggled
  <2> QED BY <1>2, <1>3, <1>5, <2>1, <2>2 DEF Toggles
<1> QED BY <1>2, <1>3, <1>4, <1>7, <1>8, ChainStays DEF FlagInv

\* The copy is deleted, or read and filled again.
LEMMA CopyKeeps ==
    ASSUME FlagTypes, FlagInv, Uncache \/ Miss \/ FillFlag
    PROVE  FlagTypes' /\ FlagInv'
<1>0. NoDoc \notin FlagDocs /\ NoDoc \notin [doc : FlagDocs, late : BOOLEAN] BY SwitchAssumption
<1>1. UNCHANGED <<flag, toggler, audits>> BY DEF Uncache, Miss, FillFlag
<1>2. Toggles' \subseteq Toggles BY <1>1 DEF Toggles, Toggled
<1>3. CASE Uncache
  <2>1. CASE cached' = NoDoc /\ dels' \in Nat /\ reader' = reader
    BY <1>1, <1>2, <2>1, ChainStays DEF FlagTypes, FlagInv
  <2>2. CASE /\ dels' \in Nat /\ reader' = reader /\ cached # NoDoc
             /\ cached' = [cached EXCEPT !.late = TRUE]
    <3>1. cached' \in [doc : FlagDocs, late : BOOLEAN] /\ cached'.late = TRUE BY <2>2 DEF FlagTypes
    <3> QED BY <1>1, <1>2, <2>2, <3>1, ChainStays DEF FlagTypes, FlagInv
  <2> QED BY <1>3, <2>1, <2>2 DEF Uncache, FlagTypes
<1>4. CASE Miss BY <1>1, <1>2, <1>4, ChainStays DEF Miss, FlagTypes, FlagInv
<1>5. CASE FillFlag
  <2>1. cached' \in [doc : FlagDocs, late : BOOLEAN] /\ (~cached'.late => cached'.doc = flag)
    BY <1>5 DEF FillFlag, FlagTypes
  <2> QED BY <1>1, <1>2, <1>5, <2>1, ChainStays DEF FillFlag, FlagTypes, FlagInv
<1> QED BY <1>3, <1>4, <1>5

LEMMA FlagKeeps ==
    ASSUME FlagTypes, FlagInv, FlagNext
    PROVE  FlagTypes' /\ FlagInv'
  BY BeginKeeps, UpdateKeeps, AuditKeeps, CopyKeeps DEF FlagNext

(* Boards and the interest profile                                           *)

ClickPc == Counting \cup {"idle", "sync", "merge", "uncache", "enqueue"}
Click == [pc : ClickPc, board : Boards \cup {Nothing}, article : Articles \cup {Nothing},
          seen : Profiles \cup {Nothing}]

\* What a request knows of its board, its article and the profile.
ClickOK(k) ==
  /\ k \in Click
  /\ k.pc # "idle" => k.board \in Boards /\ k.article \in Articles
  /\ k.pc = "merge" => k.seen \in Profiles

ReadingTypes ==
  /\ saved \in [Boards -> SUBSET Articles] /\ saves \in [Articles -> Int]
  /\ click \in [Clicks -> Click] /\ \A r \in Clicks : ClickOK(click[r])
  /\ profile \in Profiles /\ kept \in Profiles \cup {Nothing} /\ getter \in Profiles \cup {Nothing}
  /\ following \in BOOLEAN /\ recomputes \in Nat
  /\ worker \in [pc : {"idle", "read", "write", "uncache"}, coins : BOOLEAN,
                 seen : Profiles \cup {Nothing}]
  /\ worker.pc = "write" => worker.seen \in Profiles
  /\ worker.pc = "idle" => worker = Resting
  /\ synced \subseteq Articles /\ uneven \subseteq Articles
  /\ raced \in BOOLEAN /\ dropped \in BOOLEAN /\ outdated \in BOOLEAN

\* An article's count, and the one request that may be changing it.
Due(n) == IF Savers(n) = {} THEN 0 ELSE 1
Counts(r, n) == click[r].pc \in Counting /\ click[r].article = n
Counted(n) ==
  /\ \A q, r \in Clicks : Counts(q, n) /\ Counts(r, n) => q = r
  /\ (\A r \in Clicks : ~Counts(r, n)) => saves[n] = Due(n)
  /\ \A r \in Clicks : Counts(r, n) =>
       /\ click[r].pc \in {"exists", "remove"} => saves[n] = Due(n)
       /\ click[r].pc = "count" => Savers(n) = {} /\ saves[n] = 0
       /\ click[r].pc \in {"add", "still"} => saves[n] = 1
       /\ click[r].pc = "uncount" => Savers(n) = {} /\ saves[n] = 1

SavesInv == \A n \in Articles \ uneven : Counted(n)

\* Whoever writes the profile has read what it replaces; and what is out of
\* date - the profile, its coins, the cached copy - has its cure on the way.
Recomputing == worker.pc \in {"read", "write"}
OneWriter ==
  /\ synced \subseteq profile.signals
  /\ \A r \in Writing : click[r].seen = profile /\ worker.pc # "write"
  /\ \A q, r \in Writing : q = r
  /\ worker.pc = "write" => worker.seen = profile
StaleHasCure ==
  profile.stale => \/ \E r \in Clicks : click[r].pc \in {"uncache", "enqueue"}
                   \/ recomputes > 0 \/ Recomputing
CoinsHaveCure ==
  recomputes = 0 => following = IF Recomputing THEN worker.coins ELSE profile.coins
CopyHasCure ==
  kept # Nothing /\ ~outdated =>
    kept = profile \/ (\E r \in Clicks : click[r].pc = "uncache") \/ worker.pc = "uncache"

ProfileInv ==
  /\ ~raced => OneWriter
  /\ ~raced /\ ~dropped => StaleHasCure /\ CoinsHaveCure /\ CopyHasCure

LEMMA ClickBecomes ==
    ASSUME ReadingTypes, NEW r \in Clicks, NEW n, ClickOK(n), click' = [click EXCEPT ![r] = n]
    PROVE  /\ click' \in [Clicks -> Click] /\ \A q \in Clicks : ClickOK(click'[q])
           /\ click'[r] = n /\ \A q \in Clicks \ {r} : click'[q] = click[q]
  BY DEF ReadingTypes, ClickOK

\* A request goes on to its next call.
LEMMA GotoIs ==
    ASSUME ReadingTypes, NEW r \in Clicks, click[r].pc # "idle",
           NEW to \in ClickPc \ {"merge"}, Goto(r, to)
    PROVE  /\ click' \in [Clicks -> Click] /\ \A q \in Clicks : ClickOK(click'[q])
           /\ click'[r].pc = to /\ click'[r].article = click[r].article
           /\ \A q \in Clicks \ {r} : click'[q] = click[q]
<1>1. PICK n : n = [click[r] EXCEPT !.pc = to] OBVIOUS
<1>2. click[r] \in Click /\ ClickOK(click[r]) BY DEF ReadingTypes
<1>3. n \in Click /\ n.pc = to /\ n.article = click[r].article /\ n.board = click[r].board
  BY <1>1, <1>2 DEF Click
<1>4. ClickOK(n) BY <1>2, <1>3 DEF ClickOK
<1>5. click' = [click EXCEPT ![r] = n] BY <1>1 DEF Goto
<1> QED BY <1>3, <1>4, <1>5, ClickBecomes

\* A request is over.
LEMMA OverIs ==
    ASSUME ReadingTypes, NEW r \in Clicks, click' = [click EXCEPT ![r] = Waiting]
    PROVE  /\ click' \in [Clicks -> Click] /\ \A q \in Clicks : ClickOK(click'[q])
           /\ click'[r].pc = "idle" /\ \A q \in Clicks \ {r} : click'[q] = click[q]
<1>1. ClickOK(Waiting) /\ Waiting.pc = "idle" BY DEF ClickOK, Click, ClickPc, Waiting
<1> QED BY <1>1, ClickBecomes

\* The counts do not change with requests that are not about them.
LEMMA SavesStay ==
    ASSUME SavesInv, UNCHANGED <<saved, saves>>, uneven \subseteq uneven', NEW r \in Clicks,
           \A q \in Clicks \ {r} : click'[q] = click[q],
           click'[r].pc \notin Counting, click[r].pc \in Counting => click[r].article \in uneven'
    PROVE  SavesInv'
<1> SUFFICES ASSUME NEW n \in Articles \ uneven' PROVE Counted(n)' BY DEF SavesInv
<1>1. Counted(n) BY DEF SavesInv
<1>2. \A q \in Clicks : Counts(q, n)' = Counts(q, n) BY DEF Counts
<1>3. Savers(n)' = Savers(n) /\ Due(n)' = Due(n) BY DEF Savers, Due
<1>4. \A q \in Clicks : Counts(q, n) => click'[q] = click[q] BY DEF Counts
<1> QED BY <1>1, <1>2, <1>3, <1>4 DEF Counted

\* Nor those of other articles.
LEMMA OthersCounted ==
    ASSUME NEW n \in Articles, Counted(n), NEW r \in Clicks,
           \A q \in Clicks \ {r} : click'[q] = click[q],
           ~Counts(r, n), ~Counts(r, n)',
           saves'[n] = saves[n], \A b \in Boards : n \in saved'[b] <=> n \in saved[b]
    PROVE  Counted(n)'
<1>2. \A q \in Clicks : Counts(q, n)' = Counts(q, n) BY DEF Counts
<1>3. Savers(n)' = Savers(n) /\ Due(n)' = Due(n) BY DEF Savers, Due
<1>4. \A q \in Clicks : Counts(q, n) => click'[q] = click[q] BY DEF Counts
<1> QED BY <1>2, <1>3, <1>4 DEF Counted

\* The one request that counts an article goes on, or is the first to count.
LEMMA OneCounts ==
    ASSUME SavesInv, NEW r \in Clicks, NEW m \in Articles, click'[r].article = m,
           click[r].pc \in Counting => click[r].article = m,
           \A q \in Clicks \ {r} : click'[q] = click[q],
           uneven \subseteq uneven', m \notin uneven' => \A q \in Clicks \ {r} : ~Counts(q, m),
           \A n \in Articles \ {m} : /\ saves'[n] = saves[n]
                                     /\ \A b \in Boards : n \in saved'[b] <=> n \in saved[b],
           m \notin uneven' => IF click'[r].pc \in Counting
                               THEN /\ click'[r].pc \in {"exists", "remove"} => saves'[m] = Due(m)'
                                    /\ click'[r].pc = "count" => Savers(m)' = {} /\ saves'[m] = 0
                                    /\ click'[r].pc \in {"add", "still"} => saves'[m] = 1
                                    /\ click'[r].pc = "uncount" => Savers(m)' = {} /\ saves'[m] = 1
                               ELSE saves'[m] = Due(m)'
    PROVE  SavesInv'
<1> SUFFICES ASSUME NEW n \in Articles \ uneven' PROVE Counted(n)' BY DEF SavesInv
<1>1. CASE n # m
  <2>1. ~Counts(r, n) /\ ~Counts(r, n)' BY <1>1 DEF Counts
  <2>2. Counted(n) BY DEF SavesInv
  <2> QED BY <1>1, <2>1, <2>2, OthersCounted
<1>2. CASE n = m
  <2>1. \A q \in Clicks \ {r} : ~Counts(q, n)' BY <1>2 DEF Counts
  <2>2. Counts(r, n)' <=> click'[r].pc \in Counting BY <1>2 DEF Counts
  <2>3. \A q, p \in Clicks : Counts(q, n)' /\ Counts(p, n)' => q = p BY <2>1
  <2>4. (\A q \in Clicks : ~Counts(q, n)') => saves'[n] = Due(n)' BY <1>2, <2>2
  <2> QED BY <1>2, <2>1, <2>2, <2>3, <2>4 DEF Counted
<1> QED BY <1>1, <1>2

\* Who counts an article that is not uneven counts alone, and knows.
LEMMA CountsAlone ==
    ASSUME SavesInv, NEW r \in Clicks, NEW m \in Articles, click[r].pc \in Counting, click[r].article = m,
           m \notin uneven
    PROVE  /\ \A q \in Clicks \ {r} : ~Counts(q, m)
           /\ click[r].pc \in {"exists", "remove"} => saves[m] = Due(m)
           /\ click[r].pc = "count" => Savers(m) = {} /\ saves[m] = 0
           /\ click[r].pc \in {"add", "still"} => saves[m] = 1
           /\ click[r].pc = "uncount" => Savers(m) = {} /\ saves[m] = 1
<1>1. Counts(r, m) /\ Counted(m) BY DEF SavesInv, Counts
<1> QED BY <1>1 DEF Counted

\* A request that only counts leaves the profile alone.
LEMMA ProfileStays ==
    ASSUME ProfileInv, UNCHANGED profileVars, NEW r \in Clicks,
           \A q \in Clicks \ {r} : click'[q] = click[q],
           click[r].pc \notin {"merge", "uncache", "enqueue"},
           click'[r].pc \notin {"merge", "uncache", "enqueue"}
    PROVE  ProfileInv'
<1>1. Writing' = Writing /\ \A q \in Writing : click'[q] = click[q] BY DEF Writing
<1>2. /\ Recomputing' = Recomputing
      /\ UNCHANGED <<profile, kept, following, recomputes, worker, synced, raced, dropped, outdated>>
  BY DEF profileVars, Recomputing
<1>3. (\E q \in Clicks : click[q].pc \in {"uncache", "enqueue"}) =>
        \E q \in Clicks : click'[q].pc \in {"uncache", "enqueue"}
  OBVIOUS
<1>4. (\E q \in Clicks : click[q].pc = "uncache") => \E q \in Clicks : click'[q].pc = "uncache"
  OBVIOUS
<1> QED BY <1>1, <1>2, <1>3, <1>4
        DEF ProfileInv, OneWriter, StaleHasCure, CoinsHaveCure, CopyHasCure

LEMMA BeginsKeep ==
    ASSUME ReadingTypes, SavesInv, ProfileInv, NEW r \in Clicks, NEW b \in Boards, NEW m \in Articles,
           BeginSave(r, b, m) \/ BeginUnsave(r, b, m)
    PROVE  ReadingTypes' /\ SavesInv' /\ ProfileInv'
<1>1. PICK to : to \in {"add", "exists", "remove"} /\ Begin(r, b, m, to) /\ (to = "add" => m \in saved[b])
  BY DEF BeginSave, BeginUnsave
<1>2. PICK n : n = [pc |-> to, board |-> b, article |-> m, seen |-> Nothing] OBVIOUS
<1>3. /\ click' = [click EXCEPT ![r] = n] /\ click[r].pc = "idle"
      /\ UNCHANGED <<saved, saves, profileVars>>
      /\ uneven' = uneven \cup {k \in {m} : \E q \in Clicks : click[q].article = k
                                                             /\ click[q].pc \in Counting}
  BY <1>1, <1>2 DEF Begin
<1>4. ClickOK(n) /\ n.pc = to /\ n.article = m BY <1>1, <1>2 DEF ClickOK, Click, ClickPc, Counting
<1>5. /\ click' \in [Clicks -> Click] /\ \A q \in Clicks : ClickOK(click'[q])
      /\ click'[r] = n /\ \A q \in Clicks \ {r} : click'[q] = click[q]
  BY <1>3, <1>4, ClickBecomes
<1>6. ReadingTypes' BY <1>3, <1>5 DEF ReadingTypes, profileVars
<1>7. m \notin uneven' => m \notin uneven /\ \A q \in Clicks : ~Counts(q, m) BY <1>3 DEF Counts
<1>8. m \notin uneven' => saves[m] = Due(m) BY <1>7 DEF SavesInv, Counted
<1>9. to = "add" => Due(m) = 1 BY <1>1 DEF Due, Savers
<1>10. Due(m)' = Due(m) BY <1>3 DEF Due, Savers
<1>11. click[r].pc \notin Counting BY <1>3 DEF Counting
<1>12. SavesInv'
  BY <1>1, <1>3, <1>4, <1>5, <1>7, <1>8, <1>9, <1>10, <1>11, OneCounts DEF Counting
<1>13. ProfileInv' BY <1>1, <1>3, <1>4, <1>5, ProfileStays
<1> QED BY <1>6, <1>12, <1>13

LEMMA CountingKeeps ==
    ASSUME ReadingTypes, SavesInv, ProfileInv, NEW r \in Clicks,
           Exists(r) \/ CountSave(r) \/ AddItem(r) \/ RemoveItem(r) \/ Still(r) \/ Uncount(r)
    PROVE  ReadingTypes' /\ SavesInv' /\ ProfileInv'
<1>0. PICK m : m = click[r].article OBVIOUS
<1>1. click[r].pc \in Counting /\ click[r].pc # "idle"
  BY DEF Exists, CountSave, AddItem, RemoveItem, Still, Uncount, Counting
<1>2. m \in Articles /\ click[r].board \in Boards BY <1>0, <1>1 DEF ReadingTypes, ClickOK
<1>3. UNCHANGED profileVars BY DEF Exists, CountSave, AddItem, RemoveItem, Still, Uncount
<1>4. m \notin uneven =>
        /\ \A q \in Clicks \ {r} : ~Counts(q, m)
        /\ click[r].pc \in {"exists", "remove"} => saves[m] = Due(m)
        /\ click[r].pc = "count" => Savers(m) = {} /\ saves[m] = 0
        /\ click[r].pc \in {"add", "still"} => saves[m] = 1
        /\ click[r].pc = "uncount" => Savers(m) = {} /\ saves[m] = 1
  BY <1>0, <1>1, <1>2, CountsAlone
<1>5. \A to \in Counting \cup {"idle", "sync"} : to \in ClickPc \ {"merge"} /\ to \notin {"merge", "uncache", "enqueue"}
  BY DEF Counting, ClickPc
<1>6. click[r].pc \notin {"merge", "uncache", "enqueue"} BY <1>1 DEF Counting
<1>7. saved \in [Boards -> SUBSET Articles] /\ saves \in [Articles -> Int] /\ uneven \subseteq Articles
  BY DEF ReadingTypes
<1>8. CASE Exists(r)
  <2>1. PICK to : to \in {"count", "add"} /\ Goto(r, to) /\ (to = "count" <=> Savers(m) = {})
    BY <1>0, <1>8 DEF Exists
  <2>2. /\ click' \in [Clicks -> Click] /\ \A q \in Clicks : ClickOK(click'[q])
        /\ click'[r].pc = to /\ click'[r].article = m
        /\ \A q \in Clicks \ {r} : click'[q] = click[q]
    BY <1>0, <1>1, <1>5, <2>1, GotoIs DEF Counting
  <2>3. UNCHANGED <<saved, saves, uneven>> BY <1>8 DEF Exists
  <2>4. Savers(m)' = Savers(m) /\ Due(m)' = Due(m) BY <2>3 DEF Savers, Due
  <2>5. ReadingTypes' BY <1>3, <2>2, <2>3 DEF ReadingTypes, profileVars
  <2>6. m \notin uneven => saves[m] = Due(m) BY <1>4, <1>8 DEF Exists
  <2>7. SavesInv'
    BY <1>0, <1>2, <1>4, <2>1, <2>2, <2>3, <2>4, <2>6, OneCounts DEF Counting, Due
  <2> QED BY <1>3, <1>6, <2>1, <2>2, <2>5, <2>7, ProfileStays
<1>9. CASE CountSave(r)
  <2>1. /\ click' \in [Clicks -> Click] /\ \A q \in Clicks : ClickOK(click'[q])
        /\ click'[r].pc = "add" /\ click'[r].article = m
        /\ \A q \in Clicks \ {r} : click'[q] = click[q]
    BY <1>0, <1>1, <1>5, <1>9, GotoIs DEF Counting, CountSave
  <2>2. UNCHANGED <<saved, uneven>> /\ saves' = [saves EXCEPT ![m] = @ + 1] BY <1>0, <1>9 DEF CountSave
  <2>3. /\ saves' \in [Articles -> Int] /\ saves'[m] = saves[m] + 1
        /\ \A n \in Articles \ {m} : saves'[n] = saves[n]
    BY <1>2, <1>7, <2>2
  <2>4. ReadingTypes' BY <1>3, <2>1, <2>2, <2>3 DEF ReadingTypes, profileVars
  <2>5. m \notin uneven => saves[m] = 0 BY <1>4, <1>9 DEF CountSave
  <2>6. SavesInv'
    BY <1>0, <1>2, <1>4, <2>1, <2>2, <2>3, <2>5, OneCounts DEF Counting
  <2> QED BY <1>3, <1>6, <2>1, <2>4, <2>6, ProfileStays
<1>10. CASE AddItem(r)
  <2>1. /\ click' \in [Clicks -> Click] /\ \A q \in Clicks : ClickOK(click'[q])
        /\ click'[r].pc = "sync" /\ click'[r].article = m
        /\ \A q \in Clicks \ {r} : click'[q] = click[q]
    BY <1>0, <1>1, <1>5, <1>10, GotoIs DEF AddItem
  <2>2. /\ UNCHANGED <<saves, uneven>> /\ saved' \in [Boards -> SUBSET Articles]
        /\ \A b \in Boards : saved'[b] = IF b = click[r].board THEN saved[b] \cup {m} ELSE saved[b]
    BY <1>0, <1>2, <1>7, <1>10 DEF AddItem
  <2>3. ReadingTypes' BY <1>3, <2>1, <2>2 DEF ReadingTypes, profileVars
  <2>4. Due(m)' = 1
    <3>1. click[r].board \in Savers(m)' BY <1>2, <2>2 DEF Savers
    <3> QED BY <3>1 DEF Due
  <2>5. m \notin uneven => saves[m] = 1 BY <1>4, <1>10 DEF AddItem
  <2>6. \A n \in Articles \ {m} : \A b \in Boards : n \in saved'[b] <=> n \in saved[b] BY <2>2
  <2>7. SavesInv'
    BY <1>0, <1>2, <1>4, <2>1, <2>2, <2>4, <2>5, <2>6, OneCounts DEF Counting
  <2> QED BY <1>3, <1>6, <2>1, <2>3, <2>7, ProfileStays
<1>11. CASE RemoveItem(r)
  <2>1. /\ click' \in [Clicks -> Click] /\ \A q \in Clicks : ClickOK(click'[q])
        /\ click'[r].pc = "still" /\ click'[r].article = m
        /\ \A q \in Clicks \ {r} : click'[q] = click[q]
    BY <1>0, <1>1, <1>5, <1>11, GotoIs DEF Counting, RemoveItem
  <2>2. /\ UNCHANGED saves /\ saved' \in [Boards -> SUBSET Articles]
        /\ \A b \in Boards : saved'[b] = IF b = click[r].board THEN saved[b] \ {m} ELSE saved[b]
        /\ uneven' = uneven \cup (IF m \in saved[click[r].board] THEN {} ELSE {m})
    BY <1>0, <1>2, <1>7, <1>11 DEF RemoveItem
  <2>3. ReadingTypes' BY <1>2, <1>3, <2>1, <2>2 DEF ReadingTypes, profileVars
  <2>4. m \notin uneven' => m \notin uneven /\ saves[m] = 1
    <3>1. m \in saved[click[r].board] => Due(m) = 1 BY <1>2 DEF Due, Savers
    <3> QED BY <1>4, <1>11, <2>2, <3>1 DEF RemoveItem
  <2>5. \A n \in Articles \ {m} : \A b \in Boards : n \in saved'[b] <=> n \in saved[b] BY <2>2
  <2>6. uneven \subseteq uneven' BY <2>2
  <2>7. SavesInv'
    BY <1>0, <1>2, <1>4, <2>1, <2>2, <2>4, <2>5, <2>6, OneCounts DEF Counting
  <2> QED BY <1>3, <1>6, <2>1, <2>3, <2>7, ProfileStays
<1>12. CASE Still(r)
  <2>1. PICK to : to \in {"idle", "uncount"} /\ Goto(r, to) /\ (to = "uncount" <=> Savers(m) = {})
    BY <1>0, <1>12 DEF Still, StillSaved
  <2>2. /\ click' \in [Clicks -> Click] /\ \A q \in Clicks : ClickOK(click'[q])
        /\ click'[r].pc = to /\ click'[r].article = m
        /\ \A q \in Clicks \ {r} : click'[q] = click[q]
    BY <1>0, <1>1, <1>5, <2>1, GotoIs DEF Counting
  <2>3. UNCHANGED <<saved, saves, uneven>> BY <1>12 DEF Still
  <2>4. Savers(m)' = Savers(m) /\ Due(m)' = Due(m) BY <2>3 DEF Savers, Due
  <2>5. ReadingTypes' BY <1>3, <2>2, <2>3 DEF ReadingTypes, profileVars
  <2>6. m \notin uneven => saves[m] = 1 BY <1>4, <1>12 DEF Still
  <2>7. SavesInv'
    BY <1>0, <1>2, <1>4, <2>1, <2>2, <2>3, <2>4, <2>6, OneCounts DEF Counting, Due
  <2> QED BY <1>3, <1>6, <2>1, <2>2, <2>5, <2>7, ProfileStays
<1>13. CASE Uncount(r)
  <2>1. /\ click' \in [Clicks -> Click] /\ \A q \in Clicks : ClickOK(click'[q])
        /\ click'[r].pc = "idle" /\ \A q \in Clicks \ {r} : click'[q] = click[q]
    BY <1>13, OverIs DEF Uncount
  <2>2. UNCHANGED <<saved, uneven>> /\ saves' = [saves EXCEPT ![m] = @ - 1] BY <1>0, <1>13 DEF Uncount
  <2>3. /\ saves' \in [Articles -> Int] /\ saves'[m] = saves[m] - 1
        /\ \A n \in Articles \ {m} : saves'[n] = saves[n]
    BY <1>2, <1>7, <2>2
  <2>4. ReadingTypes' BY <1>3, <2>1, <2>2, <2>3 DEF ReadingTypes, profileVars
  <2>5. m \notin uneven => saves[m] = 1 /\ Savers(m) = {} BY <1>4, <1>13 DEF Uncount
  <2>6. SavesInv'
    <3> SUFFICES ASSUME NEW n \in Articles \ uneven' PROVE Counted(n)' BY DEF SavesInv
    <3>1. Counted(n) BY <2>2 DEF SavesInv
    <3>2. ~Counts(r, n)' BY <2>1 DEF Counts, Counting
    <3>3. CASE n # m
      <4>1. ~Counts(r, n) BY <1>0, <3>3 DEF Counts
      <4> QED BY <2>1, <2>2, <2>3, <3>1, <3>2, <3>3, <4>1, OthersCounted
    <3>4. CASE n = m
      <4>1. \A q \in Clicks : ~Counts(q, n)' BY <1>4, <2>1, <2>2, <3>2, <3>4 DEF Counts
      <4>2. saves'[n] = 0 /\ Due(n)' = 0 BY <2>2, <2>3, <2>5, <3>4 DEF Due, Savers
      <4> QED BY <4>1, <4>2 DEF Counted
    <3> QED BY <3>3, <3>4
  <2> QED BY <1>3, <1>6, <2>1, <2>4, <2>6, ProfileStays
<1> QED BY <1>8, <1>9, <1>10, <1>11, <1>12, <1>13

\* The cached copy goes, or stays and is known to be out of date.
LEMMA DeleteIs ==
    ASSUME ReadingTypes, Delete
    PROVE  /\ kept' \in Profiles \cup {Nothing} /\ outdated' \in BOOLEAN
           /\ kept' # Nothing => outdated' = TRUE
           /\ kept' # Nothing => kept' = kept
           /\ outdated => outdated'
  BY DEF ReadingTypes, Delete

LEMMA FailKeeps ==
    ASSUME ReadingTypes, SavesInv, ProfileInv, NEW r \in Clicks, Fail(r)
    PROVE  ReadingTypes' /\ SavesInv' /\ ProfileInv'
<1>1. /\ click' \in [Clicks -> Click] /\ \A q \in Clicks : ClickOK(click'[q])
      /\ click'[r].pc = "idle" /\ \A q \in Clicks \ {r} : click'[q] = click[q]
  BY OverIs DEF Fail
<1>2. /\ UNCHANGED <<saved, saves, profile, kept, getter, following, recomputes, worker, synced, raced>>
      /\ uneven' = uneven \cup {n \in {click[r].article} : click[r].pc \in Counting}
      /\ dropped' = (dropped \/ click[r].pc \in {"uncache", "enqueue"})
      /\ outdated' = (outdated \/ click[r].pc = "uncache")
      /\ click[r].pc # "idle"
  BY DEF Fail
<1>3. click[r].article \in Articles BY <1>2 DEF ReadingTypes, ClickOK
<1>4. ReadingTypes' BY <1>1, <1>2, <1>3 DEF ReadingTypes
<1>5. SavesInv' BY <1>1, <1>2, SavesStay DEF Counting
<1>6. Writing' \subseteq Writing /\ \A q \in Writing' : click'[q] = click[q] BY <1>1 DEF Writing
<1>7. Recomputing' = Recomputing BY <1>2 DEF Recomputing
<1>8. ~raced => OneWriter' BY <1>2, <1>6 DEF OneWriter, ProfileInv
<1>9. ~raced /\ ~dropped' => StaleHasCure' /\ CoinsHaveCure' /\ CopyHasCure'
  <2> SUFFICES ASSUME ~raced, ~dropped' PROVE StaleHasCure' /\ CoinsHaveCure' /\ CopyHasCure'
    OBVIOUS
  <2>1. StaleHasCure /\ CoinsHaveCure /\ CopyHasCure BY <1>2 DEF ProfileInv
  <2>2. (\E q \in Clicks : click[q].pc \in {"uncache", "enqueue"}) =>
          \E q \in Clicks : click'[q].pc \in {"uncache", "enqueue"}
    BY <1>1, <1>2
  <2>3. (\E q \in Clicks : click[q].pc = "uncache") => \E q \in Clicks : click'[q].pc = "uncache"
    BY <1>1, <1>2
  <2> QED BY <1>2, <1>7, <2>1, <2>2, <2>3 DEF StaleHasCure, CoinsHaveCure, CopyHasCure
<1>10. ProfileInv' BY <1>2, <1>8, <1>9 DEF ProfileInv
<1> QED BY <1>4, <1>5, <1>10

LEMMA SyncKeeps ==
    ASSUME ReadingTypes, SavesInv, ProfileInv, NEW r \in Clicks,
           SyncRead(r) \/ SyncMerge(r) \/ SyncDelete(r) \/ Enqueue(r)
    PROVE  ReadingTypes' /\ SavesInv' /\ ProfileInv'
<1>0. click[r].pc \in {"sync", "merge", "uncache", "enqueue"} /\ UNCHANGED <<saved, saves, uneven>>
  BY DEF SyncRead, SyncMerge, SyncDelete, Enqueue
<1>1. /\ click[r] \in Click /\ ClickOK(click[r]) /\ click[r].article \in Articles
      /\ click[r].board \in Boards
  BY <1>0 DEF ReadingTypes, ClickOK
<1>2. CASE SyncRead(r)
  <2>1. PICK n : n = [click[r] EXCEPT !.pc = "merge", !.seen = profile] OBVIOUS
  <2>2. /\ n = [pc |-> "merge", board |-> click[r].board, article |-> click[r].article, seen |-> profile]
        /\ click' = [click EXCEPT ![r] = n]
    BY <1>1, <1>2, <2>1 DEF SyncRead, Click
  <2>3. ClickOK(n) BY <1>1, <2>2 DEF ClickOK, Click, ClickPc, ReadingTypes
  <2>4. /\ click' \in [Clicks -> Click] /\ \A q \in Clicks : ClickOK(click'[q])
        /\ click'[r] = n /\ \A q \in Clicks \ {r} : click'[q] = click[q]
    BY <2>2, <2>3, ClickBecomes
  <2>5. /\ UNCHANGED <<profile, kept, getter, following, recomputes, worker, synced, dropped, outdated>>
        /\ raced' = (raced \/ Writing # {} \/ worker.pc = "write") /\ click[r].pc = "sync"
    BY <1>2 DEF SyncRead
  <2>6. ReadingTypes' BY <1>0, <2>4, <2>5 DEF ReadingTypes
  <2>7. SavesInv' BY <1>0, <2>2, <2>4, <2>5, SavesStay DEF Counting
  <2>8. Writing' = Writing \cup {r} BY <2>2, <2>4 DEF Writing
  <2>9. ~raced' => OneWriter' BY <2>2, <2>4, <2>5, <2>8 DEF ProfileInv, OneWriter
  <2>10. Recomputing' = Recomputing BY <2>5 DEF Recomputing
  <2>11. \A q \in Clicks : click[q].pc \in {"uncache", "enqueue"} => click'[q] = click[q]
    BY <2>4, <2>5
  <2>12. ~raced' /\ ~dropped' => StaleHasCure' /\ CoinsHaveCure' /\ CopyHasCure'
    BY <2>5, <2>10, <2>11 DEF ProfileInv, StaleHasCure, CoinsHaveCure, CopyHasCure
  <2> QED BY <2>6, <2>7, <2>9, <2>12 DEF ProfileInv
<1>3. CASE SyncMerge(r)
  <2>1. PICK n : n = [click[r] EXCEPT !.pc = "uncache", !.seen = Nothing] OBVIOUS
  <2>2. /\ n = [pc |-> "uncache", board |-> click[r].board, article |-> click[r].article, seen |-> Nothing]
        /\ click' = [click EXCEPT ![r] = n]
    BY <1>1, <1>3, <2>1 DEF SyncMerge, Click
  <2>3. ClickOK(n) BY <1>1, <2>2 DEF ClickOK, Click, ClickPc
  <2>4. /\ click' \in [Clicks -> Click] /\ \A q \in Clicks : ClickOK(click'[q])
        /\ click'[r] = n /\ \A q \in Clicks \ {r} : click'[q] = click[q]
    BY <2>2, <2>3, ClickBecomes
  <2>5. /\ UNCHANGED <<kept, getter, following, recomputes, worker, raced, dropped, outdated>>
        /\ synced' = synced \cup {click[r].article} /\ click[r].pc = "merge"
    BY <1>3 DEF SyncMerge
  <2>6. /\ click[r].seen \in Profiles /\ profile \in Profiles
    BY <1>1, <2>5 DEF ClickOK, ReadingTypes
  <2>7. /\ profile' \in Profiles /\ profile'.coins = profile.coins
        /\ profile'.signals = click[r].seen.signals \cup {click[r].article}
    <3>1. profile' = [signals |-> click[r].seen.signals \cup {click[r].article},
                      coins |-> profile.coins, stale |-> TRUE]
      BY <1>3, <2>6 DEF SyncMerge, Profiles
    <3> QED BY <1>1, <2>6, <3>1 DEF Profiles
  <2>8. ReadingTypes' BY <1>0, <1>1, <2>4, <2>5, <2>7 DEF ReadingTypes
  <2>9. SavesInv' BY <1>0, <2>2, <2>4, <2>5, SavesStay DEF Counting
  <2>10. Writing' = Writing \ {r} /\ r \in Writing BY <2>2, <2>4, <2>5 DEF Writing
  <2>11. ~raced' => OneWriter'
    <3> SUFFICES ASSUME ~raced PROVE OneWriter' BY <2>5
    <3>1. OneWriter BY DEF ProfileInv
    <3>2. Writing' = {} /\ worker'.pc # "write" BY <2>5, <2>10, <3>1 DEF OneWriter
    <3> QED BY <2>5, <2>7, <2>10, <3>1, <3>2 DEF OneWriter
  <2>12. Recomputing' = Recomputing BY <2>5 DEF Recomputing
  <2>13. click'[r].pc = "uncache" BY <2>2, <2>4
  <2>14. ~raced' /\ ~dropped' => StaleHasCure' /\ CoinsHaveCure' /\ CopyHasCure'
    BY <2>5, <2>7, <2>12, <2>13 DEF ProfileInv, StaleHasCure, CoinsHaveCure, CopyHasCure
  <2> QED BY <2>8, <2>9, <2>11, <2>14 DEF ProfileInv
<1>4. CASE SyncDelete(r)
  <2>1. /\ click' \in [Clicks -> Click] /\ \A q \in Clicks : ClickOK(click'[q])
        /\ click'[r].pc = "enqueue" /\ \A q \in Clicks \ {r} : click'[q] = click[q]
    BY <1>0, <1>4, GotoIs DEF SyncDelete, ClickPc
  <2>2. /\ UNCHANGED <<profile, getter, following, recomputes, worker, synced, raced, dropped>>
        /\ Delete /\ click[r].pc = "uncache"
    BY <1>4 DEF SyncDelete
  <2>3. ReadingTypes' BY <1>0, <2>1, <2>2, DeleteIs DEF ReadingTypes
  <2>4. SavesInv' BY <1>0, <2>1, <2>2, SavesStay DEF Counting
  <2>5. Writing' = Writing /\ Recomputing' = Recomputing /\ \A q \in Writing : click'[q] = click[q]
    BY <2>1, <2>2 DEF Writing, Recomputing
  <2>6. ~raced' => OneWriter' BY <2>2, <2>5 DEF ProfileInv, OneWriter
  <2>7. CopyHasCure' BY <2>2, DeleteIs DEF CopyHasCure
  <2>8. ~raced' /\ ~dropped' => StaleHasCure' /\ CoinsHaveCure'
    BY <2>1, <2>2, <2>5 DEF ProfileInv, StaleHasCure, CoinsHaveCure
  <2> QED BY <2>3, <2>4, <2>6, <2>7, <2>8 DEF ProfileInv
<1>5. CASE Enqueue(r)
  <2>1. /\ click' \in [Clicks -> Click] /\ \A q \in Clicks : ClickOK(click'[q])
        /\ click'[r].pc = "idle" /\ \A q \in Clicks \ {r} : click'[q] = click[q]
    BY <1>5, OverIs DEF Enqueue
  <2>2. /\ UNCHANGED <<profile, kept, getter, following, worker, synced, raced, dropped, outdated>>
        /\ recomputes' = recomputes + 1 /\ click[r].pc = "enqueue" /\ recomputes \in Nat
    BY <1>5 DEF Enqueue, ReadingTypes
  <2>3. ReadingTypes' BY <1>0, <2>1, <2>2 DEF ReadingTypes
  <2>4. SavesInv' BY <1>0, <2>1, <2>2, SavesStay DEF Counting
  <2>5. Writing' = Writing /\ Recomputing' = Recomputing /\ \A q \in Writing : click'[q] = click[q]
    BY <2>1, <2>2 DEF Writing, Recomputing
  <2>6. ~raced' => OneWriter' BY <2>2, <2>5 DEF ProfileInv, OneWriter
  <2>7. StaleHasCure' /\ CoinsHaveCure' BY <2>2 DEF StaleHasCure, CoinsHaveCure
  <2>8. ~raced' /\ ~dropped' => CopyHasCure'
    <3>1. \A q \in Clicks : click[q].pc = "uncache" => click'[q] = click[q] BY <2>1, <2>2
    <3> QED BY <2>2, <3>1 DEF ProfileInv, CopyHasCure
  <2> QED BY <2>3, <2>4, <2>6, <2>7, <2>8 DEF ProfileInv
<1> QED BY <1>2, <1>3, <1>4, <1>5

\* The worker and the readers.
LEMMA WorkerKeeps ==
    ASSUME ReadingTypes, SavesInv, ProfileInv,
           \/ Follow \/ Gather \/ ReadProfile \/ WriteProfile \/ DeleteCopy \/ WorkerFails
           \/ MissProfile \/ FillProfile
    PROVE  ReadingTypes' /\ SavesInv' /\ ProfileInv'
<1>1. UNCHANGED <<saved, saves, click, uneven, synced>>
  BY DEF Follow, Gather, ReadProfile, WriteProfile, DeleteCopy, WorkerFails, MissProfile,
         FillProfile, boardVars
<1>2. Writing' = Writing BY <1>1 DEF Writing
<1>3. SavesInv' BY <1>1 DEF SavesInv, Counted, Counts, Due, Savers
<1>4. recomputes \in Nat /\ raced \in BOOLEAN /\ dropped \in BOOLEAN /\ outdated \in BOOLEAN
  BY DEF ReadingTypes
<1>5. CASE Follow
  <2>1. /\ UNCHANGED <<profile, kept, getter, worker, raced, dropped, outdated>>
        /\ recomputes' = recomputes + 1 /\ following' \in BOOLEAN
    BY <1>5 DEF Follow
  <2>2. ReadingTypes' BY <1>1, <1>4, <2>1 DEF ReadingTypes
  <2>3. recomputes' > 0 BY <1>4, <2>1
  <2>4. StaleHasCure' /\ CoinsHaveCure' BY <1>4, <2>1, <2>3 DEF StaleHasCure, CoinsHaveCure
  <2> QED BY <1>1, <1>2, <1>3, <2>1, <2>2, <2>4 DEF ProfileInv, OneWriter, CopyHasCure
<1>6. CASE Gather
  <2>1. /\ UNCHANGED <<profile, kept, getter, following, raced, dropped, outdated>>
        /\ recomputes > 0 /\ recomputes' = recomputes - 1 /\ worker = Resting
        /\ worker' = [worker EXCEPT !.pc = "read", !.coins = following]
    BY <1>6 DEF Gather
  <2>2. worker' = [pc |-> "read", coins |-> following, seen |-> Nothing] BY <2>1 DEF Resting
  <2>3. ReadingTypes' BY <1>1, <1>4, <2>1, <2>2 DEF ReadingTypes
  <2>4. Recomputing' /\ worker.pc = "idle" BY <2>1, <2>2 DEF Recomputing, Resting
  <2>5. StaleHasCure' /\ CoinsHaveCure' BY <2>1, <2>2, <2>4 DEF StaleHasCure, CoinsHaveCure
  <2> QED BY <1>1, <1>2, <1>3, <2>1, <2>2, <2>3, <2>4, <2>5 DEF ProfileInv, OneWriter, CopyHasCure
<1>7. CASE ReadProfile
  <2>1. /\ UNCHANGED <<profile, kept, getter, following, recomputes, dropped, outdated>>
        /\ raced' = (raced \/ Writing # {}) /\ worker.pc = "read"
        /\ worker' = [worker EXCEPT !.pc = "write", !.seen = profile]
    BY <1>7 DEF ReadProfile
  <2>2. worker' = [pc |-> "write", coins |-> worker.coins, seen |-> profile] BY <2>1 DEF ReadingTypes
  <2>3. ReadingTypes'
    <3>1. profile \in Profiles /\ worker.coins \in BOOLEAN BY DEF ReadingTypes
    <3> QED BY <1>1, <1>4, <2>1, <2>2, <3>1 DEF ReadingTypes
  <2>4. Recomputing' /\ Recomputing BY <2>1, <2>2 DEF Recomputing
  <2>5. ~raced' => OneWriter' BY <1>1, <1>2, <2>1, <2>2 DEF ProfileInv, OneWriter
  <2> QED BY <1>1, <1>2, <1>3, <2>1, <2>2, <2>3, <2>4, <2>5
          DEF ProfileInv, StaleHasCure, CoinsHaveCure, CopyHasCure
<1>8. CASE WriteProfile
  <2>1. /\ UNCHANGED <<kept, getter, following, recomputes, raced, dropped, outdated>>
        /\ worker.pc = "write" /\ profile' = Recomputed(worker)
        /\ worker' = [Resting EXCEPT !.pc = "uncache"]
    BY <1>8 DEF WriteProfile
  <2>2. worker' = [pc |-> "uncache", coins |-> FALSE, seen |-> Nothing] BY <2>1 DEF Resting
  <2>3. /\ profile' = [signals |-> worker.seen.signals, coins |-> worker.coins, stale |-> FALSE]
        /\ profile' \in Profiles
    BY <2>1 DEF Recomputed, ReadingTypes, Profiles
  <2>4. ReadingTypes'
    <3>1. /\ worker'.pc = "uncache" /\ worker' \in [pc : {"idle", "read", "write", "uncache"}, coins : BOOLEAN,
                                                   seen : Profiles \cup {Nothing}]
      BY <2>2
    <3> QED BY <1>1, <1>4, <2>1, <2>3, <3>1 DEF ReadingTypes
  <2>5. ~Recomputing' /\ Recomputing BY <2>1, <2>2 DEF Recomputing
  <2>6. ~raced' => OneWriter' BY <1>1, <1>2, <2>1, <2>2, <2>3 DEF ProfileInv, OneWriter
  <2> QED BY <1>1, <1>2, <1>3, <2>1, <2>2, <2>3, <2>4, <2>5, <2>6
          DEF ProfileInv, StaleHasCure, CoinsHaveCure, CopyHasCure
<1>9. CASE DeleteCopy
  <2>1. /\ UNCHANGED <<profile, getter, following, recomputes, raced, dropped>>
        /\ worker.pc = "uncache" /\ worker' = Resting /\ Delete
    BY <1>9 DEF DeleteCopy
  <2>2. worker' = [pc |-> "idle", coins |-> FALSE, seen |-> Nothing] BY <2>1 DEF Resting
  <2>3. ReadingTypes'
    <3>1. /\ worker'.pc = "idle" /\ worker' \in [pc : {"idle", "read", "write", "uncache"}, coins : BOOLEAN,
                                                 seen : Profiles \cup {Nothing}]
      BY <2>2
    <3>2. kept' \in Profiles \cup {Nothing} /\ outdated' \in BOOLEAN BY <2>1, DeleteIs
    <3> QED BY <1>1, <1>4, <2>1, <3>1, <3>2 DEF ReadingTypes
  <2>4. ~Recomputing' /\ ~Recomputing BY <2>1, <2>2 DEF Recomputing
  <2>5. ~raced' => OneWriter' BY <1>1, <1>2, <2>1, <2>2 DEF ProfileInv, OneWriter
  <2>6. CopyHasCure' BY <2>1, DeleteIs DEF CopyHasCure
  <2> QED BY <1>1, <1>2, <1>3, <2>1, <2>2, <2>3, <2>4, <2>5, <2>6
          DEF ProfileInv, StaleHasCure, CoinsHaveCure
<1>10. CASE WorkerFails
  <2>1. /\ UNCHANGED <<profile, kept, getter, following, recomputes, raced>>
        /\ worker' = Resting /\ worker # Resting
        /\ dropped' = (dropped \/ worker.pc # "uncache")
        /\ outdated' = (outdated \/ worker.pc = "uncache")
    BY <1>10 DEF WorkerFails
  <2>2. worker' = [pc |-> "idle", coins |-> FALSE, seen |-> Nothing] BY <2>1 DEF Resting
  <2>3. ReadingTypes' BY <1>1, <1>4, <2>1, <2>2 DEF ReadingTypes
  <2>4. ~Recomputing' /\ (~dropped' => ~Recomputing /\ ~dropped)
    <3>1. worker'.pc = "idle" BY <2>2
    <3>2. CASE worker.pc = "uncache" BY <2>1, <3>1, <3>2 DEF Recomputing
    <3>3. CASE worker.pc # "uncache" BY <2>1, <3>1, <3>3 DEF Recomputing
    <3> QED BY <3>2, <3>3
  <2>5. ~raced' => OneWriter' BY <1>1, <1>2, <2>1, <2>2 DEF ProfileInv, OneWriter
  <2> QED BY <1>1, <1>2, <1>3, <2>1, <2>2, <2>3, <2>4, <2>5
          DEF ProfileInv, StaleHasCure, CoinsHaveCure, CopyHasCure
<1>11. CASE MissProfile
  <2>1. UNCHANGED <<profile, kept, following, recomputes, worker, raced, dropped, outdated>> /\ getter' = profile
    BY <1>11 DEF MissProfile
  <2>2. ReadingTypes' BY <1>1, <2>1 DEF ReadingTypes
  <2> QED BY <1>1, <1>2, <1>3, <2>1, <2>2
          DEF ProfileInv, OneWriter, StaleHasCure, CoinsHaveCure, CopyHasCure, Recomputing
<1>12. CASE FillProfile
  <2>1. /\ UNCHANGED <<profile, following, recomputes, worker, raced, dropped>>
        /\ getter' = Nothing /\ kept' = getter /\ outdated' = (getter # profile)
    BY <1>12 DEF FillProfile
  <2>2. ReadingTypes' BY <1>1, <2>1 DEF ReadingTypes
  <2> QED BY <1>1, <1>2, <1>3, <2>1, <2>2
          DEF ProfileInv, OneWriter, StaleHasCure, CoinsHaveCure, CopyHasCure, Recomputing
<1> QED BY <1>5, <1>6, <1>7, <1>8, <1>9, <1>10, <1>11, <1>12

LEMMA ReadingKeeps ==
    ASSUME ReadingTypes, SavesInv, ProfileInv, ReadingNext
    PROVE  ReadingTypes' /\ SavesInv' /\ ProfileInv'
  BY BeginsKeep, CountingKeeps, FailKeeps, SyncKeeps, WorkerKeeps DEF ReadingNext, BoardNext

(* What an administrator or a reader changed                                 *)

SettingsInv ==
  /\ part = "config" => ConfigTypes /\ ConfigInv
  /\ part = "flags" => FlagTypes /\ FlagInv
  /\ part \in {"boards", "profile"} => ReadingTypes /\ SavesInv /\ ProfileInv

LEMMA SettingsInit ==
    ASSUME SwitchInit, ReadingInit
    PROVE  /\ ConfigTypes /\ ConfigInv /\ FlagTypes /\ FlagInv
           /\ ReadingTypes /\ SavesInv /\ ProfileInv
<1>1. ConfigTypes
  <2>1. Idle \in ConfigCall BY IdleIs DEF ConfigCall, CallPc
  <2> QED BY <2>1, IdleIs, DefaultsIs DEF SwitchInit, ConfigTypes
<1>2. ConfigInv
  <2>1. SwitchedOn = Options BY DEF SwitchInit, SwitchedOn
  <2> QED BY <2>1, IdleIs DEF SwitchInit, ConfigInv, InForce
<1>3. FlagTypes
  <2>1. PICK target \in Flags : flag = [active |-> TRUE, stamp |-> 0, toggles |-> 0, target |-> target]
    BY DEF SwitchInit
  <2>2. flag \in FlagDocs BY <2>1 DEF FlagDocs
  <2> QED BY <2>2 DEF SwitchInit, FlagTypes
<1>4. FlagInv
  <2>1. Toggles = {} BY DEF SwitchInit, Toggles
  <2> QED BY <2>1 DEF SwitchInit, FlagInv
<1>5. ReadingTypes
  <2>1. ClickOK(Waiting) BY DEF ClickOK, Click, ClickPc, Waiting
  <2>2. Fresh \in Profiles BY DEF Fresh, Profiles
  <2>3. /\ Resting.pc = "idle" /\ Resting \in [pc : {"idle", "read", "write", "uncache"},
                                               coins : BOOLEAN, seen : Profiles \cup {Nothing}]
    BY DEF Resting
  <2>4. click \in [Clicks -> Click] /\ \A r \in Clicks : ClickOK(click[r])
    <3>1. Waiting \in Click BY <2>1 DEF ClickOK
    <3> QED BY <2>1, <3>1 DEF ReadingInit
  <2>5. saved \in [Boards -> SUBSET Articles] /\ saves \in [Articles -> Int]
    BY DEF ReadingInit
  <2> QED BY <2>2, <2>3, <2>4, <2>5 DEF ReadingInit, ReadingTypes
<1>6. SavesInv
  <2>1. \A n \in Articles : Savers(n) = {} /\ \A r \in Clicks : ~Counts(r, n)
    BY DEF ReadingInit, Savers, Counts, Counting, Waiting
  <2> QED BY <2>1 DEF ReadingInit, SavesInv, Counted, Due
<1>7. ProfileInv
  <2>1. Writing = {} /\ ~Recomputing /\ worker.pc = "idle"
    BY DEF ReadingInit, Writing, Waiting, Recomputing, Resting
  <2> QED BY <2>1
        DEF ReadingInit, ProfileInv, OneWriter, StaleHasCure, CoinsHaveCure, CopyHasCure, Fresh
<1> QED BY <1>1, <1>2, <1>3, <1>4, <1>5, <1>6, <1>7

LEMMA SettingsStep ==
    ASSUME SettingsInv, [Next]_vars
    PROVE  SettingsInv'
<1>1. CASE part = "config" /\ ConfigNext
  BY <1>1, PartStays, ConfigNextTypes, ConfigKeeps DEF SettingsInv
<1>2. CASE part = "flags" /\ FlagNext BY <1>2, PartStays, FlagKeeps DEF SettingsInv
<1>3. CASE part \in {"boards", "profile"} /\ ReadingNext
  BY <1>3, PartStays, ReadingKeeps DEF SettingsInv
<1>4. CASE part \in {"config", "flags"} /\ UNCHANGED switchVars
  <2>1. ConfigTypes /\ ConfigInv => ConfigTypes' /\ ConfigInv'
    BY <1>4 DEF switchVars, configVars, ConfigTypes, ConfigInv, InForce, SwitchedOn
  <2>2. FlagTypes /\ FlagInv => FlagTypes' /\ FlagInv'
    BY <1>4 DEF switchVars, flagVars, FlagTypes, FlagInv, Toggles, Toggled
  <2> QED BY <1>4, <2>1, <2>2, PartStays DEF SettingsInv
<1>5. CASE part \in {"boards", "profile"} /\ UNCHANGED readingVars
  <2>1. ReadingTypes /\ SavesInv /\ ProfileInv => ReadingTypes' /\ SavesInv' /\ ProfileInv'
    BY <1>5 DEF readingVars, boardVars, profileVars, ReadingTypes, SavesInv, Counted, Counts, Due,
       Savers, ProfileInv, OneWriter, StaleHasCure, CoinsHaveCure, CopyHasCure, Writing, Recomputing
  <2> QED BY <1>5, <2>1, PartStays DEF SettingsInv
<1>6. CASE part \notin {"config", "flags", "boards", "profile"} BY <1>6, PartStays DEF SettingsInv
<1> QED BY <1>1, <1>2, <1>3, <1>4, <1>5, <1>6, PartStays

\* What an administrator or a reader changed stays changed, for any number of
\* processes, administrators and requests: a patched switch is in force until
\* it is patched again, a feature's audited toggles are a chain, an article is
\* counted once for its reader, and the profile keeps each signal - unless one
\* of the overlaps and failures named in the properties came between.
THEOREM SettingsPersist == Spec => []SettingsStay
<1>1. Init => SettingsInv
  BY SettingsInit DEF Init, SettingsInv
<1>2. SettingsInv /\ [Next]_vars => SettingsInv'
  BY SettingsStep
<1>3. SettingsInv => SettingsStay
  <2> SUFFICES ASSUME SettingsInv PROVE SettingsStay OBVIOUS
  <2>1. ASSUME ConfigInv PROVE SwitchesStay
    BY <2>1 DEF ConfigInv, InForce, SwitchesStay, SwitchedOn
  <2>2. ASSUME FlagInv PROVE FlagsAreTraceable
    BY <2>2 DEF FlagInv, Toggles, FlagsAreTraceable
  <2>3. ASSUME SavesInv PROVE SavesAreCounted
    BY <2>3 DEF SavesInv, Counted, Counts, Due, SavesAreCounted
  <2>4. ASSUME ReadingTypes, ProfileInv PROVE ProfileRemembers
    <3>1. worker = Resting => ~Recomputing /\ worker.pc # "uncache" BY DEF Recomputing, Resting
    <3>2. recomputes = 0 => ~(recomputes > 0) OBVIOUS
    <3> QED BY <2>4, <3>1, <3>2
          DEF ProfileInv, OneWriter, StaleHasCure, CoinsHaveCure, CopyHasCure, ProfileRemembers
  <2> QED BY <2>1, <2>2, <2>3, <2>4 DEF SettingsInv, SettingsStay
<1> QED BY <1>1, <1>2, <1>3, PTL DEF Spec

(* Accounts                                                                  *)

EntryKinds == {"signup", "google", "login"}
FollowKinds == {"complete", "toggle", "follow"}
SessionPc == {"over", "email", "handle", "create", "verify", "onboarded", "token", "migrate",
              "follow", "unfollow", "mirror", "deregister", "recount", "purge", "erase"}
SessionDocs ==
  [pc : SessionPc, kind : EntryKinds \cup FollowKinds \cup {"delete", "none"},
   person : People \cup {NoAccount}, id : Nat, handle : Handles \cup {NoAccount},
   verified : BOOLEAN, coins : SUBSET Followables]

\* What a request knows at each of its calls.
AtCall(k) ==
  /\ k.pc = "over" => k = Ended
  /\ k.pc # "over" => k.person \in People
  /\ k.pc = "email" => k.kind \in EntryKinds /\ (k.kind # "login" => k.handle \in Handles)
  /\ k.pc \in {"handle", "create"} => k.kind \in {"signup", "google"} /\ k.handle \in Handles
  /\ k.pc \in {"email", "handle", "create"} => k.id = 0
  /\ k.pc \in {"verify", "onboarded", "token"} => k.kind \in EntryKinds
  /\ k.pc = "migrate" => k.kind \in EntryKinds \cup {"complete"}
  /\ k.pc = "follow" => k.kind \in FollowKinds
  /\ k.pc = "unfollow" => k.kind \in {"toggle", "follow"}
  /\ k.pc = "mirror" => k.kind \in {"complete", "toggle"}
  /\ k.pc \in {"deregister", "recount", "purge", "erase"} <=> k.kind = "delete"
  /\ k.kind = "complete" => ~k.verified
  /\ k.pc \notin {"over", "email", "handle", "create"} => k.id > 0

AccountTypes ==
  /\ accounts \in [People -> AccountDocs \cup {NoAccount}] /\ lastUser \in Nat
  /\ tokens \subseteq [person : People, id : 1..lastUser, verified : BOOLEAN]
  /\ followed \subseteq (1..lastUser) \X Followables
  /\ live \subseteq (1..lastUser) \X (1..stimuli) /\ tombs \subseteq (1..lastUser) \X (1..stimuli)
  /\ wallets \subseteq 1..lastUser /\ watched \subseteq 1..lastUser
  /\ IsFiniteSet(live) /\ IsFiniteSet(tombs) /\ tally \in Int /\ unbalanced \in BOOLEAN
  /\ session \in [Sessions -> SessionDocs]
  /\ \A r \in Sessions : AtCall(session[r]) /\ session[r].id <= lastUser
  /\ \A p \in People : accounts[p] # NoAccount => accounts[p].id \in 1..lastUser

\* An id is one person's, wherever it is written.
Claims ==
  {<<accounts[p].id, p>> : p \in {q \in People : accounts[q] # NoAccount}}
  \cup {<<t.id, t.person>> : t \in tokens}
  \cup {<<session[r].id, session[r].person>> : r \in {q \in Sessions : session[q].id # 0}}
OneOwner == \A c, d \in Claims : c[1] = d[1] => c[2] = d[2]

\* What is said of an account's e-mail is true of the account.
Vouched == \A p \in People : accounts[p] # NoAccount =>
  /\ \A t \in tokens : t.id = accounts[p].id /\ t.verified => accounts[p].verified
  /\ \A r \in Sessions : session[r].id = accounts[p].id /\ session[r].pc \in {"token", "migrate"}
       /\ session[r].verified => accounts[p].verified
  /\ \A q \in People : accounts[q] # NoAccount /\ accounts[q].handle = accounts[p].handle => q = p

\* An onboarding under way follows enough coins with those it has yet to
\* follow, or has followed enough, unless coins were unfollowed meanwhile.
Onboardings ==
  /\ \A i \in 1..lastUser : Cardinality(Follows(i)) >= MinCoins => i \in enough
  /\ \A r \in Sessions :
       /\ session[r].kind = "complete" /\ session[r].pc = "follow" =>
            \/ session[r].id \in hasty
            \/ Cardinality(Follows(session[r].id) \cup session[r].coins) >= MinCoins
       /\ session[r].pc = "migrate" \/ (session[r].kind = "complete" /\ session[r].pc = "mirror") =>
            session[r].id \in enough \cup hasty
  /\ \A p \in People : accounts[p] # NoAccount /\ accounts[p].onboarded =>
       accounts[p].id \in enough \cup hasty

\* The request that will copy the followed coins to the account.
Copies(r, i) ==
  /\ session[r].id = i /\ session[r].kind \in {"complete", "toggle"}
  /\ session[r].pc \in {"follow", "unfollow", "mirror"}
Copied ==
  /\ \A p \in People : accounts[p] # NoAccount /\ accounts[p].id \notin unmirrored =>
       \/ accounts[p].mirror = Follows(accounts[p].id)
       \/ \E r \in Sessions : Copies(r, accounts[p].id)
  /\ \A r \in Sessions : session[r].kind = "follow" => session[r].id \in unmirrored

\* What a deletion has cleared stays cleared, unless the user wrote since.
Gone(i) == Follows(i) = {} /\ By(i, live \cup tombs) = {} /\ i \notin wallets
Unheard(i) == i \in watched => i \in unheard
Cleared ==
  /\ \A i \in 1..lastUser : i \notin late =>
       /\ i \in watched => i \in wallets \/ i \in unheard
       /\ ~Alive(i) => Gone(i) /\ Unheard(i)
  /\ \A r \in Sessions : session[r].id \notin late =>
       /\ session[r].pc \in {"recount", "purge", "erase"} => Unheard(session[r].id)
       /\ session[r].pc = "erase" => Gone(session[r].id)

\* The article counts what it shows, less what a deletion has counted off.
CountedOff == {c \in live : \E r \in Sessions : session[r].pc = "purge" /\ session[r].id = c[1]}
Tallied == ~unbalanced =>
  /\ \A q, r \in Sessions : session[q].kind = "delete" /\ session[r].kind = "delete"
                            /\ session[q].id = session[r].id => q = r
  /\ late = {} => tally = Cardinality(live \ CountedOff)

AccountInv == OneOwner /\ Vouched /\ Onboardings /\ Copied /\ Cleared /\ Tallied

SameUser(k, n) ==
  /\ n.id = k.id /\ n.person = k.person /\ n.kind = k.kind /\ n.handle = k.handle
  /\ n.verified = k.verified /\ n.coins = k.coins

\* What the other requests know does not change when one goes on.
Moved(r) ==
  /\ session' \in [Sessions -> SessionDocs] /\ \A q \in Sessions : AtCall(session'[q])
  /\ \A q \in Sessions \ {r} : session'[q] = session[q]

LEMMA EndedIs == /\ Ended \in SessionDocs /\ AtCall(Ended) /\ Ended.pc = "over" /\ Ended.kind = "none"
                 /\ Ended.id = 0 /\ Ended.coins = {} /\ Ended.verified = FALSE
  BY DEF Ended, SessionDocs, SessionPc, AtCall, EntryKinds, FollowKinds

LEMMA MovedIs ==
    ASSUME AccountTypes, NEW r \in Sessions, NEW n \in SessionDocs, AtCall(n),
           session' = [session EXCEPT ![r] = n]
    PROVE  Moved(r) /\ session'[r] = n
  BY DEF AccountTypes, Moved

LEMMA EndIs ==
    ASSUME AccountTypes, NEW r \in Sessions, End(r)
    PROVE  Moved(r) /\ session'[r] = Ended
  BY EndedIs, MovedIs DEF End

\* A request that only goes on to another call.
LEMMA GoneOn ==
    ASSUME NEW k \in SessionDocs, NEW pc \in SessionPc, NEW n, n = [k EXCEPT !.pc = pc]
    PROVE  n \in SessionDocs /\ n.pc = pc /\ SameUser(k, n)
<1>1. PICK S, P, H, C : S = EntryKinds \cup FollowKinds \cup {"delete", "none"}
        /\ P = People \cup {NoAccount} /\ H = Handles \cup {NoAccount} /\ C = SUBSET Followables
  OBVIOUS
<1>2. k \in [pc : SessionPc, kind : S, person : P, id : Nat, handle : H, verified : BOOLEAN, coins : C]
  BY <1>1 DEF SessionDocs
<1>3. n \in [pc : SessionPc, kind : S, person : P, id : Nat, handle : H, verified : BOOLEAN, coins : C]
  BY <1>2
<1> QED BY <1>1, <1>2, <1>3 DEF SessionDocs, SameUser

LEMMA GoOnIs ==
    ASSUME AccountTypes, NEW r \in Sessions, NEW pc \in SessionPc, GoOn(r, pc),
           \A n : n.pc = pc /\ SameUser(session[r], n) => AtCall(n)
    PROVE  Moved(r) /\ session'[r].pc = pc /\ SameUser(session[r], session'[r])
<1>1. PICK n : n = [session[r] EXCEPT !.pc = pc] OBVIOUS
<1>2. session[r] \in SessionDocs BY DEF AccountTypes
<1>3. n \in SessionDocs /\ n.pc = pc /\ SameUser(session[r], n) BY <1>1, <1>2, GoneOn
<1>4. session' = [session EXCEPT ![r] = n] BY <1>1 DEF GoOn
<1> QED BY <1>3, <1>4, MovedIs

LEMMA EnterIs ==
    ASSUME AccountTypes, NEW r \in Sessions, NEW p \in People, NEW v \in BOOLEAN,
           NEW kind \in EntryKinds, NEW h, kind # "login" => h \in Handles, kind = "login" => h = NoAccount,
           Enter(r, kind, p, h, v)
    PROVE  /\ Moved(r) /\ session[r] = Ended
           /\ session'[r].pc = "email" /\ session'[r].kind = kind /\ session'[r].id = 0
<1>1. PICK n : n = [Ended EXCEPT !.pc = "email", !.kind = kind, !.person = p, !.handle = h, !.verified = v]
  OBVIOUS
<1>2. n = [pc |-> "email", kind |-> kind, person |-> p, id |-> 0, handle |-> h, verified |-> v, coins |-> {}]
  BY <1>1 DEF Ended
<1>3. n \in SessionDocs BY <1>2 DEF SessionDocs, SessionPc, EntryKinds, FollowKinds
<1>4. AtCall(n) BY <1>2 DEF AtCall, EntryKinds
<1>5. session' = [session EXCEPT ![r] = n] /\ session[r] = Ended BY <1>1 DEF Enter
<1>6. Moved(r) /\ session'[r] = n BY <1>3, <1>4, <1>5, MovedIs
<1>7. n.pc = "email" /\ n.kind = kind /\ n.id = 0 BY <1>2
<1> QED BY <1>5, <1>6, <1>7

LEMMA FindEmailIs ==
    ASSUME AccountTypes, NEW r \in Sessions, FindEmail(r)
    PROVE  /\ Moved(r) /\ session[r].pc = "email" /\ session[r].kind \in EntryKinds /\ session[r].id = 0
           /\ \/ session'[r] = Ended
              \/ session'[r].pc = "handle" /\ SameUser(session[r], session'[r])
              \/ /\ session'[r].pc \in {"verify", "onboarded"} /\ session'[r].kind \in EntryKinds
                 /\ accounts[session[r].person] # NoAccount
                 /\ session'[r].person = session[r].person
                 /\ session'[r].id = accounts[session[r].person].id
<1>1. PICK k, a : k = session[r] /\ k \in SessionDocs /\ AtCall(k) /\ a = accounts[k.person]
  BY DEF AccountTypes
<1>2. /\ k.pc = "email" /\ k.kind \in EntryKinds /\ k.id = 0 /\ k.person \in People
      /\ k.kind # "login" => k.handle \in Handles
  BY <1>1 DEF FindEmail, AtCall
<1>3. CASE End(r) BY <1>1, <1>2, <1>3, EndIs
<1>4. CASE a = NoAccount /\ k.kind # "login" /\ GoOn(r, "handle")
  <2>1. \A n : n.pc = "handle" /\ SameUser(k, n) => AtCall(n)
    BY <1>2, <1>4 DEF AtCall, SameUser, EntryKinds
  <2> QED BY <1>1, <1>2, <1>4, <2>1, GoOnIs DEF SessionPc
<1>5. CASE a # NoAccount /\ session' = [session EXCEPT ![r] = [k EXCEPT !.id = a.id, !.pc =
             IF k.kind = "google" /\ k.verified /\ ~a.verified THEN "verify" ELSE "onboarded"]]
  <2>1. PICK pc : pc = IF k.kind = "google" /\ k.verified /\ ~a.verified THEN "verify" ELSE "onboarded"
    OBVIOUS
  <2>2. PICK n : n = [k EXCEPT !.id = a.id, !.pc = pc] OBVIOUS
  <2>3. a.id \in Nat /\ a.id > 0 BY <1>1, <1>2, <1>5 DEF AccountTypes
  <2>4. n = [pc |-> pc, kind |-> k.kind, person |-> k.person, id |-> a.id, handle |-> k.handle,
             verified |-> k.verified, coins |-> k.coins]
    <3>1. PICK S, P, H, C : S = EntryKinds \cup FollowKinds \cup {"delete", "none"}
            /\ P = People \cup {NoAccount} /\ H = Handles \cup {NoAccount} /\ C = SUBSET Followables
      OBVIOUS
    <3>2. k \in [pc : SessionPc, kind : S, person : P, id : Nat, handle : H, verified : BOOLEAN, coins : C]
      BY <1>1, <3>1 DEF SessionDocs
    <3> QED BY <2>2, <3>2
  <2>5. n \in SessionDocs BY <1>1, <2>1, <2>3, <2>4 DEF SessionDocs, SessionPc
  <2>6. AtCall(n) BY <1>1, <1>2, <2>1, <2>3, <2>4 DEF AtCall, EntryKinds
  <2>7. session' = [session EXCEPT ![r] = n] BY <1>5, <2>1, <2>2
  <2>8. Moved(r) /\ session'[r] = n BY <2>5, <2>6, <2>7, MovedIs
  <2>9. n.pc \in {"verify", "onboarded"} /\ n.kind = k.kind /\ n.person = k.person /\ n.id = a.id
    BY <2>1, <2>4
  <2> QED BY <1>1, <1>2, <1>5, <2>8, <2>9
<1> QED BY <1>1, <1>3, <1>4, <1>5 DEF FindEmail

LEMMA FindHandleIs ==
    ASSUME AccountTypes, NEW r \in Sessions, FindHandle(r)
    PROVE  /\ Moved(r) /\ session[r].pc = "handle" /\ session[r].kind \in EntryKinds /\ session[r].id = 0
           /\ session'[r] = Ended \/ (session'[r].pc = "create" /\ session'[r].kind \in EntryKinds
                                      /\ session'[r].id = 0)
<1>1. PICK k : k = session[r] /\ k \in SessionDocs /\ AtCall(k) BY DEF AccountTypes
<1>2. /\ k.pc = "handle" /\ k.kind \in {"signup", "google"} /\ k.id = 0 /\ k.person \in People
      /\ k.handle \in Handles
  <2>1. session[r].pc = "handle" BY Zenon DEF FindHandle
  <2> QED BY <1>1, <2>1 DEF AtCall
<1>3. ASSUME End(r) PROVE Moved(r) /\ session'[r] = Ended BY <1>3, EndIs
<1>4. ASSUME GoOn(r, "create")
      PROVE  Moved(r) /\ session'[r].pc = "create" /\ session'[r].kind = k.kind /\ session'[r].id = 0
  <2>1. \A n : n.pc = "create" /\ SameUser(k, n) => AtCall(n) BY <1>2 DEF AtCall, SameUser, EntryKinds
  <2> QED BY <1>1, <1>2, <1>4, <2>1, GoOnIs DEF SessionPc, SameUser
<1>5. ASSUME NEW h \in Handles, session' = [session EXCEPT ![r] = [k EXCEPT !.pc = "create", !.handle = h]]
      PROVE  Moved(r) /\ session'[r].pc = "create" /\ session'[r].kind = k.kind /\ session'[r].id = 0
  <2>2. PICK n : n = [k EXCEPT !.pc = "create", !.handle = h] OBVIOUS
  <2>4. n = [pc |-> "create", kind |-> k.kind, person |-> k.person, id |-> k.id, handle |-> h,
             verified |-> k.verified, coins |-> k.coins]
    <3>1. PICK S, P, H, C : S = EntryKinds \cup FollowKinds \cup {"delete", "none"}
            /\ P = People \cup {NoAccount} /\ H = Handles \cup {NoAccount} /\ C = SUBSET Followables
      OBVIOUS
    <3>2. k \in [pc : SessionPc, kind : S, person : P, id : Nat, handle : H, verified : BOOLEAN, coins : C]
      BY <1>1, <3>1 DEF SessionDocs
    <3> QED BY <2>2, <3>2
  <2>5. n \in SessionDocs BY <1>1, <2>4 DEF SessionDocs, SessionPc
  <2>6. AtCall(n) BY <1>1, <1>2, <2>4 DEF AtCall, EntryKinds
  <2>7. session' = [session EXCEPT ![r] = n] BY <1>5, <2>2
  <2>8. Moved(r) /\ session'[r] = n BY <2>5, <2>6, <2>7, MovedIs
  <2> QED BY <1>2, <2>4, <2>8
<1>6. \/ End(r) \/ GoOn(r, "create")
      \/ \E h \in Handles : session' = [session EXCEPT ![r] = [k EXCEPT !.pc = "create", !.handle = h]]
  BY <1>1, Zenon DEF FindHandle
<1>7. k.kind \in EntryKinds BY <1>2 DEF EntryKinds
<1>8. Moved(r) /\ (session'[r] = Ended \/ (session'[r].pc = "create" /\ session'[r].kind = k.kind
                                              /\ session'[r].id = 0))
  BY <1>2, <1>3, <1>4, <1>5, <1>6, Zenon
<1> QED BY <1>1, <1>2, <1>7, <1>8

LEMMA CreateUserIs ==
    ASSUME AccountTypes, NEW r \in Sessions, CreateUser(r)
    PROVE  /\ Moved(r) /\ session[r].pc = "create" /\ session[r].kind \in EntryKinds /\ session[r].id = 0
           /\ \/ session'[r] = Ended /\ UNCHANGED <<accounts, lastUser>>
              \/ \E p \in People :
                   /\ accounts[p] = NoAccount /\ lastUser' = lastUser + 1
                   /\ session'[r].pc = "onboarded" /\ session'[r].kind \in EntryKinds
                   /\ session'[r].person = p /\ session'[r].id = lastUser + 1
                   /\ accounts' \in [People -> AccountDocs \cup {NoAccount}]
                   /\ \A q \in People \ {p} : /\ accounts'[q] = accounts[q]
                                              /\ accounts[q] # NoAccount => accounts[q].handle # accounts'[p].handle
                   /\ accounts'[p] # NoAccount /\ accounts'[p].id = lastUser + 1
                   /\ accounts'[p].mirror = {} /\ ~accounts'[p].onboarded
<1>1. PICK k : k = session[r] /\ k \in SessionDocs /\ AtCall(k) BY DEF AccountTypes
<1>2. /\ k.pc = "create" /\ k.kind \in {"signup", "google"} /\ k.id = 0 /\ k.person \in People
      /\ k.handle \in Handles /\ k.verified \in BOOLEAN
  BY <1>1 DEF CreateUser, AtCall, SessionDocs
<1>3. CASE End(r) /\ UNCHANGED <<accounts, lastUser>> BY <1>1, <1>2, <1>3, EndIs DEF EntryKinds
<1>4. CASE /\ accounts[k.person] = NoAccount
           /\ \A p \in People : accounts[p] # NoAccount => accounts[p].handle # k.handle
           /\ lastUser' = lastUser + 1
           /\ accounts' = [accounts EXCEPT ![k.person] = [id |-> lastUser + 1, handle |-> k.handle,
                verified |-> k.kind = "google" /\ k.verified, onboarded |-> FALSE, mirror |-> {}]]
           /\ session' = [session EXCEPT ![r] = [k EXCEPT !.pc = "onboarded", !.id = lastUser + 1]]
  <2>1. PICK v \in BOOLEAN : v = (k.kind = "google" /\ k.verified) BY <1>2
  <2>2. PICK a : a = [id |-> lastUser + 1, handle |-> k.handle, verified |-> v, onboarded |-> FALSE, mirror |-> {}]
    OBVIOUS
  <2>3. a \in AccountDocs /\ a # NoAccount /\ lastUser + 1 \in Nat /\ lastUser + 1 > 0
    <3>1. lastUser \in Nat BY DEF AccountTypes
    <3>2. a \in AccountDocs BY <1>2, <2>2, <3>1 DEF AccountDocs
    <3> QED BY <3>1, <3>2, AccountAssumption
  <2>4. accounts' = [accounts EXCEPT ![k.person] = a] BY <1>4, <2>1, <2>2
  <2>5. /\ accounts' \in [People -> AccountDocs \cup {NoAccount}] /\ accounts'[k.person] = a
        /\ \A q \in People \ {k.person} : accounts'[q] = accounts[q]
    BY <1>2, <2>3, <2>4 DEF AccountTypes
  <2>6. PICK n : n = [k EXCEPT !.pc = "onboarded", !.id = lastUser + 1] OBVIOUS
  <2>7. n = [pc |-> "onboarded", kind |-> k.kind, person |-> k.person, id |-> lastUser + 1,
             handle |-> k.handle, verified |-> k.verified, coins |-> k.coins]
    <3>1. PICK S, P, H, C : S = EntryKinds \cup FollowKinds \cup {"delete", "none"}
            /\ P = People \cup {NoAccount} /\ H = Handles \cup {NoAccount} /\ C = SUBSET Followables
      OBVIOUS
    <3>2. k \in [pc : SessionPc, kind : S, person : P, id : Nat, handle : H, verified : BOOLEAN, coins : C]
      BY <1>1, <3>1 DEF SessionDocs
    <3> QED BY <2>6, <3>2
  <2>8. n \in SessionDocs BY <1>1, <2>3, <2>7 DEF SessionDocs, SessionPc
  <2>9. AtCall(n) BY <1>1, <1>2, <2>3, <2>7 DEF AtCall, EntryKinds
  <2>10. session' = [session EXCEPT ![r] = n] BY <1>4, <2>6
  <2>11. Moved(r) /\ session'[r] = n BY <2>8, <2>9, <2>10, MovedIs
  <2>12. a.id = lastUser + 1 /\ a.handle = k.handle /\ a.mirror = {} /\ ~a.onboarded BY <2>2
  <2>13. /\ n.pc = "onboarded" /\ n.kind \in EntryKinds /\ n.person = k.person /\ n.id = lastUser + 1
    BY <1>2, <2>7 DEF EntryKinds
  <2>14. \A q \in People \ {k.person} : accounts[q] # NoAccount => accounts[q].handle # accounts'[k.person].handle
    BY <1>4, <2>5, <2>12
  <2>15. k.kind \in EntryKinds BY <1>2 DEF EntryKinds
  <2>16. lastUser' = lastUser + 1 /\ accounts[k.person] = NoAccount BY <1>4
  <2>17. /\ accounts'[k.person] # NoAccount /\ accounts'[k.person].id = lastUser + 1
         /\ accounts'[k.person].mirror = {} /\ ~accounts'[k.person].onboarded
    BY <2>3, <2>5, <2>12
  <2> QED BY <1>1, <1>2, <2>5, <2>11, <2>13, <2>14, <2>15, <2>16, <2>17
<1> QED BY <1>1, <1>3, <1>4 DEF CreateUser

\* One account's document is rewritten.
Rewritten(p) ==
  /\ accounts' \in [People -> AccountDocs \cup {NoAccount}]
  /\ \A q \in People \ {p} : accounts'[q] = accounts[q]
  /\ accounts[p] # NoAccount /\ accounts'[p] # NoAccount
  /\ accounts'[p].id = accounts[p].id /\ accounts'[p].handle = accounts[p].handle
  /\ accounts[p].verified => accounts'[p].verified

LEMMA RewrittenIs ==
    ASSUME AccountTypes, NEW p \in People, accounts[p] # NoAccount,
           NEW b \in AccountDocs, b.id = accounts[p].id, b.handle = accounts[p].handle,
           accounts[p].verified => b.verified, accounts' = [accounts EXCEPT ![p] = b]
    PROVE  Rewritten(p) /\ accounts'[p] = b
<1>1. b # NoAccount BY AccountAssumption
<1>2. accounts' \in [People -> AccountDocs \cup {NoAccount}] /\ accounts'[p] = b
      /\ \A q \in People \ {p} : accounts'[q] = accounts[q]
  BY DEF AccountTypes
<1> QED BY <1>1, <1>2 DEF Rewritten

LEMMA SetVerified ==
    ASSUME NEW a \in AccountDocs, NEW v \in BOOLEAN, NEW b, b = [a EXCEPT !.verified = v]
    PROVE  /\ b \in AccountDocs /\ b.verified = v /\ b.id = a.id /\ b.handle = a.handle
           /\ b.onboarded = a.onboarded /\ b.mirror = a.mirror
<1>1. PICK F, B : F = SUBSET Followables /\ B = BOOLEAN OBVIOUS
<1>2. a \in [id : Nat, handle : Handles, verified : B, onboarded : B, mirror : F] /\ v \in B
  BY <1>1 DEF AccountDocs
<1>3. b \in [id : Nat, handle : Handles, verified : B, onboarded : B, mirror : F] BY <1>2
<1>4. /\ b.verified = v /\ b.id = a.id /\ b.handle = a.handle
      /\ b.onboarded = a.onboarded /\ b.mirror = a.mirror
  BY <1>2
<1> QED BY <1>1, <1>3, <1>4 DEF AccountDocs

LEMMA SetOnboard ==
    ASSUME NEW a \in AccountDocs, NEW v \in BOOLEAN, NEW b, b = [a EXCEPT !.onboarded = v]
    PROVE  /\ b \in AccountDocs /\ b.verified = a.verified /\ b.id = a.id /\ b.handle = a.handle
           /\ b.onboarded = v /\ b.mirror = a.mirror
<1>1. PICK F, B : F = SUBSET Followables /\ B = BOOLEAN OBVIOUS
<1>2. a \in [id : Nat, handle : Handles, verified : B, onboarded : B, mirror : F] /\ v \in B
  BY <1>1 DEF AccountDocs
<1>3. b \in [id : Nat, handle : Handles, verified : B, onboarded : B, mirror : F] BY <1>2
<1>4. /\ b.verified = a.verified /\ b.id = a.id /\ b.handle = a.handle
      /\ b.onboarded = v /\ b.mirror = a.mirror
  BY <1>2
<1> QED BY <1>1, <1>3, <1>4 DEF AccountDocs

LEMMA SetMirror ==
    ASSUME NEW a \in AccountDocs, NEW v \in SUBSET Followables, NEW b, b = [a EXCEPT !.mirror = v]
    PROVE  /\ b \in AccountDocs /\ b.verified = a.verified /\ b.id = a.id /\ b.handle = a.handle
           /\ b.onboarded = a.onboarded /\ b.mirror = v
<1>1. PICK F, B : F = SUBSET Followables /\ B = BOOLEAN OBVIOUS
<1>2. a \in [id : Nat, handle : Handles, verified : B, onboarded : B, mirror : F] /\ v \in F
  BY <1>1 DEF AccountDocs
<1>3. b \in [id : Nat, handle : Handles, verified : B, onboarded : B, mirror : F] BY <1>2
<1>4. /\ b.verified = a.verified /\ b.id = a.id /\ b.handle = a.handle
      /\ b.onboarded = a.onboarded /\ b.mirror = v
  BY <1>2
<1> QED BY <1>1, <1>3, <1>4 DEF AccountDocs

LEMMA MarkVerifiedIs ==
    ASSUME AccountTypes, NEW r \in Sessions, MarkVerified(r)
    PROVE  /\ Moved(r) /\ session[r].pc = "verify" /\ session[r].kind \in EntryKinds
           /\ session'[r].pc = "onboarded" /\ SameUser(session[r], session'[r])
           /\ \/ UNCHANGED accounts
              \/ \E p \in People : /\ Rewritten(p) /\ accounts'[p].onboarded = accounts[p].onboarded
                                   /\ accounts'[p].mirror = accounts[p].mirror
<1>1. PICK k : k = session[r] /\ k \in SessionDocs /\ AtCall(k) BY DEF AccountTypes
<1>2. /\ k.pc = "verify" /\ k.kind \in EntryKinds /\ k.person \in People
  BY <1>1 DEF MarkVerified, AtCall
<1>3. GoOn(r, "onboarded") BY DEF MarkVerified
<1>4. \A n : n.pc = "onboarded" /\ SameUser(k, n) => AtCall(n)
  BY <1>1, <1>2 DEF AtCall, SameUser, EntryKinds
<1>5. Moved(r) /\ session'[r].pc = "onboarded" /\ SameUser(k, session'[r])
  BY <1>1, <1>3, <1>4, GoOnIs DEF SessionPc
<1>6. ASSUME Account(k.person, k.id), accounts' = [accounts EXCEPT ![k.person].verified = TRUE]
      PROVE  /\ Rewritten(k.person) /\ accounts'[k.person].onboarded = accounts[k.person].onboarded
             /\ accounts'[k.person].mirror = accounts[k.person].mirror
  <2>1. PICK a : a = accounts[k.person] /\ a \in AccountDocs /\ a # NoAccount
    BY <1>2, <1>6 DEF Account, AccountTypes
  <2>0. PICK t \in BOOLEAN : t = TRUE OBVIOUS
  <2>2. PICK b : b = [a EXCEPT !.verified = t] OBVIOUS
  <2>3. /\ b \in AccountDocs /\ b.verified = TRUE /\ b.id = a.id /\ b.handle = a.handle
        /\ b.onboarded = a.onboarded /\ b.mirror = a.mirror
    <3>1. /\ b \in AccountDocs /\ b.verified = t /\ b.id = a.id /\ b.handle = a.handle
          /\ b.onboarded = a.onboarded /\ b.mirror = a.mirror
      BY <2>1, <2>2, SetVerified
    <3> QED BY <2>0, <3>1
  <2>4. accounts' = [accounts EXCEPT ![k.person] = b] BY <1>6, <2>0, <2>1, <2>2
  <2> QED BY <1>2, <2>1, <2>3, <2>4, RewrittenIs
<1>7. UNCHANGED accounts \/ (Account(k.person, k.id) /\ accounts' = [accounts EXCEPT ![k.person].verified = TRUE])
  BY <1>1, Zenon DEF MarkVerified
<1>8. UNCHANGED accounts \/ (/\ Rewritten(k.person) /\ accounts'[k.person].onboarded = accounts[k.person].onboarded
                             /\ accounts'[k.person].mirror = accounts[k.person].mirror)
  BY <1>6, <1>7, Zenon
<1> QED BY <1>1, <1>2, <1>5, <1>8

LEMMA OnboardedIs ==
    ASSUME AccountTypes, NEW r \in Sessions, Onboarded(r)
    PROVE  /\ Moved(r) /\ session[r].pc = "onboarded" /\ session[r].kind \in EntryKinds
           /\ \/ session'[r] = Ended
              \/ /\ session'[r].pc \in {"token", "migrate"} /\ session'[r].kind \in EntryKinds
                 /\ session'[r].id = session[r].id /\ session'[r].person = session[r].person
                 /\ session[r].person \in People /\ Account(session[r].person, session[r].id)
                 /\ session'[r].verified = accounts[session[r].person].verified
                 /\ session'[r].pc = "migrate" => ~(Cardinality(Follows(session[r].id)) < MinCoins)
<1>1. PICK k : k = session[r] /\ k \in SessionDocs /\ AtCall(k) BY DEF AccountTypes
<1>2. /\ k.pc = "onboarded" /\ k.kind \in EntryKinds /\ k.person \in People /\ k.id > 0
  BY <1>1 DEF Onboarded, AtCall
<1>3. ASSUME End(r) PROVE Moved(r) /\ session'[r] = Ended BY <1>3, EndIs
<1>4. PICK pc \in {"token", "migrate"} : /\ pc = "migrate" => ~(Cardinality(Follows(k.id)) < MinCoins)
        /\ pc = IF accounts[k.person].onboarded \/ Cardinality(Follows(k.id)) < MinCoins THEN "token" ELSE "migrate"
  OBVIOUS
<1>5. PICK v : v = accounts[k.person].verified OBVIOUS
<1>6. PICK n : n = [k EXCEPT !.verified = v, !.pc = pc] OBVIOUS
<1>7. ASSUME Account(k.person, k.id), session' = [session EXCEPT ![r] = n]
      PROVE  /\ Moved(r) /\ session'[r] = n /\ n.pc = pc /\ n.kind = k.kind /\ n.id = k.id
             /\ n.person = k.person /\ n.verified = v
  <2>1. n = [pc |-> pc, kind |-> k.kind, person |-> k.person, id |-> k.id, handle |-> k.handle,
             verified |-> v, coins |-> k.coins]
    <3>1. PICK S, P, H, C : S = EntryKinds \cup FollowKinds \cup {"delete", "none"}
            /\ P = People \cup {NoAccount} /\ H = Handles \cup {NoAccount} /\ C = SUBSET Followables
      OBVIOUS
    <3>2. k \in [pc : SessionPc, kind : S, person : P, id : Nat, handle : H, verified : BOOLEAN, coins : C]
      BY <1>1, <3>1 DEF SessionDocs
    <3> QED BY <1>6, <3>2
  <2>2. v \in BOOLEAN BY <1>2, <1>5, <1>7 DEF Account, AccountTypes, AccountDocs
  <2>3. n \in SessionDocs BY <1>1, <1>4, <2>1, <2>2 DEF SessionDocs, SessionPc
  <2>4. AtCall(n) BY <1>1, <1>2, <1>4, <2>1 DEF AtCall, EntryKinds
  <2>5. Moved(r) /\ session'[r] = n BY <1>7, <2>3, <2>4, MovedIs
  <2>6. n.pc = pc /\ n.kind = k.kind /\ n.id = k.id /\ n.person = k.person /\ n.verified = v BY <2>1
  <2> QED BY <2>5, <2>6
<1>8. End(r) \/ (Account(k.person, k.id) /\ session' = [session EXCEPT ![r] = n])
  BY <1>1, <1>4, <1>5, <1>6, Zenon DEF Onboarded
<1>9. \/ Moved(r) /\ session'[r] = Ended
      \/ /\ Account(k.person, k.id)
         /\ Moved(r) /\ session'[r] = n /\ n.pc = pc /\ n.kind = k.kind /\ n.id = k.id
         /\ n.person = k.person /\ n.verified = v
  BY <1>3, <1>7, <1>8, Zenon
<1> QED BY <1>1, <1>2, <1>4, <1>5, <1>9

LEMMA GiveTokenIs ==
    ASSUME AccountTypes, NEW r \in Sessions, GiveToken(r)
    PROVE  /\ Moved(r) /\ session[r].pc = "token" /\ session[r].kind \in EntryKinds /\ session'[r] = Ended
           /\ \/ UNCHANGED tokens
              \/ \E t \in [person : People, id : 1..lastUser, verified : BOOLEAN] :
                   /\ tokens' = tokens \cup {t} /\ t.person = session[r].person
                   /\ t.id = session[r].id /\ t.verified = session[r].verified
<1>1. PICK k : k = session[r] /\ k \in SessionDocs /\ AtCall(k) /\ k.id <= lastUser BY DEF AccountTypes
<1>2. k.pc = "token" /\ k.kind \in EntryKinds /\ k.person \in People /\ k.id > 0
  BY <1>1 DEF GiveToken, AtCall
<1>3. Moved(r) /\ session'[r] = Ended BY EndIs DEF GiveToken
<1>4. PICK t : t = [person |-> k.person, id |-> k.id, verified |-> k.verified] OBVIOUS
<1>5. k.id \in 1..lastUser /\ k.verified \in BOOLEAN BY <1>1, <1>2 DEF SessionDocs, AccountTypes
<1>6. t \in [person : People, id : 1..lastUser, verified : BOOLEAN] BY <1>2, <1>4, <1>5
<1>7. t.person = k.person /\ t.id = k.id /\ t.verified = k.verified BY <1>4
<1>8. tokens' = tokens \/ tokens' = tokens \cup {t} BY <1>1, <1>4 DEF GiveToken
<1> QED BY <1>1, <1>2, <1>3, <1>6, <1>7, <1>8

LEMMA SetOnboardedIs ==
    ASSUME AccountTypes, NEW r \in Sessions, SetOnboarded(r)
    PROVE  /\ Moved(r) /\ session[r].pc = "migrate" /\ session[r].kind # "delete"
           /\ \/ session'[r] = Ended
              \/ /\ session'[r].pc = "token" /\ session[r].kind \in EntryKinds
                 /\ SameUser(session[r], session'[r])
           /\ \/ UNCHANGED accounts
              \/ /\ session[r].person \in People /\ Account(session[r].person, session[r].id)
                 /\ Rewritten(session[r].person)
                 /\ accounts'[session[r].person].mirror = accounts[session[r].person].mirror
<1>1. PICK k : k = session[r] /\ k \in SessionDocs /\ AtCall(k) BY DEF AccountTypes
<1>2. /\ k.pc = "migrate" /\ k.kind \in EntryKinds \cup {"complete"} /\ k.person \in People /\ k.id > 0
  BY <1>1 DEF SetOnboarded, AtCall
<1>3. ASSUME End(r) PROVE Moved(r) /\ session'[r] = Ended BY <1>3, EndIs
<1>4. ASSUME GoOn(r, "token"), k.kind # "complete"
      PROVE  Moved(r) /\ session'[r].pc = "token" /\ SameUser(k, session'[r])
  <2>1. \A n : n.pc = "token" /\ SameUser(k, n) => AtCall(n)
    BY <1>1, <1>2, <1>4 DEF AtCall, SameUser, EntryKinds
  <2> QED BY <1>1, <1>4, <2>1, GoOnIs DEF SessionPc
<1>5. ASSUME Account(k.person, k.id), accounts' = [accounts EXCEPT ![k.person].onboarded = TRUE]
      PROVE  Rewritten(k.person) /\ accounts'[k.person].mirror = accounts[k.person].mirror
  <2>1. PICK a : a = accounts[k.person] /\ a \in AccountDocs /\ a # NoAccount
    BY <1>2, <1>5 DEF Account, AccountTypes
  <2>0. PICK t \in BOOLEAN : t = TRUE OBVIOUS
  <2>2. PICK b : b = [a EXCEPT !.onboarded = t] OBVIOUS
  <2>3. /\ b \in AccountDocs /\ b.verified = a.verified /\ b.id = a.id /\ b.handle = a.handle
        /\ b.mirror = a.mirror
    <3>1. /\ b \in AccountDocs /\ b.verified = a.verified /\ b.id = a.id /\ b.handle = a.handle
          /\ b.onboarded = t /\ b.mirror = a.mirror
      BY <2>1, <2>2, SetOnboard
    <3> QED BY <2>0, <3>1
  <2>4. accounts' = [accounts EXCEPT ![k.person] = b] BY <1>5, <2>0, <2>1, <2>2
  <2> QED BY <1>2, <2>1, <2>3, <2>4, RewrittenIs
<1>6. /\ UNCHANGED accounts \/ (Account(k.person, k.id) /\ accounts' = [accounts EXCEPT ![k.person].onboarded = TRUE])
      /\ End(r) \/ (k.kind # "complete" /\ GoOn(r, "token"))
  BY <1>1, Zenon DEF SetOnboarded
<1>7. /\ UNCHANGED accounts \/ (/\ Account(k.person, k.id) /\ Rewritten(k.person)
                                /\ accounts'[k.person].mirror = accounts[k.person].mirror)
      /\ \/ Moved(r) /\ session'[r] = Ended
         \/ k.kind # "complete" /\ Moved(r) /\ session'[r].pc = "token" /\ SameUser(k, session'[r])
  BY <1>3, <1>4, <1>5, <1>6, Zenon
<1>8. k.kind # "delete" /\ (k.kind # "complete" => k.kind \in EntryKinds) BY <1>2 DEF EntryKinds
<1> QED BY <1>1, <1>2, <1>7, <1>8

LEMMA AskFollowIs ==
    ASSUME AccountTypes, NEW r \in Sessions, NEW t \in tokens, NEW kind \in FollowKinds,
           NEW S \in SUBSET Followables, AskFollow(r, t, kind, S)
    PROVE  /\ Moved(r) /\ session[r] = Ended
           /\ session'[r].kind \in FollowKinds /\ session'[r].pc \in {"follow", "unfollow"}
           /\ session'[r].id = t.id /\ session'[r].person = t.person
           /\ session'[r].kind = "complete" =>
                /\ session'[r].pc = "follow" /\ session'[r].coins = S /\ Cardinality(S) >= MinCoins
           /\ session'[r].kind = "follow" => t.id \in unmirrored'
           /\ unmirrored \subseteq unmirrored'
<1>1. PICK kd \in FollowKinds : /\ kd = IF kind = "complete" /\ ~Enough(S) THEN "follow" ELSE kind
                                /\ kd = "complete" => kind = "complete" /\ Cardinality(S) >= MinCoins
                                /\ kd = "follow" => (kind = "complete" /\ ~Enough(S)) \/ kind = "follow"
  BY DEF FollowKinds, Enough
<1>2. PICK pc \in {"follow", "unfollow"} :
        /\ pc = IF kind = "complete" \/ S \cap Follows(t.id) = {} THEN "follow" ELSE "unfollow"
        /\ pc = "unfollow" => kind # "complete"
  OBVIOUS
<1>3. PICK n : n = [Ended EXCEPT !.kind = kd, !.person = t.person, !.id = t.id, !.coins = S, !.pc = pc]
  OBVIOUS
<1>4. n = [pc |-> pc, kind |-> kd, person |-> t.person, id |-> t.id, handle |-> NoAccount,
           verified |-> FALSE, coins |-> S]
  BY <1>3 DEF Ended
<1>5. t.id \in Nat /\ t.id > 0 /\ t.person \in People BY DEF AccountTypes
<1>6. n \in SessionDocs BY <1>1, <1>2, <1>4, <1>5 DEF SessionDocs, SessionPc, FollowKinds
<1>7. AtCall(n) BY <1>1, <1>2, <1>4, <1>5 DEF AtCall, FollowKinds
<1>8. session' = [session EXCEPT ![r] = n] /\ session[r] = Ended
  BY <1>1, <1>2, <1>3, Zenon DEF AskFollow
<1>9. Moved(r) /\ session'[r] = n BY <1>6, <1>7, <1>8, MovedIs
<1>10. n.pc = pc /\ n.kind = kd /\ n.person = t.person /\ n.id = t.id /\ n.coins = S BY <1>4
<1>11. kd = "follow" => t.id \in unmirrored'
  BY <1>1, Zenon DEF AskFollow
<1>12. unmirrored \subseteq unmirrored' BY Zenon DEF AskFollow
<1>13. kd = "complete" => pc = "follow" BY <1>1, <1>2
<1> QED BY <1>1, <1>2, <1>8, <1>9, <1>10, <1>11, <1>12, <1>13

LEMMA ChangeFollowIs ==
    ASSUME AccountTypes, NEW r \in Sessions, NEW c \in Followables, ChangeFollow(r, c)
    PROVE  /\ Moved(r) /\ session[r].kind \in FollowKinds /\ session[r].pc \in {"follow", "unfollow"}
           /\ c \in session[r].coins /\ session[r].id \in 1..lastUser /\ session[r].person \in People
           /\ \/ session'[r] = Ended /\ session[r].kind = "follow"
              \/ /\ session'[r].coins = session[r].coins \ {c}
                 /\ session'[r].id = session[r].id /\ session'[r].person = session[r].person
                 /\ session'[r].kind = session[r].kind
                 /\ session'[r].pc = IF session[r].coins \ {c} # {} THEN session[r].pc ELSE "mirror"
<1>1. PICK k : k = session[r] /\ k \in SessionDocs /\ AtCall(k) /\ k.id <= lastUser BY DEF AccountTypes
<1>2. k.pc \in {"follow", "unfollow"} /\ c \in k.coins BY <1>1, Zenon DEF ChangeFollow
<1>3. /\ k.kind \in FollowKinds /\ k.person \in People /\ k.id > 0 /\ (k.pc = "unfollow" => k.kind # "complete")
      /\ ~k.verified \/ k.kind # "complete"
  BY <1>1, <1>2 DEF AtCall, FollowKinds
<1>4. PICK rest : rest = k.coins \ {c} OBVIOUS
<1>5. PICK pc : pc = Next1(k, rest) OBVIOUS
<1>6. /\ rest # {} => pc = k.pc
      /\ rest = {} /\ k.kind = "follow" => pc = "over"
      /\ rest = {} /\ k.kind # "follow" => pc = "mirror"
  BY <1>5 DEF Next1
<1>7. session' = [session EXCEPT ![r] = IF pc = "over" THEN Ended ELSE [k EXCEPT !.coins = rest, !.pc = pc]]
  BY <1>1, <1>4, <1>5, Zenon DEF ChangeFollow
<1>8. CASE pc = "over"
  <2>1. End(r) BY <1>7, <1>8 DEF End
  <2>2. Moved(r) /\ session'[r] = Ended BY <2>1, EndIs
  <2>3. k.kind = "follow" BY <1>2, <1>6, <1>8
  <2> QED BY <1>1, <1>2, <1>3, <2>2, <2>3 DEF AccountTypes, SessionDocs
<1>9. CASE pc # "over"
  <2>1. PICK n : n = [k EXCEPT !.coins = rest, !.pc = pc] OBVIOUS
  <2>2. n = [pc |-> pc, kind |-> k.kind, person |-> k.person, id |-> k.id, handle |-> k.handle,
             verified |-> k.verified, coins |-> rest]
    <3>1. PICK S, P, H, C : S = EntryKinds \cup FollowKinds \cup {"delete", "none"}
            /\ P = People \cup {NoAccount} /\ H = Handles \cup {NoAccount} /\ C = SUBSET Followables
      OBVIOUS
    <3>2. k \in [pc : SessionPc, kind : S, person : P, id : Nat, handle : H, verified : BOOLEAN, coins : C]
      BY <1>1, <3>1 DEF SessionDocs
    <3> QED BY <2>1, <3>2
  <2>3. rest \in SUBSET Followables BY <1>1, <1>4 DEF SessionDocs
  <2>4. n \in SessionDocs BY <1>1, <1>2, <1>6, <1>9, <2>2, <2>3 DEF SessionDocs, SessionPc
  <2>5. AtCall(n) BY <1>1, <1>2, <1>3, <1>6, <1>9, <2>2 DEF AtCall, FollowKinds
  <2>6. session' = [session EXCEPT ![r] = n] BY <1>7, <1>9, <2>1
  <2>7. Moved(r) /\ session'[r] = n BY <2>4, <2>5, <2>6, MovedIs
  <2>8. n.pc = pc /\ n.kind = k.kind /\ n.person = k.person /\ n.id = k.id /\ n.coins = rest BY <2>2
  <2>9. k.id \in 1..lastUser BY <1>1, <1>3 DEF SessionDocs, AccountTypes
  <2> QED BY <1>1, <1>2, <1>3, <1>4, <1>6, <1>9, <2>7, <2>8, <2>9
<1> QED BY <1>8, <1>9

LEMMA MirrorIs ==
    ASSUME AccountTypes, NEW r \in Sessions, Mirror(r)
    PROVE  /\ Moved(r) /\ session[r].pc = "mirror" /\ session[r].kind \in {"complete", "toggle"}
           /\ session[r].id \in 1..lastUser
           /\ \/ session'[r] = Ended
              \/ session'[r].pc = "migrate" /\ SameUser(session[r], session'[r]) /\ session[r].kind = "complete"
           /\ \/ UNCHANGED accounts /\ ~Account(session[r].person, session[r].id) /\ UNCHANGED unmirrored
              \/ /\ session[r].person \in People /\ Account(session[r].person, session[r].id)
                 /\ Rewritten(session[r].person) /\ UNCHANGED unmirrored
                 /\ accounts'[session[r].person].mirror = Follows(session[r].id)
                 /\ accounts'[session[r].person].onboarded = accounts[session[r].person].onboarded
              \/ UNCHANGED accounts /\ unmirrored' = unmirrored \cup {session[r].id}
<1>1. PICK k : k = session[r] /\ k \in SessionDocs /\ AtCall(k) /\ k.id <= lastUser BY DEF AccountTypes
<1>2. k.pc = "mirror" /\ k.kind \in {"complete", "toggle"} /\ k.person \in People /\ k.id > 0
  BY <1>1 DEF Mirror, AtCall
<1>3. ASSUME End(r) PROVE Moved(r) /\ session'[r] = Ended BY <1>3, EndIs
<1>4. ASSUME GoOn(r, "migrate"), k.kind = "complete"
      PROVE  Moved(r) /\ session'[r].pc = "migrate" /\ SameUser(k, session'[r])
  <2>1. \A n : n.pc = "migrate" /\ SameUser(k, n) => AtCall(n)
    BY <1>1, <1>2, <1>4 DEF AtCall, SameUser, EntryKinds
  <2> QED BY <1>1, <1>4, <2>1, GoOnIs DEF SessionPc
<1>5. ASSUME Account(k.person, k.id), accounts' = [accounts EXCEPT ![k.person].mirror = Follows(k.id)]
      PROVE  /\ Rewritten(k.person) /\ accounts'[k.person].mirror = Follows(k.id)
             /\ accounts'[k.person].onboarded = accounts[k.person].onboarded
  <2>1. PICK a : a = accounts[k.person] /\ a \in AccountDocs /\ a # NoAccount
    BY <1>2, <1>5 DEF Account, AccountTypes
  <2>2. PICK m \in SUBSET Followables : m = Follows(k.id) BY DEF Follows
  <2>3. PICK b : b = [a EXCEPT !.mirror = m] OBVIOUS
  <2>4. /\ b \in AccountDocs /\ b.verified = a.verified /\ b.id = a.id /\ b.handle = a.handle
        /\ b.onboarded = a.onboarded /\ b.mirror = m
    BY <2>1, <2>2, <2>3, SetMirror
  <2>5. accounts' = [accounts EXCEPT ![k.person] = b] BY <1>5, <2>1, <2>2, <2>3
  <2> QED BY <1>2, <2>1, <2>2, <2>4, <2>5, RewrittenIs
<1>6. /\ \/ /\ UNCHANGED unmirrored
            /\ \/ UNCHANGED accounts /\ ~Account(k.person, k.id)
               \/ /\ Account(k.person, k.id)
                  /\ accounts' = [accounts EXCEPT ![k.person].mirror = Follows(k.id)]
         \/ UNCHANGED accounts /\ unmirrored' = unmirrored \cup {k.id}
      /\ End(r) \/ (k.kind = "complete" /\ GoOn(r, "migrate"))
  BY <1>1, Zenon DEF Mirror
<1>7. /\ \/ /\ UNCHANGED unmirrored
            /\ \/ UNCHANGED accounts /\ ~Account(k.person, k.id)
               \/ /\ Account(k.person, k.id)
                  /\ Rewritten(k.person) /\ accounts'[k.person].mirror = Follows(k.id)
                  /\ accounts'[k.person].onboarded = accounts[k.person].onboarded
         \/ UNCHANGED accounts /\ unmirrored' = unmirrored \cup {k.id}
      /\ \/ Moved(r) /\ session'[r] = Ended
         \/ k.kind = "complete" /\ Moved(r) /\ session'[r].pc = "migrate" /\ SameUser(k, session'[r])
  BY <1>3, <1>4, <1>5, <1>6, Zenon
<1>8. k.id \in 1..lastUser BY <1>1, <1>2 DEF SessionDocs, AccountTypes
<1> QED BY <1>1, <1>2, <1>7, <1>8

LEMMA AskDeleteIs ==
    ASSUME AccountTypes, NEW r \in Sessions, NEW t \in tokens, AskDelete(r, t)
    PROVE  /\ Moved(r) /\ session[r] = Ended
           /\ session'[r].kind = "delete" /\ session'[r].pc = "deregister"
           /\ session'[r].id = t.id /\ session'[r].person = t.person
<1>1. PICK n : n = [Ended EXCEPT !.pc = "deregister", !.kind = "delete", !.person = t.person, !.id = t.id]
  OBVIOUS
<1>2. n = [pc |-> "deregister", kind |-> "delete", person |-> t.person, id |-> t.id, handle |-> NoAccount,
           verified |-> FALSE, coins |-> {}]
  BY <1>1 DEF Ended
<1>3. t.id \in Nat /\ t.id > 0 /\ t.person \in People BY DEF AccountTypes
<1>4. n \in SessionDocs BY <1>2, <1>3 DEF SessionDocs, SessionPc
<1>5. AtCall(n) BY <1>2, <1>3 DEF AtCall
<1>6. session' = [session EXCEPT ![r] = n] /\ session[r] = Ended BY <1>1, Zenon DEF AskDelete
<1>7. Moved(r) /\ session'[r] = n BY <1>4, <1>5, <1>6, MovedIs
<1>8. n.kind = "delete" /\ n.pc = "deregister" /\ n.id = t.id /\ n.person = t.person BY <1>2
<1> QED BY <1>6, <1>7, <1>8

\* A deletion goes from call to call.
LEMMA DeletesIs ==
    ASSUME AccountTypes, NEW r \in Sessions, NEW from, NEW to,
           session[r].pc = from, GoOn(r, to),
           <<from, to>> \in {<<"deregister", "recount">>, <<"recount", "purge">>, <<"purge", "erase">>}
    PROVE  /\ Moved(r) /\ session[r].kind = "delete" /\ session'[r].pc = to
           /\ SameUser(session[r], session'[r]) /\ session[r].id \in 1..lastUser
<1>1. PICK k : k = session[r] /\ k \in SessionDocs /\ AtCall(k) /\ k.id <= lastUser BY DEF AccountTypes
<1>2. k.pc \in {"deregister", "recount", "purge"} /\ to \in {"recount", "purge", "erase"} BY <1>1
<1>3. k.kind = "delete" /\ k.person \in People /\ k.id > 0 BY <1>1, <1>2 DEF AtCall
<1>4. \A n : n.pc = to /\ SameUser(k, n) => AtCall(n) BY <1>1, <1>2, <1>3 DEF AtCall, SameUser
<1>5. Moved(r) /\ session'[r].pc = to /\ SameUser(k, session'[r]) BY <1>1, <1>2, <1>4, GoOnIs DEF SessionPc
<1>6. k.id \in 1..lastUser BY <1>1, <1>3 DEF SessionDocs, AccountTypes
<1> QED BY <1>1, <1>3, <1>5, <1>6

LEMMA EraseIs ==
    ASSUME AccountTypes, NEW r \in Sessions, Erase(r)
    PROVE  /\ Moved(r) /\ session[r].pc = "erase" /\ session[r].kind = "delete" /\ session'[r] = Ended
           /\ session[r].id \in 1..lastUser
           /\ accounts' \in [People -> AccountDocs \cup {NoAccount}]
           /\ \A p \in People : accounts'[p] = accounts[p]
                                \/ (accounts'[p] = NoAccount /\ accounts[p] # NoAccount
                                    /\ accounts[p].id = session[r].id)
<1>1. PICK k : k = session[r] /\ k \in SessionDocs /\ AtCall(k) /\ k.id <= lastUser BY DEF AccountTypes
<1>2. k.pc = "erase" BY <1>1, Zenon DEF Erase
<1>3. k.kind = "delete" /\ k.person \in People /\ k.id > 0 BY <1>1, <1>2 DEF AtCall
<1>4. Moved(r) /\ session'[r] = Ended BY EndIs DEF Erase
<1>5. \/ UNCHANGED accounts
      \/ Account(k.person, k.id) /\ accounts' = [accounts EXCEPT ![k.person] = NoAccount]
  BY <1>1, Zenon DEF Erase
<1>6. /\ accounts' \in [People -> AccountDocs \cup {NoAccount}]
      /\ \A p \in People : accounts'[p] = accounts[p]
                           \/ (accounts'[p] = NoAccount /\ accounts[p] # NoAccount /\ accounts[p].id = k.id)
  BY <1>3, <1>5 DEF AccountTypes, Account
<1>7. k.id \in 1..lastUser BY <1>1, <1>3 DEF SessionDocs, AccountTypes
<1> QED BY <1>1, <1>2, <1>3, <1>4, <1>6, <1>7

(* What a step leaves of the types                                           *)

\* A step of a request that writes no account.
LEMMA TypesMove ==
    ASSUME AccountTypes, BudgetOK, NEW r \in Sessions, Moved(r), session'[r].id <= lastUser,
           stimuli' \in Nat, stimuli' >= stimuli, UNCHANGED lastUser,
           UNCHANGED accounts \/ (\E p \in People : Rewritten(p)),
           tokens' \subseteq [person : People, id : 1..lastUser, verified : BOOLEAN],
           followed' \subseteq (1..lastUser) \X Followables,
           live' \subseteq live, tombs' \subseteq tombs, tally' \in Int, unbalanced' \in BOOLEAN,
           wallets' \subseteq wallets, watched' \subseteq watched
    PROVE  AccountTypes'
<1>1. accounts' \in [People -> AccountDocs \cup {NoAccount}]
      /\ \A p \in People : accounts'[p] # NoAccount => accounts'[p].id \in 1..lastUser
  BY DEF AccountTypes, Rewritten
<1>2. PICK n \in Nat, m \in Nat : n = stimuli /\ m = stimuli' /\ n <= m BY DEF BudgetOK
<1>3. 1..n \subseteq 1..m BY <1>2
<1>4. live' \subseteq (1..lastUser) \X (1..m) /\ tombs' \subseteq (1..lastUser) \X (1..m)
  BY <1>2, <1>3 DEF AccountTypes
<1>5. IsFiniteSet(live') /\ IsFiniteSet(tombs') BY FS_Subset DEF AccountTypes
<1>6. \A q \in Sessions : AtCall(session'[q]) /\ session'[q].id <= lastUser BY DEF Moved, AccountTypes
<1> QED BY <1>1, <1>2, <1>4, <1>5, <1>6 DEF AccountTypes, Moved

LEMMA BudgetMoves ==
    ASSUME BudgetOK, UNCHANGED stimuli \/ Spend(1)
    PROVE  BudgetOK' /\ stimuli' \in Nat /\ stimuli' >= stimuli
  BY BudgetAssumption DEF BudgetOK, Spend

\* Rewriting an account changes no identity.
SameAccounts == \A p \in People :
  /\ accounts'[p] = NoAccount <=> accounts[p] = NoAccount
  /\ accounts[p] # NoAccount =>
       /\ accounts'[p].id = accounts[p].id /\ accounts'[p].handle = accounts[p].handle
       /\ accounts[p].verified => accounts'[p].verified

LEMMA SameIs == UNCHANGED accounts \/ (\E p \in People : Rewritten(p)) => SameAccounts
  BY DEF Rewritten, SameAccounts

\* Ids: what is claimed was claimed.
LEMMA OwnersMove ==
    ASSUME AccountTypes, OneOwner, NEW r \in Sessions, Moved(r),
           session'[r].id # 0 => <<session'[r].id, session'[r].person>> \in Claims,
           \A p \in People : accounts'[p] # NoAccount =>
             accounts[p] # NoAccount /\ accounts'[p].id = accounts[p].id,
           \A t \in tokens' : t \in tokens \/ <<t.id, t.person>> \in Claims
    PROVE  OneOwner'
<1>1. Claims' \subseteq Claims
  <2>1. ASSUME NEW p \in People, accounts'[p] # NoAccount PROVE <<accounts'[p].id, p>> \in Claims
    BY <2>1 DEF Claims
  <2>2. ASSUME NEW t \in tokens' PROVE <<t.id, t.person>> \in Claims BY <2>2 DEF Claims
  <2>3. ASSUME NEW q \in Sessions, session'[q].id # 0
        PROVE  <<session'[q].id, session'[q].person>> \in Claims
    <3>1. CASE q = r BY <2>3, <3>1
    <3>2. CASE q # r
      <4>1. session'[q] = session[q] BY <3>2 DEF Moved
      <4> QED BY <2>3, <4>1 DEF Claims
    <3> QED BY <3>1, <3>2
  <2> QED BY <2>1, <2>2, <2>3 DEF Claims
<1> QED BY <1>1 DEF OneOwner

LEMMA ClaimIs ==
    ASSUME NEW r \in Sessions, session[r].id # 0
    PROVE  <<session[r].id, session[r].person>> \in Claims
  BY DEF Claims

LEMMA OwnerIs ==
    ASSUME OneOwner, NEW p \in People, NEW q \in People, NEW i, Account(p, i), Account(q, i)
    PROVE  p = q
<1>1. <<accounts[p].id, p>> \in Claims /\ <<accounts[q].id, q>> \in Claims BY DEF Account, Claims
<1> QED BY <1>1 DEF OneOwner, Account

\* What is vouched for stays true when identities stay.
LEMMA VouchedMoves ==
    ASSUME AccountTypes, Vouched, SameAccounts, NEW r \in Sessions, Moved(r),
           \A p \in People : Account(p, session'[r].id) /\ session'[r].verified
             /\ session'[r].pc \in {"token", "migrate"} => accounts[p].verified,
           \A p \in People, t \in tokens' : t \notin tokens /\ Account(p, t.id) /\ t.verified => accounts[p].verified
    PROVE  Vouched'
<1> SUFFICES ASSUME NEW p \in People, accounts'[p] # NoAccount
             PROVE  /\ \A t \in tokens' : t.id = accounts'[p].id /\ t.verified => accounts'[p].verified
                    /\ \A q \in Sessions : session'[q].id = accounts'[p].id /\ session'[q].pc \in {"token", "migrate"}
                         /\ session'[q].verified => accounts'[p].verified
                    /\ \A q \in People : accounts'[q] # NoAccount /\ accounts'[q].handle = accounts'[p].handle
                         => q = p
  BY DEF Vouched
<1>1. accounts[p] # NoAccount /\ accounts'[p].id = accounts[p].id /\ (accounts[p].verified => accounts'[p].verified)
  BY DEF SameAccounts
<1>2. ASSUME NEW t \in tokens', t.id = accounts'[p].id, t.verified PROVE accounts'[p].verified
  BY <1>1, <1>2 DEF Vouched, Account
<1>3. ASSUME NEW q \in Sessions, session'[q].id = accounts'[p].id, session'[q].pc \in {"token", "migrate"},
             session'[q].verified
      PROVE  accounts'[p].verified
  <2>1. CASE q = r BY <1>1, <1>3, <2>1 DEF Account
  <2>2. CASE q # r
    <3>1. session'[q] = session[q] BY <2>2 DEF Moved
    <3> QED BY <1>1, <1>3, <3>1 DEF Vouched
  <2> QED BY <2>1, <2>2
<1>4. ASSUME NEW q \in People, accounts'[q] # NoAccount, accounts'[q].handle = accounts'[p].handle
      PROVE  q = p
  BY <1>1, <1>4 DEF SameAccounts, Vouched
<1> QED BY <1>2, <1>3, <1>4

\* Steps that change no follow, comment, wallet or address.
Quiet == UNCHANGED <<followed, live, tombs, tally, wallets, watched, late, unheard, unbalanced, enough, hasty>>

LEMMA OnboardsMove ==
    ASSUME AccountTypes, Onboardings, UNCHANGED <<followed, enough, hasty, lastUser>>, NEW r \in Sessions, Moved(r),
           session'[r].kind = "complete" /\ session'[r].pc = "follow" =>
             \/ session'[r].id \in hasty
             \/ Cardinality(Follows(session'[r].id) \cup session'[r].coins) >= MinCoins,
           session'[r].pc = "migrate" \/ (session'[r].kind = "complete" /\ session'[r].pc = "mirror") =>
             session'[r].id \in enough \cup hasty,
           \A p \in People : accounts'[p] # NoAccount /\ accounts'[p].onboarded =>
             \/ accounts[p] # NoAccount /\ accounts[p].onboarded /\ accounts'[p].id = accounts[p].id
             \/ accounts'[p].id \in enough \cup hasty
    PROVE  Onboardings'
<1>1. \A i : Follows(i)' = Follows(i) BY DEF Follows
<1>2. enough' = enough /\ hasty' = hasty OBVIOUS
<1>3. ASSUME NEW q \in Sessions
      PROVE  /\ session'[q].kind = "complete" /\ session'[q].pc = "follow" =>
                  \/ session'[q].id \in hasty
                  \/ Cardinality(Follows(session'[q].id) \cup session'[q].coins) >= MinCoins
             /\ session'[q].pc = "migrate" \/ (session'[q].kind = "complete" /\ session'[q].pc = "mirror") =>
                  session'[q].id \in enough \cup hasty
  <2>1. q # r => session'[q] = session[q] BY DEF Moved
  <2> QED BY <2>1 DEF Onboardings
<1>4. \A p \in People : accounts'[p] # NoAccount /\ accounts'[p].onboarded =>
        accounts'[p].id \in enough \cup hasty
  BY DEF Onboardings
<1>5. \A i \in 1..lastUser : Cardinality(Follows(i)) >= MinCoins => i \in enough BY DEF Onboardings
<1> QED BY <1>1, <1>2, <1>3, <1>4, <1>5 DEF Onboardings

LEMMA CopiesMove ==
    ASSUME AccountTypes, Copied, UNCHANGED followed, NEW r \in Sessions, Moved(r), unmirrored \subseteq unmirrored',
           session'[r].kind = "follow" => session'[r].id \in unmirrored',
           \A p \in People : accounts'[p] # NoAccount /\ accounts'[p].id \notin unmirrored' =>
             \/ accounts'[p].mirror = Follows(accounts'[p].id)
             \/ /\ accounts[p] # NoAccount /\ accounts[p].id = accounts'[p].id
                /\ accounts[p].mirror = accounts'[p].mirror
                /\ Copies(r, accounts[p].id) => Copies(r, accounts[p].id)'
    PROVE  Copied'
<1>1. \A i : Follows(i)' = Follows(i) BY DEF Follows
<1>2. ASSUME NEW p \in People, accounts'[p] # NoAccount, accounts'[p].id \notin unmirrored'
      PROVE  \/ accounts'[p].mirror = Follows(accounts'[p].id)
             \/ \E q \in Sessions : Copies(q, accounts[p].id)'
  <2>1. CASE accounts'[p].mirror = Follows(accounts'[p].id) BY <2>1
  <2>2. CASE /\ accounts[p] # NoAccount /\ accounts[p].id = accounts'[p].id
             /\ accounts[p].mirror = accounts'[p].mirror
             /\ Copies(r, accounts[p].id) => Copies(r, accounts[p].id)'
    <3>1. PICK i : i = accounts[p].id OBVIOUS
    <3>2. \/ accounts[p].mirror = Follows(i)
          \/ \E q \in Sessions : Copies(q, i)
      BY <1>2, <2>2, <3>1 DEF Copied
    <3>3. ASSUME NEW q \in Sessions, Copies(q, i) PROVE Copies(q, i)'
      <4>1. CASE q = r BY <2>2, <3>1, <3>3, <4>1 DEF Copies
      <4>2. CASE q # r BY <3>3, <4>2 DEF Copies, Moved
      <4> QED BY <4>1, <4>2
    <3> QED BY <2>2, <3>1, <3>2, <3>3 DEF Copies
  <2> QED BY <1>2, <2>1, <2>2
<1>3. \A q \in Sessions : session'[q].kind = "follow" => session'[q].id \in unmirrored'
  BY DEF Copied, Moved
<1> QED BY <1>1, <1>2, <1>3 DEF Copied, Copies

\* Ids in use stay in use, and new ones are.
StillAlive ==
  /\ lastUser' \in Nat /\ lastUser' >= lastUser
  /\ \A i \in 1..lastUser : Alive(i) => Alive(i)'
  /\ \A i \in 1..lastUser' : i > lastUser => Alive(i)'

LEMMA AliveStays ==
    ASSUME AccountTypes, SameAccounts, UNCHANGED lastUser
    PROVE  StillAlive /\ \A i : Alive(i)' <=> Alive(i)
<1>1. \A i : Alive(i)' <=> Alive(i) BY DEF SameAccounts, Alive
<1>2. lastUser \in Nat BY DEF AccountTypes
<1>3. PICK n \in Nat : n = lastUser /\ n = lastUser' BY <1>2
<1>4. n >= n /\ \A i \in 1..n : ~(i > n) BY <1>3
<1> QED BY <1>1, <1>3, <1>4 DEF StillAlive

\* Deletions that do not advance keep what they cleared, unless their user writes.
LEMMA ClearedMoves ==
    ASSUME AccountTypes, Cleared, StillAlive, late \subseteq late',
           \A q \in Sessions : session'[q].pc \in {"recount", "purge", "erase"} => session'[q] = session[q],
           \A i \in 1..lastUser : i \notin late' =>
             \/ /\ Gone(i) => Gone(i)'
                /\ Unheard(i) => Unheard(i)'
                /\ i \in watched' => i \in watched
                /\ i \in wallets \/ i \in unheard => i \in wallets' \/ i \in unheard'
             \/ /\ Alive(i) /\ ~Deleting(i)
                /\ i \in watched' => i \in wallets' \/ i \in unheard',
           \A i \in 1..lastUser' : i > lastUser => i \notin watched'
    PROVE  Cleared'
<1>1. ASSUME NEW i \in 1..lastUser', i \notin late'
      PROVE  /\ i \in watched' => i \in wallets' \/ i \in unheard'
             /\ ~Alive(i)' => Gone(i)' /\ Unheard(i)'
  <2>1. i \in 1..lastUser \/ i > lastUser BY DEF StillAlive, AccountTypes
  <2>2. CASE i \in 1..lastUser BY <1>1, <2>2 DEF StillAlive, Cleared
  <2>3. CASE i \notin 1..lastUser BY <1>1, <2>1, <2>3 DEF StillAlive
  <2> QED BY <2>2, <2>3
<1>2. ASSUME NEW q \in Sessions, session'[q].id \notin late'
      PROVE  /\ session'[q].pc \in {"recount", "purge", "erase"} => Unheard(session[q].id)'
             /\ session'[q].pc = "erase" => Gone(session[q].id)'
  <2> SUFFICES ASSUME session'[q].pc \in {"recount", "purge", "erase"}
               PROVE  Unheard(session[q].id)' /\ (session'[q].pc = "erase" => Gone(session[q].id)')
    OBVIOUS
  <2>1. PICK i : i = session[q].id OBVIOUS
  <2>2. session'[q] = session[q] /\ i \notin late' /\ i \notin late BY <1>2, <2>1
  <2>3. session[q].kind = "delete" /\ i \in 1..lastUser
    BY <2>1, <2>2 DEF AccountTypes, AtCall, SessionDocs
  <2>4. Deleting(i) BY <2>1, <2>3 DEF Deleting
  <2>5. (Gone(i) => Gone(i)') /\ (Unheard(i) => Unheard(i)') BY <2>2, <2>3, <2>4
  <2>6. Unheard(i) /\ (session[q].pc = "erase" => Gone(i)) BY <2>1, <2>2 DEF Cleared
  <2>7. Unheard(i)' /\ (session'[q].pc = "erase" => Gone(i)') BY <2>2, <2>5, <2>6
  <2>8. session'[q].id = i BY <2>1, <2>2
  <2> QED BY <2>7, <2>8 DEF Unheard, Gone, Follows, By
<1> QED BY <1>1, <1>2 DEF Cleared

LEMMA QuietClears ==
    ASSUME AccountTypes, Cleared, Quiet, StillAlive, NEW r \in Sessions, Moved(r),
           session'[r].pc \notin {"recount", "purge", "erase"}
    PROVE  Cleared'
<1>1. \A i : (Gone(i)' <=> Gone(i)) /\ (Unheard(i)' <=> Unheard(i))
  BY DEF Quiet, Gone, Unheard, Follows, By
<1>2. UNCHANGED <<late, watched, wallets, unheard>> BY DEF Quiet
<1>3. \A q \in Sessions : session'[q].pc \in {"recount", "purge", "erase"} => session'[q] = session[q]
  BY DEF Moved
<1>4. \A i \in 1..lastUser' : i > lastUser => i \notin watched
  <2>1. \A i \in watched : ~(i > lastUser) BY DEF AccountTypes
  <2> QED BY <2>1
<1> QED BY <1>1, <1>2, <1>3, <1>4, ClearedMoves

LEMMA TallyStays ==
    ASSUME AccountTypes, Tallied, UNCHANGED <<live, tally, unbalanced>>, late \subseteq late',
           NEW r \in Sessions, Moved(r), session[r].pc # "purge", session'[r].kind # "delete"
    PROVE  Tallied'
<1>1. UNCHANGED <<live, tally, unbalanced>> /\ (late' = {} => late = {}) OBVIOUS
<1>2. session'[r].pc # "purge" BY DEF Moved, AtCall
<1>3. CountedOff' = CountedOff
  <2>1. \A q \in Sessions : session'[q].pc = "purge" <=> session[q].pc = "purge" BY <1>2 DEF Moved
  <2>2. \A q \in Sessions : session[q].pc = "purge" => session'[q] = session[q] BY DEF Moved
  <2>3. \A c \in live : (\E q \in Sessions : session'[q].pc = "purge" /\ session'[q].id = c[1])
                         <=> (\E q \in Sessions : session[q].pc = "purge" /\ session[q].id = c[1])
    BY <2>1, <2>2
  <2> QED BY <1>1, <2>3 DEF CountedOff
<1>4. \A q \in Sessions : session'[q].kind = "delete" => q # r /\ session'[q] = session[q] BY DEF Moved
<1> QED BY <1>1, <1>3, <1>4 DEF Tallied

(* Sign-up, login, tokens                                                    *)

\* A step of sign-up or login that makes no account and no token.
LEMMA EntryKeeps ==
    ASSUME AccountTypes, AccountInv, BudgetOK, UNCHANGED stimuli \/ Spend(1),
           NEW r \in Sessions, Moved(r), UNCHANGED <<lastUser, tokens, unmirrored>>, Quiet,
           session[r].kind # "delete", session[r].pc \notin {"follow", "unfollow", "mirror"},
           session'[r].kind \notin FollowKinds \cup {"delete"},
           \/ session'[r].id = 0
           \/ session'[r].id = session[r].id /\ session'[r].person = session[r].person
           \/ /\ session[r].person \in People /\ Account(session[r].person, session'[r].id)
              /\ session'[r].person = session[r].person,
           \A p \in People : Account(p, session'[r].id) /\ session'[r].verified
             /\ session'[r].pc \in {"token", "migrate"} => accounts[p].verified,
           session'[r].pc = "migrate" => session'[r].id \in enough \cup hasty,
           UNCHANGED accounts \/ (\E p \in People : Rewritten(p)),
           \A p \in People : accounts'[p] # NoAccount => accounts'[p].mirror = accounts[p].mirror,
           \A p \in People : accounts'[p] # NoAccount /\ accounts'[p].onboarded =>
             accounts[p].onboarded \/ accounts'[p].id \in enough \cup hasty
    PROVE  AccountTypes' /\ AccountInv' /\ BudgetOK'
<1>1. BudgetOK' /\ stimuli' \in Nat /\ stimuli' >= stimuli BY BudgetMoves
<1>2. SameAccounts BY SameIs
<1>3. session'[r].id <= lastUser
  BY DEF AccountTypes, Account
<1>4. AccountTypes' BY <1>1, <1>3, TypesMove DEF Quiet, AccountTypes
<1>5. OneOwner'
  <2>1. session'[r].id # 0 => <<session'[r].id, session'[r].person>> \in Claims
    BY ClaimIs DEF Claims, Account
  <2> QED BY <1>2, <2>1, OwnersMove DEF AccountInv, SameAccounts
<1>6. Vouched' BY <1>2, VouchedMoves DEF AccountInv
<1>7. Onboardings'
  <2>1. session'[r].kind # "complete" BY DEF FollowKinds
  <2> QED BY <1>2, <2>1, OnboardsMove DEF AccountInv, SameAccounts, Quiet
<1>8. Copied'
  <2>1. session'[r].kind # "follow" BY DEF FollowKinds
  <2>2. \A i : ~Copies(r, i) BY DEF Copies
  <2> QED BY <1>2, <2>1, <2>2, CopiesMove DEF AccountInv, SameAccounts, Quiet
<1>9. Cleared'
  <2>1. session'[r].pc \notin {"recount", "purge", "erase"} BY DEF Moved, AtCall
  <2> QED BY <1>2, <2>1, AliveStays, QuietClears DEF AccountInv
<1>10. Tallied'
  <2>1. session[r].pc # "purge" BY DEF AccountTypes, AtCall
  <2> QED BY <2>1, TallyStays DEF AccountInv, Quiet
<1> QED BY <1>1, <1>4, <1>5, <1>6, <1>7, <1>8, <1>9, <1>10 DEF AccountInv

LEMMA EntriesKeep ==
    ASSUME AccountTypes, AccountInv, BudgetOK, NEW r \in Sessions,
           \/ \E p \in People, h \in Handles, v \in BOOLEAN :
                Enter(r, "signup", p, h, FALSE) \/ Enter(r, "google", p, h, v)
           \/ \E p \in People : Enter(r, "login", p, NoAccount, FALSE)
           \/ FindEmail(r) \/ FindHandle(r) \/ MarkVerified(r) \/ Onboarded(r) \/ SetOnboarded(r)
    PROVE  AccountTypes' /\ AccountInv' /\ BudgetOK'
<1> DEFINE Outside == EntryKinds \cup {"none"}
<1>a. Outside \cap (FollowKinds \cup {"delete"}) = {} BY DEF EntryKinds, FollowKinds
<1>b. Ended.kind = "none" /\ Ended.pc = "over" /\ Ended.id = 0 /\ ~Ended.verified BY EndedIs
<1>1. ASSUME NEW p \in People, NEW h, NEW v \in BOOLEAN, NEW kind \in EntryKinds,
             kind # "login" => h \in Handles, kind = "login" => h = NoAccount, Enter(r, kind, p, h, v)
      PROVE  AccountTypes' /\ AccountInv' /\ BudgetOK'
  <2>1. /\ Moved(r) /\ session[r] = Ended
        /\ session'[r].pc = "email" /\ session'[r].kind = kind /\ session'[r].id = 0
    BY <1>1, EnterIs
  <2>2. Spend(1) /\ Quiet /\ UNCHANGED <<accounts, lastUser, tokens, unmirrored>>
    BY <1>1, Zenon DEF Enter, Quiet
  <2> HIDE DEF Outside
  <2>3. kind \in Outside BY DEF Outside
  <2> QED BY <1>a, <1>b, <2>1, <2>2, <2>3, EntryKeeps
<1>2. CASE FindEmail(r)
  <2>1. /\ Moved(r) /\ session[r].pc = "email" /\ session[r].kind \in EntryKinds /\ session[r].id = 0
        /\ \/ session'[r] = Ended
           \/ session'[r].pc = "handle" /\ SameUser(session[r], session'[r])
           \/ /\ session'[r].pc \in {"verify", "onboarded"} /\ session'[r].kind \in EntryKinds
              /\ accounts[session[r].person] # NoAccount
              /\ session'[r].person = session[r].person
              /\ session'[r].id = accounts[session[r].person].id
    BY <1>2, FindEmailIs
  <2>2. Quiet /\ UNCHANGED <<stimuli, accounts, lastUser, tokens, unmirrored>>
    BY <1>2, Zenon DEF FindEmail, Quiet
  <2>3. session[r].person \in People BY <2>1 DEF AccountTypes, AtCall
  <2>4. session'[r].kind \in Outside /\ session[r].kind \in Outside BY <1>b, <2>1 DEF SameUser
  <2>5. session'[r].pc \notin {"token", "migrate"} BY <1>b, <2>1
  <2>6. \/ session'[r].id = 0
        \/ /\ Account(session[r].person, session'[r].id) /\ session'[r].person = session[r].person
    BY <1>b, <2>1 DEF SameUser, Account
  <2> HIDE DEF Outside
  <2> QED BY <1>a, <2>1, <2>2, <2>3, <2>4, <2>5, <2>6, EntryKeeps
<1>3. CASE FindHandle(r)
  <2>1. /\ Moved(r) /\ session[r].pc = "handle" /\ session[r].kind \in EntryKinds /\ session[r].id = 0
        /\ session'[r] = Ended \/ (session'[r].pc = "create" /\ session'[r].kind \in EntryKinds
                                   /\ session'[r].id = 0)
    BY <1>3, FindHandleIs
  <2>2. Quiet /\ UNCHANGED <<stimuli, accounts, lastUser, tokens, unmirrored>>
    BY <1>3, Zenon DEF FindHandle, Quiet
  <2>3. session'[r].kind \in Outside /\ session[r].kind \in Outside BY <1>b, <2>1
  <2>4. session'[r].pc \notin {"token", "migrate"} /\ session'[r].id = 0 BY <1>b, <2>1
  <2> HIDE DEF Outside
  <2> QED BY <1>a, <2>1, <2>2, <2>3, <2>4, EntryKeeps
<1>4. CASE MarkVerified(r)
  <2>1. /\ Moved(r) /\ session[r].pc = "verify" /\ session[r].kind \in EntryKinds
        /\ session'[r].pc = "onboarded" /\ SameUser(session[r], session'[r])
        /\ \/ UNCHANGED accounts
           \/ \E p \in People : /\ Rewritten(p) /\ accounts'[p].onboarded = accounts[p].onboarded
                                /\ accounts'[p].mirror = accounts[p].mirror
    BY <1>4, MarkVerifiedIs
  <2>2. Quiet /\ UNCHANGED <<stimuli, lastUser, tokens, unmirrored>>
    BY <1>4, Zenon DEF MarkVerified, Quiet
  <2>3. /\ UNCHANGED accounts \/ (\E p \in People : Rewritten(p))
        /\ \A p \in People : accounts'[p] # NoAccount => /\ accounts'[p].mirror = accounts[p].mirror
                                                         /\ accounts'[p].onboarded = accounts[p].onboarded
    BY <2>1 DEF Rewritten
  <2>4. session'[r].kind \in Outside /\ session[r].kind \in Outside BY <2>1 DEF SameUser
  <2>5. session'[r].id = session[r].id /\ session'[r].person = session[r].person BY <2>1 DEF SameUser
  <2> HIDE DEF Outside
  <2> QED BY <1>a, <2>1, <2>2, <2>3, <2>4, <2>5, EntryKeeps
<1>5. CASE Onboarded(r)
  <2>1. /\ Moved(r) /\ session[r].pc = "onboarded" /\ session[r].kind \in EntryKinds
        /\ \/ session'[r] = Ended
           \/ /\ session'[r].pc \in {"token", "migrate"} /\ session'[r].kind \in EntryKinds
              /\ session'[r].id = session[r].id /\ session'[r].person = session[r].person
              /\ session[r].person \in People /\ Account(session[r].person, session[r].id)
              /\ session'[r].verified = accounts[session[r].person].verified
              /\ session'[r].pc = "migrate" => ~(Cardinality(Follows(session[r].id)) < MinCoins)
    BY <1>5, OnboardedIs
  <2>2. Quiet /\ UNCHANGED <<stimuli, accounts, lastUser, tokens, unmirrored>>
    BY <1>5, Zenon DEF Onboarded, Quiet
  <2>3. session'[r].kind \in Outside /\ session[r].kind \in Outside BY <1>b, <2>1
  <2>4. session'[r].pc = "migrate" => session'[r].id \in enough \cup hasty
    <3>1. ASSUME session'[r].pc = "migrate" PROVE session'[r].id \in enough
      <4>1. PICK i : i = session[r].id OBVIOUS
      <4>2. /\ session'[r].id = i /\ Account(session[r].person, i) /\ session[r].person \in People
            /\ ~(Cardinality(Follows(i)) < MinCoins)
        BY <1>b, <2>1, <3>1, <4>1
      <4>3. i \in 1..lastUser BY <4>2 DEF Account, AccountTypes
      <4>4. Cardinality(Follows(i)) \in Nat /\ MinCoins \in Nat
        <5>1. IsFiniteSet(Follows(i)) BY AccountAssumption, FS_Subset DEF Follows
        <5> QED BY <5>1, FS_CardinalityType, AccountAssumption
      <4>5. Cardinality(Follows(i)) >= MinCoins BY <4>2, <4>4
      <4> QED BY <4>2, <4>3, <4>5 DEF AccountInv, Onboardings
    <3> QED BY <3>1
  <2>5. \/ session'[r].id = 0
        \/ session'[r].id = session[r].id /\ session'[r].person = session[r].person
    BY <1>b, <2>1
  <2>6. \A p \in People : Account(p, session'[r].id) /\ session'[r].verified
             /\ session'[r].pc \in {"token", "migrate"} => accounts[p].verified
    BY <1>b, <2>1, OwnerIs DEF AccountInv
  <2> HIDE DEF Outside
  <2> QED BY <1>a, <2>1, <2>2, <2>3, <2>4, <2>5, <2>6, EntryKeeps
<1>6. CASE SetOnboarded(r)
  <2>1. /\ Moved(r) /\ session[r].pc = "migrate" /\ session[r].kind # "delete"
        /\ \/ session'[r] = Ended
           \/ /\ session'[r].pc = "token" /\ session[r].kind \in EntryKinds
              /\ SameUser(session[r], session'[r])
        /\ \/ UNCHANGED accounts
           \/ /\ session[r].person \in People /\ Account(session[r].person, session[r].id)
              /\ Rewritten(session[r].person)
              /\ accounts'[session[r].person].mirror = accounts[session[r].person].mirror
    BY <1>6, SetOnboardedIs
  <2>2. Quiet /\ UNCHANGED <<stimuli, lastUser, tokens, unmirrored>>
    BY <1>6, Zenon DEF SetOnboarded, Quiet
  <2>3. /\ UNCHANGED accounts \/ (\E p \in People : Rewritten(p))
        /\ \A p \in People : accounts'[p] # NoAccount => accounts'[p].mirror = accounts[p].mirror
    BY <2>1 DEF Rewritten
  <2>4. session'[r].kind \in Outside BY <1>b, <2>1 DEF SameUser
  <2>5. \/ session'[r].id = 0
        \/ session'[r].id = session[r].id /\ session'[r].person = session[r].person
    BY <1>b, <2>1 DEF SameUser
  <2>6. session[r].id \in enough \cup hasty BY <2>1 DEF AccountInv, Onboardings
  <2>7. \A p \in People : accounts'[p] # NoAccount /\ accounts'[p].onboarded =>
             accounts[p].onboarded \/ accounts'[p].id \in enough \cup hasty
    BY <2>1, <2>6 DEF Rewritten, Account
  <2>8. \A p \in People : Account(p, session'[r].id) /\ session'[r].verified
             /\ session'[r].pc \in {"token", "migrate"} => accounts[p].verified
    BY <1>b, <2>1 DEF SameUser, AccountInv, Vouched, Account
  <2>9. session'[r].pc # "migrate" BY <1>b, <2>1
  <2> HIDE DEF Outside
  <2> QED BY <1>a, <2>1, <2>2, <2>3, <2>4, <2>5, <2>7, <2>8, <2>9, EntryKeeps
<1>7. ASSUME NEW p \in People, NEW h \in Handles, NEW v \in BOOLEAN,
             Enter(r, "signup", p, h, FALSE) \/ Enter(r, "google", p, h, v)
      PROVE  AccountTypes' /\ AccountInv' /\ BudgetOK'
  BY <1>1, <1>7 DEF EntryKinds
<1>8. ASSUME NEW p \in People, Enter(r, "login", p, NoAccount, FALSE)
      PROVE  AccountTypes' /\ AccountInv' /\ BudgetOK'
  BY <1>1, <1>8 DEF EntryKinds
<1> QED BY <1>2, <1>3, <1>4, <1>5, <1>6, <1>7, <1>8

LEMMA GiveTokenKeeps ==
    ASSUME AccountTypes, AccountInv, BudgetOK, NEW r \in Sessions, GiveToken(r)
    PROVE  AccountTypes' /\ AccountInv' /\ BudgetOK'
<1>1. /\ Moved(r) /\ session[r].pc = "token" /\ session[r].kind \in EntryKinds /\ session'[r] = Ended
      /\ \/ UNCHANGED tokens
         \/ \E t \in [person : People, id : 1..lastUser, verified : BOOLEAN] :
              /\ tokens' = tokens \cup {t} /\ t.person = session[r].person
              /\ t.id = session[r].id /\ t.verified = session[r].verified
  BY GiveTokenIs
<1>2. Quiet /\ UNCHANGED <<accounts, lastUser, unmirrored>> /\ (UNCHANGED stimuli \/ Spend(1))
  BY Zenon DEF GiveToken, Quiet
<1>3. BudgetOK' /\ stimuli' \in Nat /\ stimuli' >= stimuli BY <1>2, BudgetMoves
<1>4. Ended.kind = "none" /\ Ended.pc = "over" /\ Ended.id = 0 /\ ~Ended.verified BY EndedIs
<1>5. SameAccounts BY <1>2, SameIs
<1>6. tokens' \subseteq [person : People, id : 1..lastUser, verified : BOOLEAN]
  BY <1>1 DEF AccountTypes
<1>7. \A t \in tokens' : \/ t \in tokens
                         \/ t.person = session[r].person /\ t.id = session[r].id /\ t.verified = session[r].verified
  BY <1>1
<1>8. session[r].id # 0 BY <1>1 DEF AccountTypes, AtCall
<1>9. AccountTypes'
  <2>1. lastUser \in Nat BY DEF AccountTypes
  <2>2. session'[r].id <= lastUser BY <1>1, <1>4, <2>1
  <2> QED BY <1>1, <1>2, <1>3, <1>6, <2>2, TypesMove DEF Quiet, AccountTypes
<1>10. OneOwner'
  <2>1. <<session[r].id, session[r].person>> \in Claims BY <1>8, ClaimIs
  <2> QED BY <1>1, <1>2, <1>4, <1>7, <2>1, OwnersMove DEF AccountInv
<1>11. Vouched'
  <2>1. \A p \in People, t \in tokens' : t \notin tokens /\ Account(p, t.id) /\ t.verified => accounts[p].verified
    BY <1>1, <1>7 DEF AccountInv, Vouched, Account
  <2> QED BY <1>1, <1>4, <1>5, <2>1, VouchedMoves DEF AccountInv
<1>12. Onboardings' BY <1>1, <1>2, <1>4, OnboardsMove DEF AccountInv, Quiet
<1>13. Copied'
  <2>1. \A i : ~Copies(r, i) BY <1>1 DEF Copies
  <2> QED BY <1>1, <1>2, <1>4, <2>1, CopiesMove DEF AccountInv, Quiet
<1>14. Cleared' BY <1>1, <1>2, <1>4, <1>5, AliveStays, QuietClears DEF AccountInv
<1>15. Tallied' BY <1>1, <1>2, <1>4, TallyStays DEF AccountInv, Quiet
<1> QED BY <1>3, <1>9, <1>10, <1>11, <1>12, <1>13, <1>14, <1>15 DEF AccountInv

\* A new account has an id that nothing carries yet.
LEMMA CreateUserKeeps ==
    ASSUME AccountTypes, AccountInv, BudgetOK, NEW r \in Sessions, CreateUser(r)
    PROVE  AccountTypes' /\ AccountInv' /\ BudgetOK'
<1>1. /\ Moved(r) /\ session[r].pc = "create" /\ session[r].kind \in EntryKinds /\ session[r].id = 0
      /\ \/ session'[r] = Ended /\ UNCHANGED <<accounts, lastUser>>
         \/ \E p \in People :
              /\ accounts[p] = NoAccount /\ lastUser' = lastUser + 1
              /\ session'[r].pc = "onboarded" /\ session'[r].kind \in EntryKinds
              /\ session'[r].person = p /\ session'[r].id = lastUser + 1
              /\ accounts' \in [People -> AccountDocs \cup {NoAccount}]
              /\ \A q \in People \ {p} : /\ accounts'[q] = accounts[q]
                                         /\ accounts[q] # NoAccount => accounts[q].handle # accounts'[p].handle
              /\ accounts'[p] # NoAccount /\ accounts'[p].id = lastUser + 1
              /\ accounts'[p].mirror = {} /\ ~accounts'[p].onboarded
  BY CreateUserIs
<1>2. Quiet /\ UNCHANGED <<stimuli, tokens, unmirrored>> BY Zenon DEF CreateUser, Quiet
<1>3. Ended.kind = "none" /\ Ended.pc = "over" /\ Ended.id = 0 /\ ~Ended.verified BY EndedIs
<1>4. EntryKinds \cap (FollowKinds \cup {"delete"}) = {} /\ "none" \notin FollowKinds \cup {"delete"}
  BY DEF EntryKinds, FollowKinds
<1>5. CASE session'[r] = Ended /\ UNCHANGED <<accounts, lastUser>>
  BY <1>1, <1>2, <1>3, <1>4, <1>5, EntryKeeps
<1>6. ASSUME NEW p \in People, NEW i, i = lastUser + 1,
             accounts[p] = NoAccount, lastUser' = i,
             session'[r].pc = "onboarded", session'[r].kind \in EntryKinds,
             session'[r].person = p, session'[r].id = i,
             accounts' \in [People -> AccountDocs \cup {NoAccount}],
             \A q \in People \ {p} : /\ accounts'[q] = accounts[q]
                                     /\ accounts[q] # NoAccount => accounts[q].handle # accounts'[p].handle,
             accounts'[p] # NoAccount, accounts'[p].id = i,
             accounts'[p].mirror = {}, ~accounts'[p].onboarded
      PROVE  AccountTypes' /\ AccountInv' /\ BudgetOK'
  <2>1. lastUser \in Nat /\ i \in Nat /\ i > lastUser /\ i # 0 BY <1>6 DEF AccountTypes
  <2>2. /\ 1..lastUser \subseteq 1..i /\ i \in 1..i /\ \A j \in 1..lastUser : j # i
        /\ \A j \in 1..i : j \in 1..lastUser \/ j = i
    BY <1>6, <2>1
  <2>3. \A q \in People : accounts[q] # NoAccount => q # p /\ accounts'[q] = accounts[q] /\ accounts[q].id \in 1..lastUser
    BY <1>6 DEF AccountTypes
  <2>4. \A q \in Sessions \ {r} : session'[q] = session[q] /\ session[q].id # i
    <3>1. ASSUME NEW q \in Sessions PROVE session[q].id # i
      <4>1. session[q].id \in Nat /\ session[q].id <= lastUser BY DEF AccountTypes, SessionDocs
      <4> QED BY <1>6, <2>1, <4>1
    <3> QED BY <1>1, <3>1 DEF Moved
  <2>5. \A t \in tokens : t.id # i /\ t.id \in 1..lastUser
    BY <2>2 DEF AccountTypes
  <2>6. AccountTypes'
    <3>1. \A q \in Sessions : AtCall(session'[q]) /\ session'[q].id <= i
      <4>1. ASSUME NEW q \in Sessions PROVE session'[q].id <= i
        <5>1. CASE q = r BY <1>6, <2>1, <5>1
        <5>2. CASE q # r
          <6>1. session'[q] = session[q] /\ session[q].id \in Nat /\ session[q].id <= lastUser
            BY <2>4, <5>2 DEF AccountTypes, SessionDocs
          <6> QED BY <2>1, <6>1
        <5> QED BY <5>1, <5>2
      <4> QED BY <1>1, <4>1 DEF Moved
    <3>2. \A q \in People : accounts'[q] # NoAccount => accounts'[q].id \in 1..i
      BY <1>6, <2>2, <2>3
    <3>3. tokens \subseteq [person : People, id : 1..i, verified : BOOLEAN] BY <2>2 DEF AccountTypes
    <3>4. /\ followed \subseteq (1..i) \X Followables
          /\ live \subseteq (1..i) \X (1..stimuli) /\ tombs \subseteq (1..i) \X (1..stimuli)
          /\ wallets \subseteq 1..i /\ watched \subseteq 1..i
      BY <2>2 DEF AccountTypes
    <3>5. UNCHANGED <<followed, live, tombs, tally, wallets, watched, unbalanced, stimuli, tokens>>
      BY <1>2 DEF Quiet
    <3> QED BY <1>1, <1>6, <2>1, <3>1, <3>2, <3>3, <3>4, <3>5 DEF AccountTypes, Moved
  <2>7. BudgetOK' BY <1>2 DEF BudgetOK
  <2>8. OneOwner'
    <3>1. Claims' \subseteq Claims \cup {<<i, p>>}
      <4>1. ASSUME NEW q \in People, accounts'[q] # NoAccount
            PROVE  <<accounts'[q].id, q>> \in Claims \cup {<<i, p>>}
        BY <1>6, <4>1 DEF Claims
      <4>2. ASSUME NEW q \in Sessions, session'[q].id # 0
            PROVE  <<session'[q].id, session'[q].person>> \in Claims \cup {<<i, p>>}
        BY <1>6, <2>4, <4>2 DEF Claims
      <4> QED BY <1>2, <4>1, <4>2 DEF Claims
    <3>2. \A c \in Claims : c[1] # i
      <4>1. \A q \in People : accounts[q] # NoAccount => accounts[q].id # i BY <2>2, <2>3
      <4>2. \A q \in Sessions : session[q].id # 0 => session[q].id # i BY <1>1, <2>4
      <4> QED BY <2>5, <4>1, <4>2 DEF Claims
    <3> QED BY <3>1, <3>2 DEF AccountInv, OneOwner
  <2>9. Vouched'
    <3> SUFFICES ASSUME NEW q \in People, accounts'[q] # NoAccount
                 PROVE  /\ \A t \in tokens : t.id = accounts'[q].id /\ t.verified => accounts'[q].verified
                        /\ \A s \in Sessions : session'[s].id = accounts'[q].id
                             /\ session'[s].pc \in {"token", "migrate"} /\ session'[s].verified
                             => accounts'[q].verified
                        /\ \A o \in People : accounts'[o] # NoAccount /\ accounts'[o].handle = accounts'[q].handle
                             => o = q
      BY <1>2 DEF Vouched
    <3>1. CASE q = p
      BY <1>6, <2>4, <2>5, <3>1
    <3>2. CASE q # p
      <4>1. accounts'[q] = accounts[q] /\ accounts[q] # NoAccount BY <1>6, <3>2
      <4>2. \A s \in Sessions : session'[s].pc \in {"token", "migrate"} => session'[s] = session[s]
        BY <1>6, <2>4
      <4>3. \A o \in People : accounts'[o] # NoAccount /\ accounts'[o].handle = accounts'[q].handle => o = q
        BY <1>6, <3>2, <4>1 DEF AccountInv, Vouched
      <4> QED BY <4>1, <4>2, <4>3 DEF AccountInv, Vouched
    <3> QED BY <3>1, <3>2
  <2>10. Follows(i) = {} /\ \A j : Follows(j)' = Follows(j)
    <3>1. followed' = followed /\ \A f \in followed : f[1] \in 1..lastUser
      BY <1>2 DEF Quiet, AccountTypes
    <3> QED BY <2>2, <3>1 DEF Follows
  <2>11. Onboardings'
    <3>1. \A q \in Sessions : session'[q].kind = "complete" \/ session'[q].pc = "migrate" => session'[q] = session[q]
      BY <1>4, <1>6, <2>4 DEF FollowKinds
    <3>2. enough' = enough /\ hasty' = hasty BY <1>2 DEF Quiet
    <3>3. \A q \in People : accounts'[q] # NoAccount /\ accounts'[q].onboarded =>
            accounts[q] # NoAccount /\ accounts'[q] = accounts[q]
      BY <1>6
    <3>4. \A j \in 1..i : Cardinality(Follows(j)) >= MinCoins => j \in enough
      <4>1. ~(Cardinality(Follows(i)) >= MinCoins) BY <2>10, FS_EmptySet, AccountAssumption
      <4> QED BY <2>2, <4>1 DEF AccountInv, Onboardings
    <3> QED BY <1>6, <2>10, <3>1, <3>2, <3>3, <3>4 DEF AccountInv, Onboardings
  <2>12. Copied'
    <3>1. session'[r].kind # "follow" BY <1>4, <1>6 DEF FollowKinds
    <3>2. \A q \in People : accounts'[q] # NoAccount =>
            \/ accounts'[q].mirror = Follows(accounts'[q].id)
            \/ accounts[q] # NoAccount /\ accounts'[q] = accounts[q]
      BY <1>6, <2>10
    <3>3. \A j : ~Copies(r, j) BY <1>1 DEF Copies
    <3> QED BY <1>1, <1>2, <3>1, <3>2, <3>3, CopiesMove DEF AccountInv, Quiet
  <2>13. Cleared'
    <3>1. StillAlive
      <4>1. \A j : Alive(j) => Alive(j)' BY <2>3 DEF Alive
      <4>2. Alive(i)' BY <1>6 DEF Alive
      <4>3. \A j \in 1..i : j > lastUser => j = i BY <2>1, <2>2
      <4>4. i >= lastUser BY <2>1
      <4> QED BY <1>6, <2>1, <4>1, <4>2, <4>3, <4>4 DEF StillAlive
    <3> QED BY <1>1, <1>2, <1>6, <3>1, QuietClears DEF AccountInv
  <2>14. Tallied'
    <3>1. session'[r].kind # "delete" BY <1>4, <1>6
    <3> QED BY <1>1, <1>2, <3>1, TallyStays DEF AccountInv, Quiet
  <2> QED BY <2>6, <2>7, <2>8, <2>9, <2>11, <2>12, <2>13, <2>14 DEF AccountInv
<1> QED BY <1>1, <1>5, <1>6

(* Following coins                                                           *)

LEMMA FollowsAre ==
    ASSUME NEW i
    PROVE  IsFiniteSet(Follows(i)) /\ Cardinality(Follows(i)) \in Nat /\ Follows(i) \subseteq Followables
<1>1. IsFiniteSet(Follows(i)) BY AccountAssumption, FS_Subset DEF Follows
<1> QED BY <1>1, FS_CardinalityType DEF Follows

\* More coins are at least as many.
LEMMA MoreCoins ==
    ASSUME NEW S \in SUBSET Followables, NEW T \in SUBSET Followables, S \subseteq T,
           Cardinality(S) >= MinCoins
    PROVE  Cardinality(T) >= MinCoins
<1>1. IsFiniteSet(T) BY AccountAssumption, FS_Subset
<1>2. Cardinality(S) <= Cardinality(T) /\ IsFiniteSet(S) BY <1>1, FS_Subset
<1>3. PICK m, n, k : m = Cardinality(S) /\ n = Cardinality(T) /\ k = MinCoins OBVIOUS
<1>4. m \in Nat /\ n \in Nat /\ k \in Nat BY <1>1, <1>2, <1>3, FS_CardinalityType, AccountAssumption
<1> QED BY <1>2, <1>3, <1>4

LEMMA AskFollowKeeps ==
    ASSUME AccountTypes, AccountInv, BudgetOK, NEW r \in Sessions, NEW t \in tokens,
           NEW kind \in FollowKinds, NEW S \in SUBSET Followables, AskFollow(r, t, kind, S)
    PROVE  AccountTypes' /\ AccountInv' /\ BudgetOK'
<1>1. /\ Moved(r) /\ session[r] = Ended
      /\ session'[r].kind \in FollowKinds /\ session'[r].pc \in {"follow", "unfollow"}
      /\ session'[r].id = t.id /\ session'[r].person = t.person
      /\ session'[r].kind = "complete" =>
           /\ session'[r].pc = "follow" /\ session'[r].coins = S /\ Cardinality(S) >= MinCoins
      /\ session'[r].kind = "follow" => t.id \in unmirrored'
      /\ unmirrored \subseteq unmirrored'
  BY AskFollowIs
<1>2. Quiet /\ UNCHANGED <<accounts, lastUser, tokens>> /\ Spend(1)
  BY Zenon DEF AskFollow, Quiet
<1>3. BudgetOK' /\ stimuli' \in Nat /\ stimuli' >= stimuli BY <1>2, BudgetMoves
<1>4. Ended.kind = "none" /\ Ended.pc = "over" /\ Ended.id = 0 BY EndedIs
<1>5. SameAccounts BY <1>2, SameIs
<1>6. t.id \in 1..lastUser /\ <<t.id, t.person>> \in Claims BY DEF AccountTypes, Claims
<1>7. AccountTypes'
  <2>1. session'[r].id <= lastUser BY <1>1, <1>6
  <2> QED BY <1>1, <1>2, <1>3, <2>1, TypesMove DEF Quiet, AccountTypes
<1>8. OneOwner' BY <1>1, <1>2, <1>6, OwnersMove DEF AccountInv
<1>9. Vouched' BY <1>1, <1>2, <1>5, VouchedMoves DEF AccountInv
<1>10. Onboardings'
  <2>1. session'[r].kind = "complete" =>
          Cardinality(Follows(session'[r].id) \cup session'[r].coins) >= MinCoins
    BY <1>1, FollowsAre, MoreCoins
  <2> QED BY <1>1, <1>2, <2>1, OnboardsMove DEF AccountInv, Quiet
<1>11. Copied'
  <2>1. \A i : ~Copies(r, i) BY <1>1, <1>4 DEF Copies
  <2> QED BY <1>1, <1>2, <2>1, CopiesMove DEF AccountInv, Quiet
<1>12. Cleared' BY <1>1, <1>2, <1>5, AliveStays, QuietClears DEF AccountInv
<1>13. Tallied'
  <2>1. session'[r].kind # "delete" BY <1>1 DEF FollowKinds
  <2> QED BY <1>1, <1>2, <1>4, <2>1, TallyStays DEF AccountInv, Quiet
<1> QED BY <1>3, <1>7, <1>8, <1>9, <1>10, <1>11, <1>12, <1>13 DEF AccountInv

LEMMA MirrorKeeps ==
    ASSUME AccountTypes, AccountInv, BudgetOK, NEW r \in Sessions, Mirror(r)
    PROVE  AccountTypes' /\ AccountInv' /\ BudgetOK'
<1>1. /\ Moved(r) /\ session[r].pc = "mirror" /\ session[r].kind \in {"complete", "toggle"}
      /\ session[r].id \in 1..lastUser
      /\ \/ session'[r] = Ended
         \/ session'[r].pc = "migrate" /\ SameUser(session[r], session'[r]) /\ session[r].kind = "complete"
      /\ \/ UNCHANGED accounts /\ ~Account(session[r].person, session[r].id) /\ UNCHANGED unmirrored
         \/ /\ session[r].person \in People /\ Account(session[r].person, session[r].id)
            /\ Rewritten(session[r].person) /\ UNCHANGED unmirrored
            /\ accounts'[session[r].person].mirror = Follows(session[r].id)
            /\ accounts'[session[r].person].onboarded = accounts[session[r].person].onboarded
         \/ UNCHANGED accounts /\ unmirrored' = unmirrored \cup {session[r].id}
  BY MirrorIs
<1>2. Quiet /\ UNCHANGED <<lastUser, tokens>> /\ (UNCHANGED stimuli \/ Spend(1))
  BY Zenon DEF Mirror, Quiet
<1>3. BudgetOK' /\ stimuli' \in Nat /\ stimuli' >= stimuli BY <1>2, BudgetMoves
<1>4. Ended.kind = "none" /\ Ended.pc = "over" /\ Ended.id = 0 /\ ~Ended.verified BY EndedIs
<1>5. SameAccounts BY <1>1, SameIs
<1>6. /\ session'[r].kind \in {"none", "complete"}
      /\ session'[r].id = 0 \/ (session'[r].id = session[r].id /\ session'[r].person = session[r].person)
      /\ session'[r].pc \in {"over", "migrate"} /\ ~session'[r].verified
  BY <1>1, <1>4 DEF SameUser, Moved, AtCall
<1>7. AccountTypes'
  <2>1. session'[r].id <= lastUser
    <3>1. lastUser \in Nat /\ session[r].id <= lastUser BY DEF AccountTypes
    <3> QED BY <1>6, <3>1
  <2>2. UNCHANGED accounts \/ (\E p \in People : Rewritten(p)) BY <1>1
  <2> QED BY <1>1, <1>2, <1>3, <2>1, <2>2, TypesMove DEF Quiet, AccountTypes
<1>8. OneOwner'
  <2>1. session[r].id # 0 BY <1>1
  <2>2. <<session[r].id, session[r].person>> \in Claims BY <2>1, ClaimIs
  <2> QED BY <1>1, <1>2, <1>5, <1>6, <2>2, OwnersMove DEF AccountInv, SameAccounts
<1>9. Vouched' BY <1>1, <1>2, <1>5, <1>6, VouchedMoves DEF AccountInv
<1>10. Onboardings'
  <2>1. session'[r].pc = "migrate" => session'[r].id \in enough \cup hasty
    BY <1>1, <1>4 DEF SameUser, AccountInv, Onboardings
  <2>2. \A p \in People : accounts'[p] # NoAccount /\ accounts'[p].onboarded =>
             accounts[p] # NoAccount /\ accounts[p].onboarded /\ accounts'[p].id = accounts[p].id
    BY <1>1, <1>5 DEF SameAccounts, Rewritten
  <2> QED BY <1>1, <1>2, <1>6, <2>1, <2>2, OnboardsMove DEF AccountInv, Quiet
<1>11. Copied'
  <2>1. PICK i : i = session[r].id OBVIOUS
  <2>2. ASSUME NEW p \in People, accounts'[p] # NoAccount, accounts'[p].id \notin unmirrored'
        PROVE  \/ accounts'[p].mirror = Follows(accounts'[p].id)
               \/ /\ accounts[p] # NoAccount /\ accounts[p].id = accounts'[p].id
                  /\ accounts[p].mirror = accounts'[p].mirror
                  /\ ~Copies(r, accounts[p].id)
    <3>1. accounts[p] # NoAccount /\ accounts[p].id = accounts'[p].id BY <1>5, <2>2 DEF SameAccounts
    <3>2. CASE accounts[p].id # i
      <4>1. ~Copies(r, accounts[p].id) BY <2>1, <3>2 DEF Copies
      <4>2. accounts'[p] = accounts[p] BY <1>1, <2>1, <3>2 DEF Rewritten, Account
      <4> QED BY <3>1, <4>1, <4>2
    <3>3. CASE accounts[p].id = i
      <4>1. unmirrored' = unmirrored BY <1>1, <2>1, <2>2, <3>1, <3>3
      <4>2. p = session[r].person
        <5>1. i # 0 /\ <<i, session[r].person>> \in Claims BY <1>1, <2>1, ClaimIs
        <5>2. <<i, p>> \in Claims BY <3>1, <3>3 DEF Claims
        <5> QED BY <5>1, <5>2 DEF AccountInv, OneOwner
      <4>3. Account(session[r].person, i) BY <3>1, <3>3, <4>2 DEF Account
      <4>4. accounts'[p].mirror = Follows(i)
        BY <1>1, <2>1, <2>2, <3>1, <3>3, <4>2, <4>3
      <4> QED BY <3>1, <3>3, <4>4
    <3> QED BY <3>2, <3>3
  <2>3. unmirrored \subseteq unmirrored' BY <1>1
  <2> QED BY <1>1, <1>2, <1>6, <2>2, <2>3, CopiesMove DEF AccountInv, Quiet
<1>12. Cleared' BY <1>1, <1>2, <1>5, <1>6, AliveStays, QuietClears DEF AccountInv
<1>13. Tallied' BY <1>1, <1>2, <1>6, TallyStays DEF AccountInv, Quiet
<1> QED BY <1>3, <1>7, <1>8, <1>9, <1>10, <1>11, <1>12, <1>13 DEF AccountInv

LEMMA NotesIs ==
    ASSUME NEW i, Notes(i)
    PROVE  late \subseteq late' /\ (i \notin late' => Alive(i) /\ ~Deleting(i))
  BY DEF Notes

LEMMA FollowedIs ==
    ASSUME NEW r \in Sessions, NEW c \in Followables, ChangeFollow(r, c), NEW i, i = session[r].id
    PROVE  /\ \A j : j # i => Follows(j)' = Follows(j)
           /\ Follows(i)' = IF session[r].pc = "follow" THEN Follows(i) \cup {c} ELSE Follows(i) \ {c}
           /\ enough \subseteq enough' /\ hasty \subseteq hasty'
           /\ Cardinality(Follows(i)') >= MinCoins => i \in enough'
           /\ session[r].pc = "unfollow" /\ Onboarding(i) => i \in hasty'
<1>1. followed' = IF session[r].pc = "follow" THEN followed \cup {<<i, c>>} ELSE followed \ {<<i, c>>}
  BY Zenon DEF ChangeFollow
<1>2. enough' = enough \cup {j \in {i} : Cardinality({d \in Followables : <<j, d>> \in followed'}) >= MinCoins}
  BY Zenon DEF ChangeFollow
<1>3. hasty' = hasty \cup {j \in {i} : session[r].pc = "unfollow" /\ Onboarding(j)}
  BY Zenon DEF ChangeFollow
<1>4. \A j : Follows(j)' = {d \in Followables : <<j, d>> \in followed'} BY DEF Follows
<1>5. \A j : j # i => Follows(j)' = Follows(j) BY <1>1, <1>4 DEF Follows
<1>6. Follows(i)' = IF session[r].pc = "follow" THEN Follows(i) \cup {c} ELSE Follows(i) \ {c}
  BY <1>1, <1>4 DEF Follows
<1>7. Cardinality(Follows(i)') >= MinCoins => i \in enough'
  <2>1. PICK F : F = Follows(i)' OBVIOUS
  <2>2. F = {d \in Followables : <<i, d>> \in followed'} BY <1>4, <2>1
  <2> QED BY <1>2, <2>1, <2>2
<1> QED BY <1>2, <1>3, <1>5, <1>6, <1>7

LEMMA ChangeFollowKeeps ==
    ASSUME AccountTypes, AccountInv, BudgetOK, NEW r \in Sessions, NEW c \in Followables, ChangeFollow(r, c)
    PROVE  AccountTypes' /\ AccountInv' /\ BudgetOK'
<1>1. PICK i : i = session[r].id OBVIOUS
<1>2. /\ Moved(r) /\ session[r].kind \in FollowKinds /\ session[r].pc \in {"follow", "unfollow"}
      /\ c \in session[r].coins /\ i \in 1..lastUser /\ session[r].person \in People
      /\ \/ session'[r] = Ended /\ session[r].kind = "follow"
         \/ /\ session'[r].coins = session[r].coins \ {c}
            /\ session'[r].id = i /\ session'[r].person = session[r].person
            /\ session'[r].kind = session[r].kind
            /\ session'[r].pc = IF session[r].coins \ {c} # {} THEN session[r].pc ELSE "mirror"
  BY <1>1, ChangeFollowIs
<1>3. /\ \A j : j # i => Follows(j)' = Follows(j)
      /\ Follows(i)' = IF session[r].pc = "follow" THEN Follows(i) \cup {c} ELSE Follows(i) \ {c}
      /\ enough \subseteq enough' /\ hasty \subseteq hasty'
      /\ Cardinality(Follows(i)') >= MinCoins => i \in enough'
      /\ session[r].pc = "unfollow" /\ Onboarding(i) => i \in hasty'
  BY <1>1, FollowedIs
<1>4. UNCHANGED <<stimuli, accounts, lastUser, tokens, live, tombs, tally, wallets, watched, unheard,
                  unbalanced, unmirrored>>
  BY Zenon DEF ChangeFollow
<1>5. late \subseteq late' /\ (i \notin late' => Alive(i) /\ ~Deleting(i))
  <2>1. Notes(session[r].id) BY Zenon DEF ChangeFollow
  <2> QED BY <1>1, <2>1, NotesIs
<1>6. Ended.kind = "none" /\ Ended.pc = "over" /\ Ended.id = 0 /\ ~Ended.verified BY EndedIs
<1>7. BudgetOK' /\ stimuli' \in Nat /\ stimuli' >= stimuli BY <1>4, BudgetMoves
<1>8. SameAccounts BY <1>4, SameIs
<1>9. /\ session'[r].pc \in {"over", "follow", "unfollow", "mirror"}
      /\ session'[r].kind # "delete" /\ (session'[r].kind = "none" \/ session'[r].kind = session[r].kind)
      /\ session'[r].id = 0 \/ (session'[r].id = i /\ session'[r].person = session[r].person)
  BY <1>2, <1>6 DEF FollowKinds
<1>10. AccountTypes'
  <2>1. session'[r].id <= lastUser
    <3>1. lastUser \in Nat /\ i <= lastUser BY <1>1 DEF AccountTypes
    <3> QED BY <1>9, <3>1
  <2>2. followed' \subseteq (1..lastUser) \X Followables
    <3>1. followed' \subseteq followed \cup {<<i, c>>} BY <1>1, Zenon DEF ChangeFollow
    <3>2. followed \subseteq (1..lastUser) \X Followables BY DEF AccountTypes
    <3> QED BY <1>2, <3>1, <3>2
  <2> QED BY <1>2, <1>4, <1>7, <2>1, <2>2, TypesMove DEF AccountTypes
<1>11. OneOwner'
  <2>1. <<i, session[r].person>> \in Claims
    <3>1. i # 0 BY <1>2
    <3> QED BY <1>1, <3>1, ClaimIs
  <2> QED BY <1>2, <1>4, <1>9, <2>1, OwnersMove DEF AccountInv
<1>12. Vouched' BY <1>2, <1>4, <1>8, <1>9, VouchedMoves DEF AccountInv
<1>13. Onboardings'
  <2>1. \A j \in 1..lastUser : Cardinality(Follows(j)') >= MinCoins => j \in enough'
    <3>1. \A j \in 1..lastUser : Cardinality(Follows(j)) >= MinCoins => j \in enough
      BY DEF AccountInv, Onboardings
    <3> QED BY <1>3, <3>1
  <2>2. ASSUME NEW q \in Sessions, session'[q].kind = "complete", session'[q].pc = "follow"
        PROVE  \/ session'[q].id \in hasty'
               \/ Cardinality({d \in Followables : <<session'[q].id, d>> \in followed'}
                              \cup session'[q].coins) >= MinCoins
    <3>1. /\ session[q].kind = "complete" /\ session[q].pc = "follow" /\ session'[q].id = session[q].id
          /\ session'[q].coins = IF q = r THEN session[q].coins \ {c} ELSE session[q].coins
      BY <1>1, <1>2, <1>6, <2>2 DEF Moved
    <3>2. PICK j : j = session[q].id OBVIOUS
    <3>a. Follows(j)' = {d \in Followables : <<session'[q].id, d>> \in followed'} BY <3>1, <3>2 DEF Follows
    <3>3. \/ j \in hasty
          \/ Cardinality(Follows(j) \cup session[q].coins) >= MinCoins
      BY <3>1, <3>2 DEF AccountInv, Onboardings
    <3>4. CASE j # i
      <4>1. q # r BY <1>1, <3>2, <3>4
      <4>2. Follows(j)' = Follows(j) BY <1>3, <3>4
      <4> QED BY <1>3, <3>a, <3>1, <3>2, <3>3, <4>1, <4>2
    <3>5. CASE j = i /\ session[r].pc = "unfollow"
      <4>1. Onboarding(i) BY <3>1, <3>2, <3>5 DEF Onboarding
      <4> QED BY <1>3, <3>a, <3>1, <3>2, <3>5, <4>1
    <3>6. CASE j = i /\ session[r].pc = "follow"
      <4>1. Follows(j)' = Follows(j) \cup {c} BY <1>3, <3>6
      <4>2. Follows(j) \cup session[q].coins \subseteq (Follows(j) \cup {c}) \cup session'[q].coins
        BY <3>1
      <4>3. (Follows(j) \cup {c}) \cup session'[q].coins \in SUBSET Followables
        BY <1>2, FollowsAre DEF Moved, SessionDocs
      <4>4. Cardinality(Follows(j) \cup session[q].coins) >= MinCoins =>
              Cardinality((Follows(j) \cup {c}) \cup session'[q].coins) >= MinCoins
        BY <4>2, <4>3, MoreCoins
      <4> QED BY <1>3, <3>a, <3>1, <3>2, <3>3, <4>1, <4>4
    <3> QED BY <1>2, <3>4, <3>5, <3>6
  <2>3. ASSUME NEW q \in Sessions,
               session'[q].pc = "migrate" \/ (session'[q].kind = "complete" /\ session'[q].pc = "mirror")
        PROVE  session'[q].id \in enough' \cup hasty'
    <3>1. CASE q # r
      <4>1. session'[q] = session[q] BY <1>2, <3>1 DEF Moved
      <4> QED BY <1>3, <2>3, <4>1 DEF AccountInv, Onboardings
    <3>2. CASE q = r
      <4>1. /\ session'[r].kind = "complete" /\ session[r].kind = "complete" /\ session'[r].pc = "mirror"
            /\ session'[r].id = i /\ session[r].coins = {c}
        BY <1>2, <1>6, <1>9, <2>3, <3>2
      <4>2. session[r].pc = "follow" BY <1>2, <4>1 DEF AccountTypes, AtCall
      <4>3. i \in hasty \/ Cardinality(Follows(i) \cup {c}) >= MinCoins
        BY <1>1, <4>1, <4>2 DEF AccountInv, Onboardings
      <4>4. Follows(i)' = Follows(i) \cup {c} BY <1>3, <4>2
      <4>5. i \in hasty \/ i \in enough' BY <1>3, <4>3, <4>4
      <4> QED BY <1>3, <3>2, <4>1, <4>5
    <3> QED BY <3>1, <3>2
  <2>4. \A p \in People : accounts'[p] # NoAccount /\ accounts'[p].onboarded =>
          accounts'[p].id \in enough' \cup hasty'
    BY <1>3, <1>4 DEF AccountInv, Onboardings
  <2> QED BY <1>4, <2>1, <2>2, <2>3, <2>4 DEF Onboardings, Follows
<1>14. Copied'
  <2>1. ASSUME NEW p \in People, accounts[p] # NoAccount, accounts[p].id \notin unmirrored
        PROVE  \/ accounts[p].mirror = Follows(accounts[p].id)'
               \/ \E q \in Sessions : Copies(q, accounts[p].id)'
    <3>1. PICK j : j = accounts[p].id OBVIOUS
    <3>2. CASE j = i
      <4>1. session[r].kind # "follow" BY <1>1, <2>1, <3>1, <3>2 DEF AccountInv, Copied
      <4>2. /\ session'[r].id = i /\ session'[r].kind \in {"complete", "toggle"}
            /\ session'[r].pc \in {"follow", "unfollow", "mirror"}
        BY <1>2, <4>1 DEF FollowKinds
      <4>3. Copies(r, accounts[p].id)' BY <1>4, <3>1, <3>2, <4>2 DEF Copies
      <4> QED BY <4>3
    <3>3. CASE j # i
      <4>1. Follows(j)' = Follows(j) BY <1>3, <3>3
      <4>2. accounts[p].mirror = Follows(j) \/ \E q \in Sessions : Copies(q, j)
        BY <2>1, <3>1 DEF AccountInv, Copied
      <4>3. ASSUME NEW q \in Sessions, Copies(q, j) PROVE Copies(q, accounts[p].id)'
        <5>1. q # r BY <1>1, <3>3, <4>3 DEF Copies
        <5>2. session'[q] = session[q] BY <1>2, <5>1 DEF Moved
        <5> QED BY <1>4, <3>1, <4>3, <5>2 DEF Copies
      <4>4. Follows(accounts[p].id)' = Follows(j)' BY <1>4, <3>1 DEF Follows
      <4> QED BY <4>1, <4>2, <4>3, <4>4
    <3> QED BY <3>2, <3>3
  <2>2. \A q \in Sessions : session'[q].kind = "follow" => session'[q].id \in unmirrored
    <3>1. session[r].kind = "follow" => i \in unmirrored BY <1>1 DEF AccountInv, Copied
    <3>2. session'[r].kind = "follow" => session'[r].id \in unmirrored BY <1>2, <1>6, <3>1
    <3> QED BY <1>2, <3>2 DEF Moved, AccountInv, Copied
  <2> QED BY <1>4, <2>1, <2>2 DEF Copied
<1>15. Cleared'
  <2>1. \A j : j # i => (Gone(j)' <=> Gone(j)) BY <1>3, <1>4 DEF Gone, By
  <2>2. \A j : Unheard(j)' <=> Unheard(j) BY <1>4 DEF Unheard
  <2>3. \A q \in Sessions : session'[q].pc \in {"recount", "purge", "erase"} => session'[q] = session[q]
    BY <1>2, <1>9 DEF Moved
  <2>4. \A j \in 1..lastUser' : j > lastUser => j \notin watched'
    BY <1>4 DEF AccountTypes
  <2>5. StillAlive BY <1>4, <1>8, AliveStays
  <2>6. ASSUME NEW j \in 1..lastUser, j \notin late'
        PROVE  \/ /\ Gone(j) => Gone(j)'
                  /\ Unheard(j) => Unheard(j)'
                  /\ j \in watched' => j \in watched
                  /\ j \in wallets \/ j \in unheard => j \in wallets' \/ j \in unheard'
               \/ /\ Alive(j) /\ ~Deleting(j)
                  /\ j \in watched' => j \in wallets' \/ j \in unheard'
    <3>1. CASE j # i BY <1>4, <2>1, <2>2, <3>1
    <3>2. CASE j = i
      <4>1. j \in watched => j \in wallets \/ j \in unheard BY <1>5, <2>6 DEF AccountInv, Cleared
      <4> QED BY <1>4, <1>5, <2>6, <3>2, <4>1
    <3> QED BY <3>1, <3>2
  <2> QED BY <1>5, <2>3, <2>4, <2>5, <2>6, ClearedMoves DEF AccountInv
<1>16. Tallied' BY <1>2, <1>4, <1>5, <1>9, TallyStays DEF AccountInv
<1> QED BY <1>7, <1>10, <1>11, <1>12, <1>13, <1>14, <1>15, <1>16 DEF AccountInv

(* Comments and wallets                                                      *)

\* A request that writes for the user of a token.
LEMMA WritesKeep ==
    ASSUME AccountTypes, AccountInv, BudgetOK, NEW t \in tokens, Spend(1), Notes(t.id),
           UNCHANGED <<accounts, lastUser, tokens, followed, session, unheard, unbalanced, enough, hasty, unmirrored>>,
           live' \subseteq (1..lastUser) \X (1..stimuli'), tombs' \subseteq (1..lastUser) \X (1..stimuli'),
           IsFiniteSet(live'), IsFiniteSet(tombs'), tally' \in Int,
           wallets \subseteq wallets', wallets' \subseteq wallets \cup {t.id}, watched' \subseteq watched \cup {t.id},
           t.id \in watched' => t.id \in wallets' \/ t.id \in watched,
           \A j : j # t.id => By(j, live \cup tombs)' = By(j, live \cup tombs),
           ~unbalanced /\ late = {} /\ ~Deleting(t.id) /\ tally = Cardinality(live \ CountedOff) =>
             tally' = Cardinality(live' \ CountedOff')
    PROVE  AccountTypes' /\ AccountInv' /\ BudgetOK'
<1>1. BudgetOK' BY BudgetMoves
<1>2. t.id \in 1..lastUser BY DEF AccountTypes
<1>3. late \subseteq late' /\ (t.id \notin late' => Alive(t.id) /\ ~Deleting(t.id)) BY NotesIs
<1>4. AccountTypes' BY <1>2 DEF AccountTypes
<1>5. OneOwner'
  <2>1. Claims' = Claims BY DEF Claims
  <2> QED BY <2>1 DEF AccountInv, OneOwner
<1>6. Vouched' BY DEF AccountInv, Vouched
<1>7. Onboardings' BY DEF AccountInv, Onboardings, Follows
<1>8. Copied' BY DEF AccountInv, Copied, Follows, Copies
<1>9. Cleared'
  <2>1. SameAccounts BY SameIs
  <2>2. StillAlive BY <2>1, AliveStays
  <2>3. ASSUME NEW i \in 1..lastUser, i \notin late'
        PROVE  \/ /\ Gone(i) => Gone(i)'
                  /\ Unheard(i) => Unheard(i)'
                  /\ i \in watched' => i \in watched
                  /\ i \in wallets \/ i \in unheard => i \in wallets' \/ i \in unheard'
               \/ /\ Alive(i) /\ ~Deleting(i)
                  /\ i \in watched' => i \in wallets' \/ i \in unheard'
    <3>1. CASE i = t.id
      <4>1. i \in watched => i \in wallets \/ i \in unheard BY <1>3, <2>3 DEF AccountInv, Cleared
      <4> QED BY <1>3, <2>3, <3>1, <4>1
    <3>2. CASE i # t.id
      <4>1. Gone(i) => Gone(i)' BY <3>2 DEF Gone, Follows
      <4>2. Unheard(i) => Unheard(i)' BY <3>2 DEF Unheard
      <4> QED BY <3>2, <4>1, <4>2
    <3> QED BY <3>1, <3>2
  <2>4. \A i \in 1..lastUser' : i > lastUser => i \notin watched'
    <3>1. \A i \in watched' : ~(i > lastUser) BY <1>2 DEF AccountTypes
    <3> QED BY <3>1
  <2> QED BY <1>3, <2>2, <2>3, <2>4, ClearedMoves DEF AccountInv
<1>10. Tallied'
  <2>1. late' = {} => late = {} /\ ~Deleting(t.id) BY <1>3
  <2> QED BY <2>1 DEF AccountInv, Tallied
<1> QED BY <1>1, <1>4, <1>5, <1>6, <1>7, <1>8, <1>9, <1>10 DEF AccountInv

LEMMA UncountedIs ==
    ASSUME AccountTypes, NEW c \in live, ~Deleting(c[1])
    PROVE  c \notin CountedOff
  BY DEF CountedOff, Deleting, AccountTypes, AtCall

LEMMA CommentKeeps ==
    ASSUME AccountTypes, AccountInv, BudgetOK, NEW t \in tokens, Comment(t)
    PROVE  AccountTypes' /\ AccountInv' /\ BudgetOK'
<1>1. PICK c : c = <<t.id, stimuli'>> OBVIOUS
<1>2. /\ Spend(1) /\ Notes(t.id) /\ live' = live \cup {c} /\ tally' = tally + 1
      /\ UNCHANGED <<accounts, lastUser, tokens, followed, tombs, wallets, watched, session, unheard,
                     unbalanced, enough, hasty, unmirrored>>
  BY <1>1 DEF Comment
<1>3. PICK n \in Nat : n = stimuli /\ stimuli' = n + 1 BY <1>2, BudgetAssumption DEF Spend, BudgetOK
<1>4. t.id \in 1..lastUser /\ c = <<t.id, n + 1>> /\ c[1] = t.id BY <1>1, <1>3 DEF AccountTypes
<1>5. 1..n \subseteq 1..(n + 1) /\ n + 1 \in 1..(n + 1) /\ n + 1 \notin 1..n BY <1>3
<1>6. live \subseteq (1..lastUser) \X (1..n) /\ tombs \subseteq (1..lastUser) \X (1..n) BY <1>3 DEF AccountTypes
<1>7. live' \subseteq (1..lastUser) \X (1..(n + 1)) /\ tombs' \subseteq (1..lastUser) \X (1..(n + 1))
  BY <1>2, <1>4, <1>5, <1>6
<1>8. IsFiniteSet(live') /\ IsFiniteSet(tombs') /\ tally' \in Int BY <1>2, FS_AddElement DEF AccountTypes
<1>9. \A j : j # t.id => By(j, live \cup tombs)' = By(j, live \cup tombs) BY <1>2, <1>4 DEF By
<1>10. ASSUME ~Deleting(t.id), tally = Cardinality(live \ CountedOff)
       PROVE  tally' = Cardinality(live' \ CountedOff')
  <2>1. c \notin live BY <1>4, <1>5, <1>6
  <2>2. ~\E r \in Sessions : session[r].pc = "purge" /\ session[r].id = c[1]
    BY <1>4, <1>10 DEF Deleting, AccountTypes, AtCall
  <2>3. live' \ CountedOff' = (live \ CountedOff) \cup {c} BY <1>2, <2>2 DEF CountedOff
  <2>4. IsFiniteSet(live \ CountedOff) BY FS_Subset DEF AccountTypes
  <2>5. PICK A : A = live \ CountedOff OBVIOUS
  <2>6. Cardinality(A \cup {c}) = Cardinality(A) + 1 BY <2>1, <2>4, <2>5, FS_AddElement
  <2> QED BY <1>2, <1>10, <2>3, <2>5, <2>6
<1> QED BY <1>2, <1>3, <1>7, <1>8, <1>9, <1>10, WritesKeep

LEMMA BuryKeeps ==
    ASSUME AccountTypes, AccountInv, BudgetOK, NEW t \in tokens, Bury(t)
    PROVE  AccountTypes' /\ AccountInv' /\ BudgetOK'
<1>1. PICK c \in By(t.id, live) : live' = live \ {c} /\ tombs' = tombs \cup {c} BY DEF Bury
<1>2. /\ Spend(1) /\ Notes(t.id) /\ tally' = tally - 1
      /\ UNCHANGED <<accounts, lastUser, tokens, followed, wallets, watched, session, unheard,
                     unbalanced, enough, hasty, unmirrored>>
  BY DEF Bury
<1>3. PICK n \in Nat : n = stimuli /\ stimuli' = n + 1 BY <1>2, BudgetAssumption DEF Spend, BudgetOK
<1>4. 1..n \subseteq 1..(n + 1) BY <1>3
<1>5. live \subseteq (1..lastUser) \X (1..n) /\ tombs \subseteq (1..lastUser) \X (1..n) BY <1>3 DEF AccountTypes
<1>6. c \in live /\ c[1] = t.id BY DEF By
<1>7. live' \subseteq (1..lastUser) \X (1..(n + 1)) /\ tombs' \subseteq (1..lastUser) \X (1..(n + 1))
  BY <1>1, <1>4, <1>5, <1>6
<1>8. IsFiniteSet(live') /\ IsFiniteSet(tombs') /\ tally' \in Int
  BY <1>1, <1>2, FS_AddElement, FS_RemoveElement DEF AccountTypes
<1>9. \A j : j # t.id => By(j, live \cup tombs)' = By(j, live \cup tombs) BY <1>1, <1>6 DEF By
<1>10. ASSUME ~Deleting(t.id), tally = Cardinality(live \ CountedOff)
       PROVE  tally' = Cardinality(live' \ CountedOff')
  <2>1. c \notin CountedOff BY <1>6, <1>10, UncountedIs
  <2>2. live' \ CountedOff' = (live \ CountedOff) \ {c} BY <1>1, <1>2, <2>1 DEF CountedOff
  <2>3. IsFiniteSet(live \ CountedOff) BY FS_Subset DEF AccountTypes
  <2>4. PICK A : A = live \ CountedOff OBVIOUS
  <2>5. Cardinality(A \ {c}) = Cardinality(A) - 1 BY <1>6, <2>1, <2>3, <2>4, FS_RemoveElement
  <2> QED BY <1>2, <1>10, <2>2, <2>4, <2>5
<1> QED BY <1>2, <1>3, <1>7, <1>8, <1>9, <1>10, WritesKeep

LEMMA LinkWalletKeeps ==
    ASSUME AccountTypes, AccountInv, BudgetOK, NEW t \in tokens, LinkWallet(t)
    PROVE  AccountTypes' /\ AccountInv' /\ BudgetOK'
<1>1. /\ Spend(1) /\ Notes(t.id) /\ wallets' = wallets \cup {t.id} /\ watched' = watched \cup {t.id}
      /\ UNCHANGED <<accounts, lastUser, tokens, followed, live, tombs, tally, session, unheard, unbalanced,
                     enough, hasty, unmirrored>>
  BY DEF LinkWallet
<1>2. PICK n \in Nat : n = stimuli /\ stimuli' = n + 1 BY <1>1, BudgetAssumption DEF Spend, BudgetOK
<1>3. 1..n \subseteq 1..(n + 1) BY <1>2
<1>4. live \subseteq (1..lastUser) \X (1..n) /\ tombs \subseteq (1..lastUser) \X (1..n) BY <1>2 DEF AccountTypes
<1>5. live' \subseteq (1..lastUser) \X (1..(n + 1)) /\ tombs' \subseteq (1..lastUser) \X (1..(n + 1))
  BY <1>1, <1>3, <1>4
<1>6. IsFiniteSet(live') /\ IsFiniteSet(tombs') /\ tally' \in Int BY <1>1 DEF AccountTypes
<1>7. \A j : j # t.id => By(j, live \cup tombs)' = By(j, live \cup tombs) BY <1>1 DEF By
<1>8. tally' = tally /\ live' \ CountedOff' = live \ CountedOff BY <1>1 DEF CountedOff
<1> QED BY <1>1, <1>2, <1>5, <1>6, <1>7, <1>8, WritesKeep

(* deleteAccount                                                             *)

\* What a deletion's step leaves of the rest.
LEMMA DeletionMoves ==
    ASSUME AccountTypes, AccountInv, BudgetOK, UNCHANGED stimuli \/ Spend(1), NEW r \in Sessions, Moved(r),
           session[r].kind \in {"delete", "none"}, session'[r].kind \in {"delete", "none"},
           \/ session'[r].id = 0
           \/ session'[r].id <= lastUser /\ <<session'[r].id, session'[r].person>> \in Claims,
           UNCHANGED <<accounts, lastUser, tokens, followed, enough, hasty, unmirrored>>,
           live' \subseteq live, tombs' \subseteq tombs, tally' \in Int, unbalanced' \in BOOLEAN,
           wallets' \subseteq wallets, watched' \subseteq watched
    PROVE  AccountTypes' /\ BudgetOK' /\ OneOwner' /\ Vouched' /\ Onboardings' /\ Copied'
<1>1. BudgetOK' /\ stimuli' \in Nat /\ stimuli' >= stimuli BY BudgetMoves
<1>2. session'[r].id <= lastUser
  <2>1. lastUser \in Nat BY DEF AccountTypes
  <2> QED BY <2>1
<1>3. AccountTypes' BY <1>1, <1>2, TypesMove DEF AccountTypes
<1>4. SameAccounts BY SameIs
<1>5. OneOwner' BY OwnersMove DEF AccountInv
<1>6. session'[r].pc \notin {"token", "migrate"} BY DEF Moved, AtCall, EntryKinds
<1>7. Vouched' BY <1>4, <1>6, VouchedMoves DEF AccountInv
<1>8. Onboardings' BY <1>6, OnboardsMove DEF AccountInv
<1>9. Copied'
  <2>1. \A i : ~Copies(r, i) BY DEF Copies
  <2> QED BY <2>1, CopiesMove DEF AccountInv
<1> QED BY <1>1, <1>3, <1>5, <1>7, <1>8, <1>9

\* What a deletion's step leaves cleared.
LEMMA DeletionClears ==
    ASSUME AccountTypes, Cleared, NEW r \in Sessions, Moved(r), UNCHANGED <<late, lastUser>>,
           \A i \in 1..lastUser : i \notin late =>
             /\ (Gone(i) => Gone(i)') /\ (Unheard(i) => Unheard(i)')
             /\ i \in watched' => i \in wallets' \/ i \in unheard'
             /\ ~Alive(i)' => ~Alive(i) \/ (Gone(i) /\ Unheard(i)),
           NEW i \in Nat, i = session'[r].id,
           i \notin late => /\ session'[r].pc \in {"recount", "purge", "erase"} => Unheard(i)'
                            /\ session'[r].pc = "erase" => Gone(i)'
    PROVE  Cleared'
<1>1. ASSUME NEW j \in 1..lastUser, j \notin late
      PROVE  /\ j \in watched' => j \in wallets' \/ j \in unheard'
             /\ ~Alive(j)' => Gone(j)' /\ Unheard(j)'
  BY <1>1 DEF Cleared
<1>2. ASSUME NEW q \in Sessions, session'[q].id \notin late
      PROVE  /\ session'[q].pc \in {"recount", "purge", "erase"} => Unheard(session[q].id)'
             /\ session'[q].pc = "erase" => Gone(session[q].id)'
  <2>1. CASE q = r
    <3>1. Unheard(i)' <=> Unheard(session[q].id)' BY <2>1 DEF Unheard
    <3>2. Gone(i)' <=> Gone(session[q].id)' BY <2>1 DEF Gone, Follows, By
    <3> QED BY <1>2, <2>1, <3>1, <3>2
  <2>2. CASE q # r
    <3>1. PICK j : j = session[q].id OBVIOUS
    <3>2. session'[q] = session[q] BY <2>2 DEF Moved
    <3>3. Unheard(j)' <=> Unheard(session[q].id)' BY <3>1, <3>2 DEF Unheard
    <3>4. Gone(j)' <=> Gone(session[q].id)' BY <3>1, <3>2 DEF Gone, Follows, By
    <3>5. session[q].pc \in {"recount", "purge", "erase"} => j \in 1..lastUser
      BY <3>1 DEF AccountTypes, AtCall, SessionDocs
    <3>6. /\ session[q].pc \in {"recount", "purge", "erase"} => Unheard(j)
          /\ session[q].pc = "erase" => Gone(j)
      BY <1>2, <3>1, <3>2 DEF Cleared
    <3>7. /\ session[q].pc \in {"recount", "purge", "erase"} => Unheard(j)'
          /\ session[q].pc = "erase" => Gone(j)'
      BY <1>2, <3>1, <3>2, <3>5, <3>6
    <3> QED BY <3>2, <3>3, <3>4, <3>7
  <2> QED BY <2>1, <2>2
<1> QED BY <1>1, <1>2 DEF Cleared

\* A deletion that starts, ends or goes on, and counts no comment off.
LEMMA DeletionTallies ==
    ASSUME AccountTypes, Tallied, NEW r \in Sessions, Moved(r), UNCHANGED <<live, tally>>, late \subseteq late',
           unbalanced' \in BOOLEAN, unbalanced \/ session[r].pc = "purge" => unbalanced', session'[r].pc # "purge",
           ~unbalanced' /\ session'[r].kind = "delete" =>
             \A q \in Sessions \ {r} : ~(session[q].kind = "delete" /\ session[q].id = session'[r].id)
    PROVE  Tallied'
<1> SUFFICES ASSUME ~unbalanced' PROVE /\ \A p, q \in Sessions : session'[p].kind = "delete"
                                             /\ session'[q].kind = "delete" /\ session'[p].id = session'[q].id => p = q
                                       /\ late' = {} => tally = Cardinality(live \ CountedOff')
  BY DEF Tallied
<1>1. ~unbalanced /\ session[r].pc # "purge" OBVIOUS
<1>2. \A q \in Sessions \ {r} : session'[q] = session[q] BY DEF Moved
<1>3. CountedOff' = CountedOff BY <1>1, <1>2 DEF CountedOff
<1>4. \A p, q \in Sessions : session'[p].kind = "delete" /\ session'[q].kind = "delete"
                             /\ session'[p].id = session'[q].id => p = q
  <2> SUFFICES ASSUME NEW p \in Sessions, NEW q \in Sessions, session'[p].kind = "delete",
                      session'[q].kind = "delete", session'[p].id = session'[q].id, p # q
               PROVE  FALSE
    OBVIOUS
  <2>1. CASE p = r BY <1>2, <2>1
  <2>2. CASE q = r BY <1>2, <2>2
  <2>3. CASE p # r /\ q # r BY <1>1, <1>2, <2>3 DEF Tallied
  <2> QED BY <2>1, <2>2, <2>3
<1> QED BY <1>1, <1>3, <1>4 DEF Tallied

LEMMA AskDeleteKeeps ==
    ASSUME AccountTypes, AccountInv, BudgetOK, NEW r \in Sessions, NEW t \in tokens, AskDelete(r, t)
    PROVE  AccountTypes' /\ AccountInv' /\ BudgetOK'
<1>1. /\ Moved(r) /\ session[r] = Ended
      /\ session'[r].kind = "delete" /\ session'[r].pc = "deregister"
      /\ session'[r].id = t.id /\ session'[r].person = t.person
  BY AskDeleteIs
<1>2. /\ UNCHANGED <<accounts, lastUser, tokens, followed, live, tombs, tally, wallets, watched, unheard,
                     enough, hasty, unmirrored>>
      /\ Spend(1) /\ unbalanced' = (unbalanced \/ Deleting(t.id)) /\ late \subseteq late'
  BY Zenon DEF AskDelete
<1>3. Ended.kind = "none" /\ Ended.pc = "over" BY EndedIs
<1>4. t.id \in 1..lastUser /\ <<t.id, t.person>> \in Claims BY DEF AccountTypes, Claims
<1>5. unbalanced' \in BOOLEAN /\ (~unbalanced' => ~unbalanced /\ ~Deleting(t.id))
  <2>1. unbalanced \in BOOLEAN BY DEF AccountTypes
  <2> QED BY <1>2, <2>1
<1>6. AccountTypes' /\ BudgetOK' /\ OneOwner' /\ Vouched' /\ Onboardings' /\ Copied'
  <2>1. session'[r].id <= lastUser BY <1>1, <1>4
  <2>2. tally' \in Int BY <1>2 DEF AccountTypes
  <2> QED BY <1>1, <1>2, <1>3, <1>4, <1>5, <2>1, <2>2, DeletionMoves
<1>7. Cleared'
  <2>1. \A i : (Gone(i)' <=> Gone(i)) /\ (Unheard(i)' <=> Unheard(i)) BY <1>2 DEF Gone, Unheard, Follows, By
  <2>2. \A q \in Sessions : session'[q].pc \in {"recount", "purge", "erase"} => session'[q] = session[q]
    BY <1>1 DEF Moved
  <2>3. \A i \in 1..lastUser' : i > lastUser => i \notin watched'
    <3>1. \A i \in watched : ~(i > lastUser) BY DEF AccountTypes
    <3> QED BY <1>2, <3>1
  <2>4. StillAlive
    <3>1. SameAccounts BY <1>2, SameIs
    <3> QED BY <1>2, <3>1, AliveStays
  <2> QED BY <1>2, <2>1, <2>2, <2>3, <2>4, ClearedMoves DEF AccountInv
<1>8. Tallied'
  <2>1. ~unbalanced' => \A q \in Sessions \ {r} : ~(session[q].kind = "delete" /\ session[q].id = session'[r].id)
    BY <1>1, <1>5 DEF Deleting
  <2> QED BY <1>1, <1>2, <1>3, <1>5, <2>1, DeletionTallies DEF AccountInv
<1> QED BY <1>6, <1>7, <1>8 DEF AccountInv

\* Another deletion of the same user unbalances the count.
LEMMA OneDeletion ==
    ASSUME AccountInv, NEW r \in Sessions, session[r].kind = "delete"
    PROVE  ~unbalanced => \A q \in Sessions \ {r} : ~(session[q].kind = "delete" /\ session[q].id = session[r].id)
  BY DEF AccountInv, Tallied

LEMMA DeregisterKeeps ==
    ASSUME AccountTypes, AccountInv, BudgetOK, NEW r \in Sessions, Deregister(r)
    PROVE  AccountTypes' /\ AccountInv' /\ BudgetOK'
<1>1. PICK i : i = session[r].id OBVIOUS
<1>2. session[r].pc = "deregister" /\ GoOn(r, "recount") BY DEF Deregister
<1>3. /\ Moved(r) /\ session[r].kind = "delete" /\ session'[r].pc = "recount"
      /\ SameUser(session[r], session'[r]) /\ i \in 1..lastUser
  BY <1>1, <1>2, DeletesIs
<1>4. session'[r].id = i /\ session'[r].person = session[r].person /\ session'[r].kind = "delete"
  BY <1>1, <1>3 DEF SameUser
<1>5. /\ UNCHANGED <<accounts, lastUser, tokens, followed, live, tombs, tally, wallets, late, unbalanced,
                     enough, hasty, unmirrored>>
      /\ \/ watched' = (IF i \in wallets THEN watched \ {i} ELSE watched) /\ UNCHANGED <<stimuli, unheard>>
         \/ Spend(1) /\ unheard' = unheard \cup {i} /\ UNCHANGED watched
  BY <1>1, Zenon DEF Deregister
<1>6. AccountTypes' /\ BudgetOK' /\ OneOwner' /\ Vouched' /\ Onboardings' /\ Copied'
  <2>1. session'[r].id <= lastUser BY <1>3, <1>4
  <2>2. tally' \in Int /\ unbalanced' \in BOOLEAN BY <1>5 DEF AccountTypes
  <2>3. <<session'[r].id, session'[r].person>> \in Claims
    <3>1. session[r].id # 0 BY <1>1, <1>3
    <3> QED BY <1>1, <1>4, <3>1, ClaimIs
  <2> QED BY <1>3, <1>4, <1>5, <2>1, <2>2, <2>3, DeletionMoves
<1>7. Cleared'
  <2>1. \A j : Gone(j) => Gone(j)' BY <1>5 DEF Gone, Follows, By
  <2>2. \A j : Unheard(j) => Unheard(j)' BY <1>5 DEF Unheard
  <2>3. \A j \in 1..lastUser : j \notin late => (j \in watched' => j \in wallets' \/ j \in unheard')
    BY <1>5 DEF AccountInv, Cleared
  <2>4. \A j \in 1..lastUser : Alive(j)' <=> Alive(j) BY <1>5 DEF Alive
  <2>5. i \notin late => Unheard(i)'
    <3>1. i \notin late => (i \in watched => i \in wallets \/ i \in unheard) BY <1>3 DEF AccountInv, Cleared
    <3> QED BY <1>5, <3>1 DEF Unheard
  <2>6. i \in Nat BY <1>3 DEF AccountTypes
  <2> QED BY <1>3, <1>4, <1>5, <2>1, <2>2, <2>3, <2>4, <2>5, <2>6, DeletionClears DEF AccountInv
<1>8. Tallied'
  <2>1. unbalanced \in BOOLEAN BY DEF AccountTypes
  <2> QED BY <1>1, <1>2, <1>3, <1>4, <1>5, <2>1, OneDeletion, DeletionTallies DEF AccountInv
<1> QED BY <1>6, <1>7, <1>8 DEF AccountInv

LEMMA RecountKeeps ==
    ASSUME AccountTypes, AccountInv, BudgetOK, NEW r \in Sessions, Recount(r)
    PROVE  AccountTypes' /\ AccountInv' /\ BudgetOK'
<1>1. PICK i : i = session[r].id OBVIOUS
<1>2. session[r].pc = "recount" /\ GoOn(r, "purge") BY DEF Recount
<1>3. /\ Moved(r) /\ session[r].kind = "delete" /\ session'[r].pc = "purge"
      /\ SameUser(session[r], session'[r]) /\ i \in 1..lastUser
  BY <1>1, <1>2, DeletesIs
<1>4. session'[r].id = i /\ session'[r].person = session[r].person /\ session'[r].kind = "delete"
  BY <1>1, <1>3 DEF SameUser
<1>5. /\ UNCHANGED <<stimuli, accounts, lastUser, tokens, followed, live, tombs, wallets, watched, late,
                     unheard, enough, hasty, unmirrored>>
      /\ tally' = tally - Cardinality(By(i, live \cup tombs))
      /\ unbalanced' = (unbalanced \/ By(i, tombs) # {})
  BY <1>1, Zenon DEF Recount
<1>6. IsFiniteSet(live) /\ IsFiniteSet(tombs) /\ tally \in Int /\ unbalanced \in BOOLEAN BY DEF AccountTypes
<1>7. tally' \in Int /\ unbalanced' \in BOOLEAN
  <2>1. By(i, live \cup tombs) \subseteq live \cup tombs BY DEF By
  <2>2. IsFiniteSet(live \cup tombs) BY <1>6, FS_Union
  <2>3. Cardinality(By(i, live \cup tombs)) \in Nat BY <2>1, <2>2, FS_Subset, FS_CardinalityType
  <2> QED BY <1>5, <1>6, <2>3
<1>8. AccountTypes' /\ BudgetOK' /\ OneOwner' /\ Vouched' /\ Onboardings' /\ Copied'
  <2>1. session'[r].id <= lastUser BY <1>3, <1>4
  <2>2. <<session'[r].id, session'[r].person>> \in Claims
    <3>1. session[r].id # 0 BY <1>1, <1>3
    <3> QED BY <1>1, <1>4, <3>1, ClaimIs
  <2> QED BY <1>3, <1>4, <1>5, <1>7, <2>1, <2>2, DeletionMoves
<1>9. Cleared'
  <2>1. \A j : (Gone(j) => Gone(j)') /\ (Unheard(j)' <=> Unheard(j)) BY <1>5 DEF Gone, Unheard, Follows, By
  <2>2. \A j \in 1..lastUser : j \notin late => (j \in watched' => j \in wallets' \/ j \in unheard')
    BY <1>5 DEF AccountInv, Cleared
  <2>3. \A j \in 1..lastUser : Alive(j)' <=> Alive(j) BY <1>5 DEF Alive
  <2>4. i \notin late => Unheard(i) BY <1>1, <1>2 DEF AccountInv, Cleared
  <2>5. i \in Nat BY <1>3 DEF AccountTypes
  <2> QED BY <1>3, <1>4, <1>5, <2>1, <2>2, <2>3, <2>4, <2>5, DeletionClears DEF AccountInv
<1>10. Tallied'
  <2> SUFFICES ASSUME ~unbalanced' PROVE /\ \A p, q \in Sessions : session'[p].kind = "delete"
                                               /\ session'[q].kind = "delete" /\ session'[p].id = session'[q].id => p = q
                                         /\ late = {} => tally' = Cardinality(live \ CountedOff')
    BY <1>5 DEF Tallied
  <2>1. ~unbalanced /\ By(i, tombs) = {} BY <1>5, <1>6
  <2>2. \A q \in Sessions \ {r} : session'[q] = session[q] BY <1>3 DEF Moved
  <2>3. \A q \in Sessions : session'[q].kind = session[q].kind /\ session'[q].id = session[q].id
    BY <1>1, <1>3, <1>4, <2>2
  <2>4. \A p, q \in Sessions : session'[p].kind = "delete" /\ session'[q].kind = "delete"
                               /\ session'[p].id = session'[q].id => p = q
    BY <2>1, <2>3 DEF AccountInv, Tallied
  <2>5. \A q \in Sessions : session[q].pc = "purge" => session[q].kind = "delete" BY DEF AccountTypes, AtCall
  <2>6. \A q \in Sessions : session[q].pc = "purge" => session[q].id # i
    BY <1>1, <1>2, <1>3, <1>4, <2>3, <2>4, <2>5
  <2>7. PICK A, B : A = live \ CountedOff /\ B = By(i, live) OBVIOUS
  <2>8. B \subseteq A BY <2>6, <2>7 DEF CountedOff, By
  <2>9. live \ CountedOff' = A \ B
    <3>1. \A c \in live : (\E q \in Sessions : session'[q].pc = "purge" /\ session'[q].id = c[1])
                          <=> (c[1] = i \/ \E q \in Sessions : session[q].pc = "purge" /\ session[q].id = c[1])
      BY <1>2, <1>3, <1>4, <2>2, <2>3
    <3> QED BY <1>5, <2>7, <3>1 DEF CountedOff, By
  <2>10. By(i, live \cup tombs) = B BY <2>1, <2>7 DEF By
  <2>11. IsFiniteSet(A) BY <1>6, <2>7, FS_Subset
  <2>12. Cardinality(A \ B) = Cardinality(A) - Cardinality(B)
    <3>1. A \cap B = B BY <2>8
    <3> QED BY <2>11, <3>1, FS_Difference
  <2>13. late = {} => tally = Cardinality(A) BY <2>1, <2>7 DEF AccountInv, Tallied
  <2>14. tally' = tally - Cardinality(B) BY <1>5, <2>10
  <2>15. late = {} => tally' = Cardinality(A \ B) BY <2>12, <2>13, <2>14
  <2> QED BY <2>4, <2>9, <2>15
<1> QED BY <1>8, <1>9, <1>10 DEF AccountInv

LEMMA StopDeleteKeeps ==
    ASSUME AccountTypes, AccountInv, BudgetOK, NEW r \in Sessions, StopDelete(r)
    PROVE  AccountTypes' /\ AccountInv' /\ BudgetOK'
<1>1. /\ session[r].kind = "delete" /\ Spend(1) /\ End(r) /\ unbalanced' = (unbalanced \/ (session[r].pc = "purge"))
      /\ UNCHANGED <<accounts, lastUser, tokens, followed, live, tombs, tally, wallets, watched, late,
                     unheard, enough, hasty, unmirrored>>
  BY Zenon DEF StopDelete
<1>2. Moved(r) /\ session'[r] = Ended BY <1>1, EndIs
<1>3. Ended.kind = "none" /\ Ended.pc = "over" /\ Ended.id = 0 BY EndedIs
<1>4. unbalanced' \in BOOLEAN /\ (unbalanced \/ session[r].pc = "purge" => unbalanced') /\ tally' \in Int
  BY <1>1 DEF AccountTypes
<1>5. AccountTypes' /\ BudgetOK' /\ OneOwner' /\ Vouched' /\ Onboardings' /\ Copied'
  BY <1>1, <1>2, <1>3, <1>4, DeletionMoves
<1>6. Cleared'
  <2>1. \A j : (Gone(j)' <=> Gone(j)) /\ (Unheard(j)' <=> Unheard(j)) BY <1>1 DEF Gone, Unheard, Follows, By
  <2>2. \A j \in 1..lastUser : j \notin late => (j \in watched' => j \in wallets' \/ j \in unheard')
    BY <1>1 DEF AccountInv, Cleared
  <2>3. \A j \in 1..lastUser : Alive(j)' <=> Alive(j) BY <1>1 DEF Alive
  <2> QED BY <1>1, <1>2, <1>3, <2>1, <2>2, <2>3, DeletionClears DEF AccountInv
<1>7. Tallied' BY <1>1, <1>2, <1>3, <1>4, DeletionTallies DEF AccountInv
<1> QED BY <1>5, <1>6, <1>7 DEF AccountInv

LEMMA EraseKeeps ==
    ASSUME AccountTypes, AccountInv, BudgetOK, NEW r \in Sessions, Erase(r)
    PROVE  AccountTypes' /\ AccountInv' /\ BudgetOK'
<1>1. PICK i : i = session[r].id OBVIOUS
<1>2. /\ Moved(r) /\ session[r].pc = "erase" /\ session[r].kind = "delete" /\ session'[r] = Ended
      /\ i \in 1..lastUser
      /\ accounts' \in [People -> AccountDocs \cup {NoAccount}]
      /\ \A p \in People : accounts'[p] = accounts[p]
                           \/ (accounts'[p] = NoAccount /\ accounts[p] # NoAccount /\ accounts[p].id = i)
  BY <1>1, EraseIs
<1>3. UNCHANGED <<stimuli, lastUser, tokens, followed, live, tombs, tally, wallets, watched, late,
                  unheard, unbalanced, enough, hasty, unmirrored>>
  BY Zenon DEF Erase
<1>4. Ended.kind = "none" /\ Ended.pc = "over" /\ Ended.id = 0 /\ ~Ended.verified BY EndedIs
<1>5. \A p \in People : accounts'[p] # NoAccount => accounts[p] # NoAccount /\ accounts'[p] = accounts[p]
  BY <1>2
<1>6. \A q \in Sessions \ {r} : session'[q] = session[q] BY <1>2 DEF Moved
<1>7. BudgetOK' BY <1>3 DEF BudgetOK
<1>8. AccountTypes'
  <2>1. lastUser \in Nat BY DEF AccountTypes
  <2>2. \A q \in Sessions : session'[q].id <= lastUser /\ AtCall(session'[q])
    BY <1>2, <1>4, <1>6, <2>1 DEF AccountTypes, Moved
  <2>3. \A p \in People : accounts'[p] # NoAccount => accounts'[p].id \in 1..lastUser
    BY <1>5 DEF AccountTypes
  <2> QED BY <1>2, <1>3, <2>2, <2>3 DEF AccountTypes, Moved
<1>9. OneOwner' BY <1>2, <1>3, <1>4, <1>5, OwnersMove DEF AccountInv
<1>10. Vouched'
  <2>1. \A q \in Sessions : session'[q].pc \in {"token", "migrate"} => session'[q] = session[q]
    BY <1>2, <1>4, <1>6
  <2> QED BY <1>3, <1>5, <2>1 DEF AccountInv, Vouched
<1>11. Onboardings' BY <1>2, <1>3, <1>4, <1>5, OnboardsMove DEF AccountInv
<1>12. Copied'
  <2>1. \A j : ~Copies(r, j) BY <1>2 DEF Copies
  <2> QED BY <1>2, <1>3, <1>4, <1>5, <2>1, CopiesMove DEF AccountInv
<1>13. Cleared'
  <2>1. \A j : (Gone(j)' <=> Gone(j)) /\ (Unheard(j)' <=> Unheard(j)) BY <1>3 DEF Gone, Unheard, Follows, By
  <2>2. \A j \in 1..lastUser : j \notin late => (j \in watched' => j \in wallets' \/ j \in unheard')
    BY <1>3 DEF AccountInv, Cleared
  <2>3. i \notin late => Gone(i) /\ Unheard(i) BY <1>1, <1>2 DEF AccountInv, Cleared
  <2>4. \A j \in 1..lastUser : ~Alive(j)' => ~Alive(j) \/ j = i BY <1>2 DEF Alive
  <2> QED BY <1>2, <1>3, <1>4, <2>1, <2>2, <2>3, <2>4, DeletionClears DEF AccountInv
<1>14. Tallied'
  <2>1. unbalanced \in BOOLEAN BY DEF AccountTypes
  <2> QED BY <1>2, <1>3, <1>4, <2>1, DeletionTallies DEF AccountInv
<1> QED BY <1>7, <1>8, <1>9, <1>10, <1>11, <1>12, <1>13, <1>14 DEF AccountInv

LEMMA PurgeKeeps ==
    ASSUME AccountTypes, AccountInv, BudgetOK, NEW r \in Sessions, Purge(r)
    PROVE  AccountTypes' /\ AccountInv' /\ BudgetOK'
<1>1. PICK i : i = session[r].id OBVIOUS
<1>2. session[r].pc = "purge" /\ GoOn(r, "erase") BY DEF Purge
<1>3. /\ Moved(r) /\ session[r].kind = "delete" /\ session'[r].pc = "erase"
      /\ SameUser(session[r], session'[r]) /\ i \in 1..lastUser
  BY <1>1, <1>2, DeletesIs
<1>4. session'[r].id = i /\ session'[r].person = session[r].person /\ session'[r].kind = "delete"
  BY <1>1, <1>3 DEF SameUser
<1>5. /\ UNCHANGED <<stimuli, accounts, lastUser, tokens, tally, watched, late, unheard, unbalanced, enough>>
      /\ live' = live \ By(i, live) /\ tombs' = tombs \ By(i, tombs)
      /\ followed' = {f \in followed : f[1] # i} /\ wallets' = wallets \ {i}
      /\ unmirrored' = unmirrored \cup {i} /\ hasty' = hasty \cup {j \in {i} : Onboarding(j)}
  BY <1>1, Zenon DEF Purge
<1>6. \A q \in Sessions \ {r} : session'[q] = session[q] BY <1>3 DEF Moved
<1>7. BudgetOK' /\ stimuli' \in Nat /\ stimuli' >= stimuli BY <1>5, BudgetMoves
<1>8. SameAccounts BY <1>5, SameIs
<1>9. Follows(i)' = {} /\ \A j : j # i => Follows(j)' = Follows(j) BY <1>5 DEF Follows
<1>10. AccountTypes'
  <2>1. session'[r].id <= lastUser BY <1>3, <1>4
  <2>2. /\ live' \subseteq live /\ tombs' \subseteq tombs /\ wallets' \subseteq wallets
        /\ followed' \subseteq (1..lastUser) \X Followables /\ tally' \in Int /\ unbalanced' \in BOOLEAN
        /\ tokens' \subseteq [person : People, id : 1..lastUser, verified : BOOLEAN]
    BY <1>5 DEF AccountTypes
  <2> QED BY <1>3, <1>5, <1>7, <2>1, <2>2, TypesMove
<1>11. OneOwner'
  <2>1. <<session'[r].id, session'[r].person>> \in Claims
    <3>1. session[r].id # 0 BY <1>1, <1>3
    <3> QED BY <1>1, <1>4, <3>1, ClaimIs
  <2> QED BY <1>3, <1>5, <2>1, OwnersMove DEF AccountInv
<1>12. Vouched' BY <1>3, <1>5, <1>8, VouchedMoves DEF AccountInv
<1>13. Onboardings'
  <2>1. \A j \in 1..lastUser : Cardinality(Follows(j)') >= MinCoins => j \in enough
    <3>1. ~(Cardinality({}) >= MinCoins) BY FS_EmptySet, AccountAssumption
    <3> QED BY <1>9, <3>1 DEF AccountInv, Onboardings
  <2>2. hasty \subseteq hasty' /\ (Onboarding(i) => i \in hasty') BY <1>5
  <2>3. ASSUME NEW q \in Sessions, session'[q].kind = "complete", session'[q].pc = "follow"
        PROVE  \/ session'[q].id \in hasty'
               \/ Cardinality({d \in Followables : <<session'[q].id, d>> \in followed'}
                              \cup session'[q].coins) >= MinCoins
    <3>1. session'[q] = session[q] BY <1>4, <1>6, <2>3
    <3>2. PICK j : j = session[q].id OBVIOUS
    <3>3. Follows(j)' = {d \in Followables : <<session'[q].id, d>> \in followed'} BY <3>1, <3>2 DEF Follows
    <3>4. j \in hasty \/ Cardinality(Follows(j) \cup session[q].coins) >= MinCoins
      BY <2>3, <3>1, <3>2 DEF AccountInv, Onboardings
    <3>5. CASE j = i
      <4>1. Onboarding(i) BY <2>3, <3>1, <3>2, <3>5 DEF Onboarding
      <4> QED BY <2>2, <3>1, <3>2, <3>5, <4>1
    <3>6. CASE j # i BY <1>9, <2>2, <3>1, <3>2, <3>3, <3>4, <3>6
    <3> QED BY <3>5, <3>6
  <2>4. \A q \in Sessions : session'[q].pc = "migrate" \/ (session'[q].kind = "complete" /\ session'[q].pc = "mirror")
          => session'[q].id \in enough \cup hasty'
    <3>1. \A q \in Sessions : session'[q].pc = "migrate" \/ session'[q].kind = "complete" => session'[q] = session[q]
      BY <1>3, <1>4, <1>6
    <3> QED BY <2>2, <3>1 DEF AccountInv, Onboardings
  <2>5. \A p \in People : accounts[p] # NoAccount /\ accounts[p].onboarded => accounts[p].id \in enough \cup hasty'
    BY <2>2 DEF AccountInv, Onboardings
  <2> QED BY <1>5, <2>1, <2>3, <2>4, <2>5 DEF Onboardings, Follows
<1>14. Copied'
  <2>1. ASSUME NEW p \in People, accounts[p] # NoAccount, accounts[p].id \notin unmirrored'
        PROVE  \/ accounts[p].mirror = Follows(accounts[p].id)'
               \/ \E q \in Sessions : Copies(q, accounts[p].id)'
    <3>1. PICK j : j = accounts[p].id OBVIOUS
    <3>2. j # i /\ j \notin unmirrored BY <1>5, <2>1, <3>1
    <3>3. Follows(j)' = Follows(j) BY <1>9, <3>2
    <3>4. accounts[p].mirror = Follows(j) \/ \E q \in Sessions : Copies(q, j)
      BY <2>1, <3>1, <3>2 DEF AccountInv, Copied
    <3>5. ASSUME NEW q \in Sessions, Copies(q, j) PROVE Copies(q, accounts[p].id)'
      <4>1. q # r BY <1>3, <3>5 DEF Copies
      <4>2. session'[q] = session[q] BY <1>6, <4>1
      <4> QED BY <1>5, <3>1, <3>5, <4>2 DEF Copies
    <3>6. Follows(accounts[p].id)' = Follows(j)' BY <1>5, <3>1 DEF Follows
    <3> QED BY <3>1, <3>3, <3>4, <3>5, <3>6
  <2>2. \A q \in Sessions : session'[q].kind = "follow" => session'[q].id \in unmirrored'
    <3>1. \A q \in Sessions : session'[q].kind = "follow" => session'[q] = session[q] BY <1>4, <1>6
    <3> QED BY <1>5, <3>1 DEF AccountInv, Copied
  <2> QED BY <1>5, <2>1, <2>2 DEF Copied
<1>15. By(i, live \cup tombs)' = {} /\ \A j : By(j, live \cup tombs)' \subseteq By(j, live \cup tombs)
  BY <1>5 DEF By
<1>16. Cleared'
  <2>1. \A j : Gone(j) => Gone(j)' BY <1>5, <1>9, <1>15 DEF Gone
  <2>2. \A j : Unheard(j)' <=> Unheard(j) BY <1>5 DEF Unheard
  <2>3. Gone(i)' BY <1>5, <1>9, <1>15 DEF Gone
  <2>4. i \notin late => Unheard(i) BY <1>1, <1>2 DEF AccountInv, Cleared
  <2>5. \A j \in 1..lastUser : j \notin late => (j \in watched' => j \in wallets' \/ j \in unheard')
    BY <1>5, <2>4 DEF AccountInv, Cleared, Unheard
  <2>6. \A j \in 1..lastUser : Alive(j)' <=> Alive(j) BY <1>5 DEF Alive
  <2>7. i \in Nat BY <1>3 DEF AccountTypes
  <2> QED BY <1>3, <1>4, <1>5, <2>1, <2>2, <2>3, <2>4, <2>5, <2>6, <2>7, DeletionClears DEF AccountInv
<1>17. Tallied'
  <2>1. live' \ CountedOff' = live \ CountedOff
    <3>1. \A c : (\E q \in Sessions : session[q].pc = "purge" /\ session[q].id = c[1])
                 <=> (c[1] = i \/ \E q \in Sessions : session'[q].pc = "purge" /\ session'[q].id = c[1])
      <4>1. \A q \in Sessions : session'[q].pc = "purge" => session'[q] = session[q] BY <1>3, <1>6
      <4>2. \A q \in Sessions : session[q].pc = "purge" => session[q].id = i \/ session'[q] = session[q]
        BY <1>1, <1>6
      <4> QED BY <1>1, <1>2, <4>1, <4>2
    <3> QED BY <1>5, <3>1 DEF CountedOff, By
  <2>2. \A q \in Sessions : session'[q].kind = session[q].kind /\ session'[q].id = session[q].id
    BY <1>1, <1>3, <1>4, <1>6
  <2>3. UNCHANGED <<tally, late, unbalanced>> BY <1>5
  <2>4. ~unbalanced => \A p, q \in Sessions : session'[p].kind = "delete" /\ session'[q].kind = "delete"
                                              /\ session'[p].id = session'[q].id => p = q
    BY <2>2 DEF AccountInv, Tallied
  <2>5. ~unbalanced /\ late = {} => tally = Cardinality(live \ CountedOff) BY DEF AccountInv, Tallied
  <2> QED BY <2>1, <2>3, <2>4, <2>5 DEF Tallied
<1> QED BY <1>7, <1>10, <1>11, <1>12, <1>13, <1>14, <1>16, <1>17 DEF AccountInv

LEMMA AccountsStart ==
    ASSUME AccountInit, BudgetOK
    PROVE  AccountTypes /\ AccountInv
<1>1. \A r \in Sessions : session[r] = Ended BY DEF AccountInit
<1>2. /\ Ended \in SessionDocs /\ AtCall(Ended) /\ Ended.pc = "over" /\ Ended.kind = "none"
      /\ Ended.id = 0 /\ ~Ended.verified
  BY EndedIs
<1>3. /\ followed = {} /\ live = {} /\ tombs = {} /\ tally = 0 /\ wallets = {} /\ watched = {}
      /\ late = {} /\ unheard = {} /\ unbalanced = FALSE /\ enough = {} /\ hasty = {} /\ unmirrored = {}
  BY DEF AccountInit
<1>4. \/ accounts = [p \in People |-> NoAccount] /\ lastUser = 0 /\ tokens = {}
      \/ \E p \in People, a \in AccountDocs :
           /\ accounts = [q \in People |-> IF q # p THEN NoAccount ELSE a] /\ lastUser = 1
           /\ a # NoAccount /\ a.id = 1 /\ ~a.onboarded /\ a.mirror = {}
           /\ tokens = {[person |-> p, id |-> 1, verified |-> FALSE]}
  <2>1. ASSUME NEW p \in People, NEW h \in Handles,
               accounts = [q \in People |-> IF q # p THEN NoAccount ELSE
                  [id |-> 1, handle |-> h, verified |-> FALSE, onboarded |-> FALSE, mirror |-> {}]],
               lastUser = 1, tokens = {[person |-> p, id |-> 1, verified |-> FALSE]}
        PROVE  \E a \in AccountDocs :
                 /\ accounts = [q \in People |-> IF q # p THEN NoAccount ELSE a]
                 /\ a # NoAccount /\ a.id = 1 /\ ~a.onboarded /\ a.mirror = {}
    <3>1. PICK a : a = [id |-> 1, handle |-> h, verified |-> FALSE, onboarded |-> FALSE, mirror |-> {}] OBVIOUS
    <3>2. a \in AccountDocs /\ a.id = 1 /\ ~a.onboarded /\ a.mirror = {} BY <3>1 DEF AccountDocs
    <3>3. a # NoAccount BY <3>2, AccountAssumption
    <3>4. accounts = [q \in People |-> IF q # p THEN NoAccount ELSE a] BY <2>1, <3>1
    <3> QED BY <3>2, <3>3, <3>4
  <2>2. \/ accounts = [p \in People |-> NoAccount] /\ lastUser = 0 /\ tokens = {}
        \/ \E p \in People, h \in Handles :
             /\ accounts = [q \in People |-> IF q # p THEN NoAccount ELSE
                  [id |-> 1, handle |-> h, verified |-> FALSE, onboarded |-> FALSE, mirror |-> {}]]
             /\ lastUser = 1 /\ tokens = {[person |-> p, id |-> 1, verified |-> FALSE]}
    BY Zenon DEF AccountInit
  <2> QED BY <2>1, <2>2
<1>5. /\ accounts \in [People -> AccountDocs \cup {NoAccount}] /\ lastUser \in {0, 1}
      /\ \A p \in People : accounts[p] # NoAccount =>
           /\ lastUser = 1 /\ accounts[p].id = 1 /\ ~accounts[p].onboarded /\ accounts[p].mirror = {}
           /\ \A q \in People : accounts[q] # NoAccount => q = p
           /\ \A t \in tokens : t.person = p
      /\ \A t \in tokens : t.id = 1 /\ ~t.verified /\ lastUser = 1 /\ accounts[t.person] # NoAccount
      /\ \A t \in tokens : t \in [person : People, id : {1}, verified : BOOLEAN]
  <2>1. CASE accounts = [p \in People |-> NoAccount] /\ lastUser = 0 /\ tokens = {} BY <2>1
  <2>2. ASSUME NEW p \in People, NEW a \in AccountDocs,
               accounts = [q \in People |-> IF q # p THEN NoAccount ELSE a], lastUser = 1,
               a # NoAccount, a.id = 1, ~a.onboarded, a.mirror = {},
               tokens = {[person |-> p, id |-> 1, verified |-> FALSE]}
        PROVE  <1>5!:
    <3>1. accounts \in [People -> AccountDocs \cup {NoAccount}] /\ lastUser \in {0, 1} BY <2>2
    <3>2. \A q \in People : accounts[q] # NoAccount => q = p /\ accounts[q] = a BY <2>2
    <3>3. accounts[p] = a BY <2>2
    <3>4. PICK t : t = [person |-> p, id |-> 1, verified |-> FALSE] OBVIOUS
    <3>5. t.person = p /\ t.id = 1 /\ ~t.verified /\ t \in [person : People, id : {1}, verified : BOOLEAN]
      BY <3>4
    <3>6. \A u \in tokens : u = t BY <2>2, <3>4
    <3> QED BY <2>2, <3>1, <3>2, <3>3, <3>5, <3>6
  <2> QED BY <1>4, <2>1, <2>2
<1>6. AccountTypes
  <2>1. \A t \in tokens : t \in [person : People, id : 1..lastUser, verified : BOOLEAN]
    <3>1. lastUser = 1 => 1..lastUser = {1} OBVIOUS
    <3> QED BY <1>5, <3>1
  <2>2. session \in [Sessions -> SessionDocs] /\ \A r \in Sessions : AtCall(session[r]) /\ session[r].id <= lastUser
    BY <1>1, <1>2, <1>5 DEF AccountInit
  <2>3. \A p \in People : accounts[p] # NoAccount => accounts[p].id \in 1..lastUser BY <1>5
  <2>4. IsFiniteSet({}) BY FS_EmptySet
  <2>5. lastUser \in Nat /\ 0 \in Int /\ FALSE \in BOOLEAN BY <1>5
  <2> QED BY <1>3, <1>5, <2>1, <2>2, <2>3, <2>4, <2>5 DEF AccountTypes
<1>7. OneOwner
  <2>1. \A c \in Claims : c[2] \in People /\ accounts[c[2]] # NoAccount BY <1>1, <1>2, <1>5 DEF Claims
  <2> QED BY <1>5, <2>1 DEF OneOwner
<1>8. \A i : Follows(i) = {} BY <1>3 DEF Follows
<1>9. Vouched BY <1>1, <1>2, <1>5 DEF Vouched
<1>10. Onboardings
  <2>1. ~(Cardinality({}) >= MinCoins) BY FS_EmptySet, AccountAssumption
  <2> QED BY <1>1, <1>2, <1>5, <1>8, <2>1 DEF Onboardings
<1>11. Copied BY <1>1, <1>2, <1>5, <1>8 DEF Copied
<1>12. Cleared BY <1>1, <1>2, <1>3, <1>8 DEF Cleared, Gone, Unheard, By
<1>13. Tallied
  <2>1. live \ CountedOff = {} BY <1>3
  <2> QED BY <1>1, <1>2, <1>3, <2>1, FS_EmptySet DEF Tallied
<1> QED BY <1>6, <1>7, <1>9, <1>10, <1>11, <1>12, <1>13 DEF AccountInv

LEMMA AccountsMove ==
    ASSUME [Next]_vars, part = "accounts"
    PROVE  AccountNext \/ UNCHANGED <<accountVars, stimuli>>
  BY DEF Next, vars, readerVars

LEMMA AccountsKeep ==
    ASSUME AccountTypes, AccountInv, BudgetOK, AccountNext
    PROVE  AccountTypes' /\ AccountInv' /\ BudgetOK'
<1>1. ASSUME NEW r \in Sessions,
             \/ \E p \in People, h \in Handles, v \in BOOLEAN :
                  Enter(r, "signup", p, h, FALSE) \/ Enter(r, "google", p, h, v)
             \/ \E p \in People : Enter(r, "login", p, NoAccount, FALSE)
             \/ FindEmail(r) \/ FindHandle(r) \/ MarkVerified(r) \/ Onboarded(r) \/ SetOnboarded(r)
      PROVE  AccountTypes' /\ AccountInv' /\ BudgetOK'
  BY <1>1, EntriesKeep
<1>2. ASSUME NEW r \in Sessions, CreateUser(r) \/ GiveToken(r) \/ Mirror(r)
      PROVE  AccountTypes' /\ AccountInv' /\ BudgetOK'
  BY <1>2, CreateUserKeeps, GiveTokenKeeps, MirrorKeeps
<1>3. ASSUME NEW r \in Sessions, NEW t \in tokens, NEW S \in SUBSET Followables, NEW kind \in FollowKinds,
             AskFollow(r, t, kind, S)
      PROVE  AccountTypes' /\ AccountInv' /\ BudgetOK'
  BY <1>3, AskFollowKeeps
<1>4. ASSUME NEW r \in Sessions, NEW c \in Followables, ChangeFollow(r, c)
      PROVE  AccountTypes' /\ AccountInv' /\ BudgetOK'
  BY <1>4, ChangeFollowKeeps
<1>5. ASSUME NEW t \in tokens, Comment(t) \/ Bury(t) \/ LinkWallet(t)
      PROVE  AccountTypes' /\ AccountInv' /\ BudgetOK'
  BY <1>5, CommentKeeps, BuryKeeps, LinkWalletKeeps
<1>6. ASSUME NEW r \in Sessions, \/ \E t \in tokens : AskDelete(r, t)
                                 \/ Deregister(r) \/ Recount(r) \/ Purge(r) \/ Erase(r) \/ StopDelete(r)
      PROVE  AccountTypes' /\ AccountInv' /\ BudgetOK'
  BY <1>6, AskDeleteKeeps, DeregisterKeeps, RecountKeeps, PurgeKeeps, EraseKeeps, StopDeleteKeeps
<1> QED BY <1>1, <1>2, <1>3, <1>4, <1>5, <1>6, Zenon DEF AccountNext, FollowKinds

LEMMA AccountsStand ==
    ASSUME AccountTypes, AccountInv, BudgetOK, UNCHANGED <<accountVars, stimuli>>
    PROVE  AccountTypes' /\ AccountInv' /\ BudgetOK'
<1>1. AccountTypes' /\ BudgetOK' BY DEF AccountTypes, accountVars, BudgetOK
<1>2. OneOwner' /\ Vouched' BY DEF AccountInv, OneOwner, Claims, Vouched, accountVars
<1>3. Onboardings' /\ Copied' BY DEF AccountInv, Onboardings, Copied, Copies, Follows, accountVars
<1>4. Cleared' /\ Tallied'
  BY DEF AccountInv, Cleared, Gone, Unheard, Follows, By, Alive, Tallied, CountedOff, accountVars
<1> QED BY <1>1, <1>2, <1>3, <1>4 DEF AccountInv

LEMMA WholeAccounts ==
    ASSUME AccountTypes, AccountInv
    PROVE  DeletionIsComplete /\ AccountsAddUp
<1>1. DeletionIsComplete
  <2>1. \A i \in 1..lastUser : (~Alive(i) /\ i \notin late) =>
          /\ Follows(i) = {} /\ By(i, live \cup tombs) = {} /\ i \notin wallets
          /\ i \in watched => i \in unheard
    BY DEF AccountInv, Cleared, Gone, Unheard
  <2>2. (\A r \in Sessions : session[r].pc # "purge") => live \ CountedOff = live BY DEF CountedOff
  <2> QED BY <2>1, <2>2 DEF DeletionIsComplete, AccountInv, Tallied
<1>2. AccountsAddUp
  <2> SUFFICES ASSUME NEW p \in People, accounts[p] # NoAccount
               PROVE  /\ \A t \in tokens : t.id = accounts[p].id =>
                           t.person = p /\ (t.verified => accounts[p].verified)
                      /\ accounts[p].onboarded => accounts[p].id \in enough \cup hasty
                      /\ \A q \in People \ {p} : accounts[q] # NoAccount => accounts[q].handle # accounts[p].handle
                      /\ (accounts[p].id \notin unmirrored /\ ~\E r \in Sessions : session[r].id = accounts[p].id) =>
                           accounts[p].mirror = Follows(accounts[p].id)
    BY DEF AccountsAddUp
  <2>1. \A t \in tokens : t.id = accounts[p].id => t.person = p
    <3>1. <<accounts[p].id, p>> \in Claims /\ \A t \in tokens : <<t.id, t.person>> \in Claims BY DEF Claims
    <3> QED BY <3>1 DEF AccountInv, OneOwner
  <2>2. \A t \in tokens : t.id = accounts[p].id => (t.verified => accounts[p].verified)
    BY DEF AccountInv, Vouched
  <2>3. accounts[p].onboarded => accounts[p].id \in enough \cup hasty BY DEF AccountInv, Onboardings
  <2>4. \A q \in People \ {p} : accounts[q] # NoAccount => accounts[q].handle # accounts[p].handle
    BY DEF AccountInv, Vouched
  <2>5. (accounts[p].id \notin unmirrored /\ ~\E r \in Sessions : session[r].id = accounts[p].id) =>
          accounts[p].mirror = Follows(accounts[p].id)
    BY DEF AccountInv, Copied, Copies
  <2> QED BY <2>1, <2>2, <2>3, <2>4, <2>5
<1> QED BY <1>1, <1>2

\* Accounts come and go whole, for any number of people, names, coins and
\* requests: nothing is left of a deleted user, the article counts the comments
\* it shows, a token vouches for its owner alone, an onboarded user has followed
\* enough coins and the account's copy of them is exact - unless a late write,
\* an overlap or a failure the properties name came between.
THEOREM AccountsStayWhole == Spec => []AccountsAreWhole
<1> DEFINE Inv == part = "accounts" => AccountTypes /\ AccountInv /\ BudgetOK
<1>1. Init => Inv
  <2> SUFFICES ASSUME Init PROVE AccountTypes /\ AccountInv /\ BudgetOK OBVIOUS
  <2>1. BudgetOK BY PlatformAssumption, BudgetAssumption DEF Init, BudgetOK
  <2> QED BY <2>1, AccountsStart DEF Init
<1>2. Inv /\ [Next]_vars => Inv'
  <2> SUFFICES ASSUME Inv, [Next]_vars, part' = "accounts" PROVE AccountTypes' /\ AccountInv' /\ BudgetOK'
    OBVIOUS
  <2>1. part = "accounts" BY PartStays
  <2> QED BY <2>1, AccountsMove, AccountsKeep, AccountsStand
<1>3. Inv => AccountsAreWhole BY WholeAccounts DEF AccountsAreWhole
<1> QED BY <1>1, <1>2, <1>3, PTL DEF Spec

(* The coin catalogue: lookups and identities                                *)

\* The steps of a profile that come after what is known here was not enough.
Past == {"gecko", "memo", "final", "upsert", "write"}
LookupPc == Settled \cup Past \cup {"identity", "local"}
LookupDocs ==
  [pc : LookupPc, kind : {"profile", "stats"}, name : CoinNames \cup {NoCoin}, id : Nat,
   coin : CoinIds \cup {NoCoin}, db : BOOLEAN, known : BOOLEAN]

Under(r) == lookup[r].pc \notin Settled

\* The names the registry has a coin for, and the market snapshot.
HasEntry == {n \in CoinNames : InRegistry(n) # {}}
HasSnapshot == {n \in CoinNames : Snapshot(n) # {}}

\* What a request knows at each call when the registry knows the names E, the
\* snapshot S and the listing L, and i ids were given out; what was known here
\* when it asked still is.
AtLookup(k, E, S, L, i) ==
  /\ k.pc \notin Settled => k.name \in CoinNames
  /\ k.pc \in {"final", "upsert", "write"} =>
       k.kind = "profile" /\ k.name \in CoinIds /\ k.coin \in Target(k.name)
  /\ k.pc \in {"identity", "local", "gecko"} => k.kind = "profile"
  /\ k.pc \in {"gecko", "upsert"} => LooksLikeGecko(k.name)
  /\ k.pc \in Past /\ LooksLikeGecko(k.name) => k.id = 0
  /\ k.pc = "local" /\ k.id # 0 => k.name \in E
  /\ k.pc \in {"identity", "local"} /\ k.known => k.name \in E \cup S \cup L
  /\ k.pc \in Past /\ k.kind = "profile" /\ k.known => k.db \/ k.name \in S
  /\ k.pc \in Past /\ k.kind = "stats" /\ k.known => k.name \in S
  /\ k.pc = "missed" => ~k.known
  /\ k.pc = "failed" => k.name \in DOMAIN Numbered
  /\ k.id <= i

\* What the memo can hold for a name.
Memoed(n) ==
  {Unasked, NoCoin} \cup (IF n \in CoinIds THEN Target(n) ELSE {})
                    \cup (IF n \in DOMAIN Numbered THEN {LookupFailed} ELSE {})

LookupTypes ==
  /\ registry \in [CoinIds -> Nat] /\ first \in [CoinIds -> Nat] /\ ids \in Nat
  /\ \A c \in CoinIds : registry[c] <= ids
  /\ doubtful \in SUBSET CoinIds
  /\ lookup \in [Lookups -> LookupDocs] /\ \A r \in Lookups : AtLookup(lookup[r], HasEntry, HasSnapshot, listed, ids)
  /\ DOMAIN memo = CoinNames /\ \A n \in CoinNames : memo[n] \in Memoed(n)

\* A coin nobody doubts has had one id, which is its own; one that is looked up
\* beyond the registry has none yet, and is looked up once.
Identified ==
  /\ \A c \in CoinIds \ doubtful :
       /\ registry[c] = first[c]
       /\ \A d \in CoinIds \ (doubtful \cup {c}) : registry[c] # 0 => registry[d] # registry[c]
  /\ \A r \in Lookups : LET k == lookup[r] IN
       /\ Under(r) /\ k.name \in DOMAIN Numbered => Target(k.name) \subseteq doubtful
       /\ k.pc \in Past /\ k.kind = "profile" /\ k.name \in DOMAIN Gecko \ doubtful => registry[k.name] = 0
  /\ \A r, s \in Lookups : r # s /\ Under(r) /\ Under(s) /\ lookup[r].name \in DOMAIN Gecko
                            /\ lookup[s].name = lookup[r].name => lookup[r].name \in doubtful

InternalIds == {registry[c] : c \in CoinIds} \ {0}

\* Without doubt the queue's answers and the worker's are ids in use.
AnswersInUse ==
  /\ queue \in [CoinNames -> [tries : Nat, answers : SUBSET Nat]]
  /\ resolver \in [pc : {"idle", "registry", "identity", "settle"}, name : CoinNames \cup {NoCoin}, answer : Nat]
  /\ resolver.pc # "idle" => resolver.name \in CoinNames
  /\ doubtful = {} => /\ resolver.answer \in InternalIds \cup {0}
                      /\ \A n \in CoinNames : queue[n].answers \subseteq InternalIds

LookupInv == Identified /\ AnswersInUse

\* No symbol is written as CoinMarketCap writes an id.
SymbolsAreNoNumbers == \A c \in DOMAIN Gecko : Gecko[c] \notin DOMAIN Numbered

LEMMA TargetIs ==
    /\ \A n \in CoinNames : Target(n) \subseteq DOMAIN Gecko
    /\ \A n \in DOMAIN Gecko : Target(n) = {n}
    /\ \A n \in CoinNames \ DOMAIN Numbered : n \in CoinIds <=> n \in DOMAIN Gecko
    /\ \A n \in DOMAIN Numbered : n \notin DOMAIN Gecko /\ Target(n) = {c \in DOMAIN Gecko : Gecko[c] = Numbered[n]}
    /\ DOMAIN Gecko \subseteq CoinIds /\ CoinIds \subseteq CoinNames /\ NoCoin \notin CoinIds
    /\ DOMAIN Numbered \subseteq CoinIds
  BY CatalogueAssumption, LookupAssumption DEF Target, CoinIds, CoinNames, SymbolOf

LEMMA ResolutionsAre ==
    ASSUME NEW n \in CoinNames, NEW c \in Resolutions(n)
    PROVE  n \in CoinIds /\ c \in Target(n)
  BY TargetIs DEF Resolutions, LooksLikeGecko

LEMMA LookupsStart == CatalogueInit => LookupTypes /\ LookupInv
<1> SUFFICES ASSUME CatalogueInit PROVE LookupTypes /\ LookupInv OBVIOUS
<1>1. Unmade \in LookupDocs /\ Unmade.pc = "idle" /\ Unmade.known = FALSE /\ Unmade.id = 0
      /\ Unmade.name = NoCoin
  BY DEF Unmade, LookupDocs, LookupPc, Settled
<1>2. /\ registry = [c \in CoinIds |-> 0] /\ ids = 0 /\ first = registry /\ doubtful = {}
      /\ lookup = [r \in Lookups |-> Unmade] /\ memo = [n \in CoinNames |-> Unasked]
      /\ queue = [n \in CoinNames |-> [tries |-> 0, answers |-> {}]] /\ resolver = Unsearched
  BY DEF CatalogueInit
<1>3. AtLookup(Unmade, HasEntry, HasSnapshot, listed, ids) BY <1>1, <1>2 DEF AtLookup, Past, Settled
<1>4. LookupTypes BY <1>1, <1>2, <1>3 DEF LookupTypes, Memoed
<1>5. Identified BY <1>1, <1>2 DEF Identified, Under, Past, Settled
<1>6. AnswersInUse BY <1>2 DEF AnswersInUse, Unsearched
<1> QED BY <1>4, <1>5, <1>6 DEF LookupInv

LEMMA AtLookupGrows ==
    ASSUME NEW k, NEW E, NEW F, E \subseteq F, NEW S, NEW L, NEW i \in Nat, NEW j \in Nat, i <= j,
           k.id \in Nat, AtLookup(k, E, S, L, i)
    PROVE  AtLookup(k, F, S, L, j)
  BY DEF AtLookup

\* A request goes on to its next call, and nothing it read changes.
Advances(r, n) ==
  /\ n \in LookupDocs /\ lookup' = [lookup EXCEPT ![r] = n]
  /\ n.name = lookup[r].name /\ n.kind = lookup[r].kind /\ n.known = lookup[r].known
  /\ UNCHANGED <<registry, ids, doubtful, ranks, listed>> /\ (Registered \/ UNCHANGED first)

LEMMA FirstIs ==
    ASSUME LookupTypes, registry' \in [CoinIds -> Nat], Registered \/ UNCHANGED first
    PROVE  /\ first' \in [CoinIds -> Nat]
           /\ \A c \in CoinIds : first[c] # 0 => first'[c] = first[c]
           /\ \A c \in CoinIds : first[c] = 0 => first'[c] = 0 \/ first'[c] = registry'[c]
           /\ Registered => \A c \in CoinIds : first[c] = 0 => first'[c] = registry'[c]
  BY DEF LookupTypes, Registered

LEMMA StoresStand ==
    ASSUME UNCHANGED <<registry, ranks>>
    PROVE  HasEntry' = HasEntry /\ HasSnapshot' = HasSnapshot
  BY DEF HasEntry, HasSnapshot, InRegistry, Snapshot, Named, Foremost

LEMMA AdvanceTypes ==
    ASSUME LookupTypes, NEW r \in Lookups, NEW n, Advances(r, n), AtLookup(n, HasEntry, HasSnapshot, listed, ids),
           DOMAIN memo' = CoinNames, \A m \in CoinNames : memo'[m] \in Memoed(m)
    PROVE  LookupTypes'
<1>1. HasEntry' = HasEntry /\ HasSnapshot' = HasSnapshot BY StoresStand DEF Advances
<1>2. lookup' \in [Lookups -> LookupDocs] BY DEF LookupTypes, Advances
<1>3. \A q \in Lookups : AtLookup(lookup[q], HasEntry, HasSnapshot, listed, ids) BY DEF LookupTypes
<1>4. \A q \in Lookups : lookup'[q] = IF q = r THEN n ELSE lookup[q] BY DEF LookupTypes, Advances
<1>5. \A q \in Lookups : AtLookup(lookup'[q], HasEntry, HasSnapshot, listed, ids) BY <1>3, <1>4
<1>6. UNCHANGED <<registry, ids, doubtful, listed>> BY DEF Advances
<1>8. registry' \in [CoinIds -> Nat] /\ (Registered \/ UNCHANGED first) BY <1>6 DEF LookupTypes, Advances
<1>9. first' \in [CoinIds -> Nat] BY <1>8, FirstIs
<1>7. \A q \in Lookups : AtLookup(lookup'[q], HasEntry', HasSnapshot', listed', ids') BY <1>1, <1>5, <1>6
<1> QED BY <1>2, <1>6, <1>7, <1>9 DEF LookupTypes, Memoed

LEMMA AdvanceKeeps ==
    ASSUME LookupTypes, Identified, NEW r \in Lookups, NEW n, Advances(r, n),
           n.pc \notin Settled => Under(r),
           n.pc \in Past /\ n.kind = "profile" /\ n.name \in DOMAIN Gecko \ doubtful => registry[n.name] = 0
    PROVE  Identified'
<1>1. \A q \in Lookups : lookup'[q] = IF q = r THEN n ELSE lookup[q] BY DEF LookupTypes, Advances
<1>2. UNCHANGED <<registry, ids, doubtful>> /\ n.name = lookup[r].name /\ (Registered \/ UNCHANGED first)
  BY DEF Advances
<1>3. \A q \in Lookups : Under(q)' => Under(q) /\ lookup'[q].name = lookup[q].name
  BY <1>1, <1>2 DEF Under
<1>4. \A c \in CoinIds \ doubtful' : /\ registry'[c] = first'[c]
                                     /\ \A d \in CoinIds \ (doubtful' \cup {c}) :
                                          registry'[c] # 0 => registry'[d] # registry'[c]
  <2>1. registry' \in [CoinIds -> Nat] BY <1>2 DEF LookupTypes
  <2>2. \A c \in CoinIds \ doubtful : first'[c] = first[c]
    BY <1>2, <2>1, FirstIs DEF Identified, LookupTypes
  <2> QED BY <1>2, <2>2 DEF Identified
<1>5. \A q \in Lookups : /\ Under(q)' /\ lookup'[q].name \in DOMAIN Numbered =>
                              Target(lookup'[q].name) \subseteq doubtful'
  BY <1>2, <1>3 DEF Identified
<1>6. \A q \in Lookups : lookup'[q].pc \in Past /\ lookup'[q].kind = "profile"
                         /\ lookup'[q].name \in DOMAIN Gecko \ doubtful' => registry'[lookup'[q].name] = 0
  BY <1>1, <1>2 DEF Identified
<1>7. \A q, s \in Lookups : q # s /\ Under(q)' /\ Under(s)' /\ lookup'[q].name \in DOMAIN Gecko
                            /\ lookup'[s].name = lookup'[q].name => lookup'[q].name \in doubtful'
  BY <1>2, <1>3 DEF Identified
<1> QED BY <1>4, <1>5, <1>6, <1>7 DEF Identified

LEMMA AnswersStand ==
    ASSUME AnswersInUse, UNCHANGED <<registry, queue, resolver, doubtful>>
    PROVE  AnswersInUse'
  BY DEF AnswersInUse, InternalIds

\* The worker's and the queue's answers when neither is touched.
LEMMA AnswersMove ==
    ASSUME AnswersInUse, doubtful \subseteq doubtful', UNCHANGED <<registry, queue, resolver>>
    PROVE  AnswersInUse'
<1>1. InternalIds' = InternalIds BY DEF InternalIds
<1> QED BY <1>1 DEF AnswersInUse

LEMMA QueuedStays ==
    ASSUME AnswersInUse, NEW n \in CoinNames, QueuedName(n), UNCHANGED <<registry, resolver, doubtful>>
    PROVE  AnswersInUse'
<1>1. PICK e : e = [queue[n] EXCEPT !.tries = queue[n].tries + 1] OBVIOUS
<1>2. queue' = [queue EXCEPT ![n] = e] BY <1>1 DEF QueuedName
<1>3. queue[n] \in [tries : Nat, answers : SUBSET Nat] BY DEF AnswersInUse
<1>4. e \in [tries : Nat, answers : SUBSET Nat] /\ e.answers = queue[n].answers BY <1>1, <1>3
<1>5. InternalIds' = InternalIds BY DEF InternalIds
<1>6. queue' \in [CoinNames -> [tries : Nat, answers : SUBSET Nat]] BY <1>2, <1>4 DEF AnswersInUse
<1>7. \A m \in CoinNames : queue'[m].answers = queue[m].answers BY <1>2, <1>4 DEF AnswersInUse
<1> QED BY <1>5, <1>6, <1>7 DEF AnswersInUse

SameLookup(k, n) ==
  n.name = k.name /\ n.kind = k.kind /\ n.known = k.known

\* A request's next call, with what it learned.
WithId(k, pc, i) == [k EXCEPT !.pc = pc, !.id = i]
WithCoin(k, pc, c) == [k EXCEPT !.pc = pc, !.coin = c]
WithDb(k, pc, d) == [k EXCEPT !.db = d, !.pc = pc]

LEMMA EditPc ==
    ASSUME NEW k \in LookupDocs, NEW pc \in LookupPc, NEW n, n = [k EXCEPT !.pc = pc]
    PROVE  n \in LookupDocs /\ SameLookup(k, n) /\ n.pc = pc /\ n.id = k.id /\ n.coin = k.coin /\ n.db = k.db
<1>1. PICK N, C, B : N = CoinNames \cup {NoCoin} /\ C = CoinIds \cup {NoCoin} /\ B = {"profile", "stats"}
  OBVIOUS
<1>2. k \in [pc : LookupPc, kind : B, name : N, id : Nat, coin : C, db : BOOLEAN, known : BOOLEAN]
  BY <1>1 DEF LookupDocs
<1>3. n \in [pc : LookupPc, kind : B, name : N, id : Nat, coin : C, db : BOOLEAN, known : BOOLEAN]
  BY <1>1, <1>2
<1> QED BY <1>1, <1>2, <1>3 DEF LookupDocs, SameLookup

LEMMA EditId ==
    ASSUME NEW k \in LookupDocs, NEW pc \in LookupPc, NEW i \in Nat, NEW n, n = WithId(k, pc, i)
    PROVE  n \in LookupDocs /\ SameLookup(k, n) /\ n.pc = pc /\ n.id = i /\ n.coin = k.coin /\ n.db = k.db
<1>1. PICK N, C, B : N = CoinNames \cup {NoCoin} /\ C = CoinIds \cup {NoCoin} /\ B = {"profile", "stats"}
  OBVIOUS
<1>2. k \in [pc : LookupPc, kind : B, name : N, id : Nat, coin : C, db : BOOLEAN, known : BOOLEAN]
  BY <1>1 DEF LookupDocs
<1>3. n \in [pc : LookupPc, kind : B, name : N, id : Nat, coin : C, db : BOOLEAN, known : BOOLEAN]
  BY <1>1, <1>2 DEF WithId
<1> QED BY <1>1, <1>2, <1>3 DEF LookupDocs, SameLookup, WithId

LEMMA EditCoin ==
    ASSUME NEW k \in LookupDocs, NEW pc \in LookupPc, NEW c \in CoinIds \cup {NoCoin}, NEW n, n = WithCoin(k, pc, c)
    PROVE  n \in LookupDocs /\ SameLookup(k, n) /\ n.pc = pc /\ n.id = k.id /\ n.coin = c /\ n.db = k.db
<1>1. PICK N, C, B : N = CoinNames \cup {NoCoin} /\ C = CoinIds \cup {NoCoin} /\ B = {"profile", "stats"}
  OBVIOUS
<1>2. k \in [pc : LookupPc, kind : B, name : N, id : Nat, coin : C, db : BOOLEAN, known : BOOLEAN]
  BY <1>1 DEF LookupDocs
<1>3. n \in [pc : LookupPc, kind : B, name : N, id : Nat, coin : C, db : BOOLEAN, known : BOOLEAN]
  BY <1>1, <1>2 DEF WithCoin
<1> QED BY <1>1, <1>2, <1>3 DEF LookupDocs, SameLookup, WithCoin

LEMMA EditDb ==
    ASSUME NEW k \in LookupDocs, NEW pc \in LookupPc, NEW d \in BOOLEAN, NEW n, n = WithDb(k, pc, d)
    PROVE  n \in LookupDocs /\ SameLookup(k, n) /\ n.pc = pc /\ n.id = k.id /\ n.coin = k.coin /\ n.db = d
<1>1. PICK N, C, B : N = CoinNames \cup {NoCoin} /\ C = CoinIds \cup {NoCoin} /\ B = {"profile", "stats"}
  OBVIOUS
<1>2. k \in [pc : LookupPc, kind : B, name : N, id : Nat, coin : C, db : BOOLEAN, known : BOOLEAN]
  BY <1>1 DEF LookupDocs
<1>3. n \in [pc : LookupPc, kind : B, name : N, id : Nat, coin : C, db : BOOLEAN, known : BOOLEAN]
  BY <1>1, <1>2 DEF WithDb
<1> QED BY <1>1, <1>2, <1>3 DEF LookupDocs, SameLookup, WithDb

LEMMA BecomesIs ==
    ASSUME LookupTypes, NEW r \in Lookups, NEW pc \in LookupPc, Becomes(r, pc),
           UNCHANGED <<registry, ids, doubtful, ranks, listed>>, Registered \/ UNCHANGED first
    PROVE  \E n : /\ Advances(r, n) /\ n.pc = pc /\ n.id = lookup[r].id /\ n.coin = lookup[r].coin
                  /\ n.db = lookup[r].db
<1>1. PICK n : n = [lookup[r] EXCEPT !.pc = pc] OBVIOUS
<1>2. lookup[r] \in LookupDocs BY DEF LookupTypes
<1>3. lookup' = [lookup EXCEPT ![r] = n] BY <1>1 DEF Becomes
<1>4. n \in LookupDocs /\ SameLookup(lookup[r], n) /\ n.pc = pc /\ n.id = lookup[r].id /\ n.coin = lookup[r].coin
      /\ n.db = lookup[r].db
  BY <1>1, <1>2, EditPc
<1>5. Advances(r, n) BY <1>3, <1>4 DEF Advances, SameLookup
<1> QED BY <1>4, <1>5

\* A request that is over, or that goes on with what it knows.
LEMMA BecomesKeeps ==
    ASSUME LookupTypes, LookupInv, NEW r \in Lookups, NEW pc \in Settled \cup {"memo", "write"}, Becomes(r, pc),
           UNCHANGED <<registry, ids, doubtful, ranks, listed, queue, resolver>>, Registered \/ UNCHANGED first,
           DOMAIN memo' = CoinNames, \A m \in CoinNames : memo'[m] \in Memoed(m),
           pc \notin Settled => lookup[r].pc \in Past, pc = "write" => lookup[r].pc = "final",
           pc = "missed" => ~lookup[r].known, pc = "failed" => lookup[r].name \in DOMAIN Numbered
    PROVE  LookupTypes' /\ LookupInv'
<1>1. pc \in LookupPc BY DEF LookupPc, Past
<1>2. PICK n : Advances(r, n) /\ n.pc = pc /\ n.id = lookup[r].id /\ n.coin = lookup[r].coin /\ n.db = lookup[r].db
  BY <1>1, BecomesIs
<1>3. lookup[r] \in LookupDocs /\ AtLookup(lookup[r], HasEntry, HasSnapshot, listed, ids) BY DEF LookupTypes
<1>4. n.name = lookup[r].name /\ n.kind = lookup[r].kind /\ n.known = lookup[r].known BY <1>2 DEF Advances
<1>5. AtLookup(n, HasEntry, HasSnapshot, listed, ids) BY <1>2, <1>3, <1>4 DEF AtLookup, Past, Settled
<1>6. LookupTypes' BY <1>2, <1>5, AdvanceTypes
<1>7. Identified' BY <1>2, <1>4, AdvanceKeeps DEF LookupInv, Identified, Past, Settled, Under
<1>8. AnswersInUse' BY AnswersStand DEF LookupInv
<1> QED BY <1>6, <1>7, <1>8 DEF LookupInv

LEMMA IdentitiesAre ==
    ASSUME LookupTypes, NEW n \in CoinNames, NEW i \in Identities(n)
    PROVE  i \in Nat /\ i <= ids /\ (i # 0 => n \in HasEntry)
<1>1. CASE n \in CoinIds /\ registry[n] # 0
  <2>1. n \in InRegistry(n) BY <1>1 DEF InRegistry
  <2> QED BY <1>1, <2>1 DEF Identities, LookupTypes, HasEntry
<1>2. CASE ~(n \in CoinIds /\ registry[n] # 0) /\ InRegistry(n) # {}
  BY <1>2 DEF Identities, LookupTypes, HasEntry, InRegistry
<1>3. CASE ~(n \in CoinIds /\ registry[n] # 0) /\ InRegistry(n) = {}
  BY <1>3 DEF Identities, LookupTypes
<1> QED BY <1>1, <1>2, <1>3

LEMMA IdentifyKeeps ==
    ASSUME LookupTypes, LookupInv, NEW r \in Lookups, Identify(r)
    PROVE  LookupTypes' /\ LookupInv'
<1>1. /\ lookup[r].pc = "identity" /\ UNCHANGED <<registry, ids, first, doubtful, ranks, listed, memo, resolver>>
      /\ \E i \in Identities(lookup[r].name) :
           /\ lookup' = [lookup EXCEPT ![r] = [lookup[r] EXCEPT !.pc = "local", !.id = i]]
           /\ QueuedName(lookup[r].name) \/ UNCHANGED queue
  BY DEF Identify, lookupVars, marketVars, listingVars
<1>2. PICK i \in Identities(lookup[r].name) :
           /\ lookup' = [lookup EXCEPT ![r] = [lookup[r] EXCEPT !.pc = "local", !.id = i]]
           /\ QueuedName(lookup[r].name) \/ UNCHANGED queue
  BY <1>1
<1>3. PICK n : n = WithId(lookup[r], "local", i) OBVIOUS
<1>4. lookup[r] \in LookupDocs /\ AtLookup(lookup[r], HasEntry, HasSnapshot, listed, ids) BY DEF LookupTypes
<1>5. lookup[r].name \in CoinNames BY <1>1, <1>4 DEF AtLookup, Settled
<1>6. i \in Nat /\ i <= ids /\ (i # 0 => lookup[r].name \in HasEntry) BY <1>5, IdentitiesAre
<1>7. n \in LookupDocs /\ SameLookup(lookup[r], n) /\ n.pc = "local" /\ n.id = i
  <2>1. "local" \in LookupPc BY DEF LookupPc
  <2> QED BY <1>3, <1>4, <1>6, <2>1, EditId
<1>8. Advances(r, n)
  <2>1. lookup' = [lookup EXCEPT ![r] = n] BY <1>2, <1>3 DEF WithId
  <2> QED BY <1>1, <1>7, <2>1 DEF Advances, SameLookup
<1>9. AtLookup(n, HasEntry, HasSnapshot, listed, ids)
  BY <1>1, <1>4, <1>5, <1>6, <1>7 DEF AtLookup, SameLookup, Past, Settled
<1>10. LookupTypes' BY <1>1, <1>8, <1>9, AdvanceTypes DEF LookupTypes
<1>11. Identified' BY <1>1, <1>7, <1>8, AdvanceKeeps DEF LookupInv, Past, Under, Settled
<1>12. AnswersInUse' BY <1>1, <1>2, <1>5, QueuedStays, AnswersStand DEF LookupInv
<1> QED BY <1>10, <1>11, <1>12 DEF LookupInv

LEMMA NotInRegistry ==
    ASSUME NEW n \in DOMAIN Gecko, InRegistry(n) = {}
    PROVE  registry[n] = 0
  BY TargetIs DEF InRegistry

LEMMA LocalKeeps ==
    ASSUME LookupTypes, LookupInv, NEW r \in Lookups, Local(r)
    PROVE  LookupTypes' /\ LookupInv'
<1> DEFINE m == lookup[r].name
           db == InRegistry(m) # {}
           to == IF LooksLikeGecko(m) THEN "gecko" ELSE "memo"
           easy == m \in listed \/ (settings.localFirst /\ Snapshot(m) # {}) \/ (db /\ LooksLikeGecko(m))
<1>1. /\ lookup[r].pc = "local"
      /\ UNCHANGED <<registry, ids, first, doubtful, ranks, listed, memo, queue, resolver>>
      /\ IF easy THEN Found(r) ELSE lookup' = [lookup EXCEPT ![r] = [lookup[r] EXCEPT !.db = db, !.pc = to]]
  BY DEF Local, marketVars, listingVars
<1>2. lookup[r] \in LookupDocs /\ AtLookup(lookup[r], HasEntry, HasSnapshot, listed, ids) BY DEF LookupTypes
<1>3. m \in CoinNames BY <1>1, <1>2 DEF AtLookup, Settled
<1>4. AnswersInUse' BY <1>1, AnswersStand DEF LookupInv
<1>5. CASE easy
  <2>1. Becomes(r, "found") BY <1>1, <1>5 DEF Found, Becomes
  <2>2. "found" \in Settled BY DEF Settled
  <2> QED BY <1>1, <2>1, <2>2, BecomesKeeps DEF LookupTypes
<1>6. CASE ~easy
  <2>0. PICK d \in BOOLEAN, p \in LookupPc : d = db /\ p = to BY DEF LookupPc, Past
  <2>1. PICK n : n = WithDb(lookup[r], p, d) OBVIOUS
  <2>2. to \in LookupPc /\ to \in {"gecko", "memo"} /\ db \in BOOLEAN /\ (to = "gecko" <=> LooksLikeGecko(m))
    BY DEF LookupPc, Past
  <2>3. n \in LookupDocs /\ SameLookup(lookup[r], n) /\ n.pc = to /\ n.id = lookup[r].id /\ n.db = db
    <3>1. n \in LookupDocs /\ SameLookup(lookup[r], n) /\ n.pc = p /\ n.id = lookup[r].id /\ n.db = d
      BY <1>2, <2>1, EditDb
    <3> QED BY <2>0, <3>1
  <2>4. Advances(r, n)
    <3>1. lookup' = [lookup EXCEPT ![r] = n] BY <1>1, <1>6, <2>0, <2>1 DEF WithDb
    <3> QED BY <1>1, <2>3, <3>1 DEF Advances, SameLookup
  <2>5. db <=> m \in HasEntry BY <1>3 DEF HasEntry
  <2>6. n.name = m /\ n.kind = "profile" /\ n.known = lookup[r].known
    BY <1>1, <1>2, <2>3 DEF SameLookup, AtLookup
  <2>7. LooksLikeGecko(m) => n.id = 0 BY <1>1, <1>2, <1>6, <2>3, <2>5 DEF AtLookup
  <2>8. n.known => n.db \/ m \in HasSnapshot BY <1>1, <1>2, <1>6, <2>3, <2>5, <2>6 DEF AtLookup
  <2>9. n.id <= ids BY <1>2, <2>3 DEF AtLookup
  <2>10. AtLookup(n, HasEntry, HasSnapshot, listed, ids)
    BY <1>3, <2>2, <2>3, <2>6, <2>7, <2>8, <2>9 DEF AtLookup, Past, Settled
  <2>11. n.name \in DOMAIN Gecko => registry[n.name] = 0
    <3>1. m \in DOMAIN Gecko => LooksLikeGecko(m) BY TargetIs DEF LooksLikeGecko
    <3> QED BY <1>6, <2>6, <3>1, NotInRegistry
  <2>12. Under(r) BY <1>1 DEF Under, Settled
  <2>13. LookupTypes' BY <1>1, <2>4, <2>10, AdvanceTypes DEF LookupTypes
  <2>14. Identified' BY <2>4, <2>11, <2>12, AdvanceKeeps DEF LookupInv
  <2> QED BY <1>4, <2>13, <2>14 DEF LookupInv
<1> QED BY <1>5, <1>6

LEMMA AskGeckoKeeps ==
    ASSUME LookupTypes, LookupInv, NEW r \in Lookups, AskGecko(r)
    PROVE  LookupTypes' /\ LookupInv'
<1> DEFINE m == lookup[r].name
<1>1. /\ lookup[r].pc = "gecko"
      /\ UNCHANGED <<registry, ids, first, doubtful, ranks, listed, memo, queue, resolver>>
      /\ \/ m \in DOMAIN Gecko /\ lookup' = [lookup EXCEPT ![r] = [lookup[r] EXCEPT !.pc = "upsert", !.coin = m]]
         \/ Becomes(r, "found") \/ Becomes(r, "memo")
  BY DEF AskGecko, Found, Becomes, marketVars, listingVars
<1>2. lookup[r] \in LookupDocs /\ AtLookup(lookup[r], HasEntry, HasSnapshot, listed, ids) BY DEF LookupTypes
<1>3. CASE Becomes(r, "found") \/ Becomes(r, "memo")
  <2>1. "found" \in Settled /\ lookup[r].pc \in Past BY <1>1 DEF Settled, Past
  <2> QED BY <1>1, <1>3, <2>1, BecomesKeeps DEF LookupTypes
<1>4. CASE m \in DOMAIN Gecko /\ lookup' = [lookup EXCEPT ![r] = [lookup[r] EXCEPT !.pc = "upsert", !.coin = m]]
  <2>1. PICK c \in CoinIds : c = m BY <1>4, TargetIs
  <2>2. PICK n : n = WithCoin(lookup[r], "upsert", c) OBVIOUS
  <2>3. "upsert" \in LookupPc /\ c \in CoinIds \cup {NoCoin} BY DEF LookupPc, Past
  <2>4. /\ n \in LookupDocs /\ SameLookup(lookup[r], n) /\ n.pc = "upsert" /\ n.coin = c
        /\ n.id = lookup[r].id /\ n.db = lookup[r].db
    BY <1>2, <2>2, <2>3, EditCoin
  <2>5. Advances(r, n)
    <3>1. lookup' = [lookup EXCEPT ![r] = n] BY <1>4, <2>1, <2>2 DEF WithCoin
    <3> QED BY <1>1, <2>4, <3>1 DEF Advances, SameLookup
  <2>6. n.coin \in Target(n.name) /\ n.name \in CoinIds BY <1>4, <2>1, <2>4, TargetIs DEF SameLookup
  <2>7. AtLookup(n, HasEntry, HasSnapshot, listed, ids)
    BY <1>1, <1>2, <2>4, <2>6 DEF AtLookup, SameLookup, Past, Settled
  <2>8. LookupTypes' BY <1>1, <2>5, <2>7, AdvanceTypes DEF LookupTypes
  <2>9. Identified' BY <1>1, <2>4, <2>5, AdvanceKeeps DEF LookupInv, Identified, Past, Under, Settled, SameLookup
  <2>10. AnswersInUse' BY <1>1, AnswersStand DEF LookupInv
  <2> QED BY <2>8, <2>9, <2>10 DEF LookupInv
<1> QED BY <1>1, <1>3, <1>4

LEMMA RememberedIs ==
    ASSUME LookupTypes, NEW r \in Lookups, lookup[r].name \in CoinNames, Remembered(r)
    PROVE  /\ DOMAIN memo' = CoinNames /\ \A m \in CoinNames : memo'[m] \in Memoed(m)
           /\ memo'[lookup[r].name] # Unasked
<1>1. PICK n \in CoinNames : n = lookup[r].name OBVIOUS
<1>2. Unasked \notin CoinIds /\ NoCoin # Unasked /\ LookupFailed # Unasked
  BY LookupAssumption DEF Unasked, NoCoin, LookupFailed
<1>3. CASE memo' = memo /\ memo[n] # Unasked BY <1>1, <1>3 DEF LookupTypes
<1>4. ASSUME NEW v \in Memoed(n) \ {Unasked}, memo' = [memo EXCEPT ![n] = v]
      PROVE  DOMAIN memo' = CoinNames /\ (\A m \in CoinNames : memo'[m] \in Memoed(m)) /\ memo'[n] # Unasked
  BY <1>4 DEF LookupTypes
<1>5. \/ memo' = memo /\ memo[n] # Unasked
      \/ memo' = [memo EXCEPT ![n] = NoCoin]
      \/ \E c \in Resolutions(n) : memo' = [memo EXCEPT ![n] = c]
      \/ memo' = [memo EXCEPT ![n] = IF LooksLikeGecko(n) THEN NoCoin ELSE LookupFailed]
  BY <1>1, Zenon DEF Remembered
<1>6. NoCoin \in Memoed(n) \ {Unasked} BY <1>2 DEF Memoed
<1>7. ASSUME NEW c \in Resolutions(n) PROVE c \in Memoed(n) \ {Unasked}
  <2>1. n \in CoinIds /\ c \in Target(n) BY ResolutionsAre
  <2>2. c \in CoinIds BY <2>1, TargetIs
  <2> QED BY <1>2, <2>1, <2>2 DEF Memoed
<1>8. (IF LooksLikeGecko(n) THEN NoCoin ELSE LookupFailed) \in Memoed(n) \ {Unasked}
  BY <1>2 DEF Memoed, LooksLikeGecko
<1> QED BY <1>1, <1>3, <1>4, <1>5, <1>6, <1>7, <1>8

\* A coin of the snapshot is found under the id the memo has for its name.
LEMMA StatsAreFound ==
    ASSUME SymbolsAreNoNumbers, NEW n \in CoinNames, NEW to \in Memoed(n) \ {Unasked, NoCoin, LookupFailed},
           Snapshot(n) # {}
    PROVE  Snapshot(to) # {}
<1>1. n \in CoinIds /\ to \in Target(n) BY DEF Memoed
<1>2. n \notin DOMAIN Numbered BY TargetIs DEF Snapshot, Named, Foremost, SymbolsAreNoNumbers
<1>3. to = n BY <1>1, <1>2, TargetIs
<1> QED BY <1>3

LEMMA RecallKeeps ==
    ASSUME SymbolsAreNoNumbers, LookupTypes, LookupInv, NEW r \in Lookups, Recall(r)
    PROVE  LookupTypes' /\ LookupInv'
<1> DEFINE k == lookup[r]
<1>1. PICK to : to = memo'[k.name] OBVIOUS
<1>2. /\ k.pc = "memo" /\ Remembered(r)
      /\ UNCHANGED <<registry, ids, first, doubtful, ranks, listed, queue, resolver>>
      /\ \/ to = LookupFailed /\ Becomes(r, "failed")
         \/ /\ to # LookupFailed /\ k.kind = "stats"
            /\ IF Snapshot(IF to = NoCoin THEN k.name ELSE to) # {} THEN Becomes(r, "found") ELSE Becomes(r, "missed")
         \/ /\ to = NoCoin /\ k.kind # "stats"
            /\ IF Fallback(k) THEN Becomes(r, "found") ELSE Becomes(r, "missed")
         \/ /\ to \notin {NoCoin, LookupFailed} /\ k.kind # "stats"
            /\ lookup' = [lookup EXCEPT ![r] = [k EXCEPT !.pc = "final", !.coin = to]]
  BY <1>1, Zenon DEF Recall, Found, Missed, Becomes, marketVars, listingVars
<1>3. /\ k \in LookupDocs /\ AtLookup(k, HasEntry, HasSnapshot, listed, ids)
      /\ NoCoin # LookupFailed
  BY DEF LookupTypes, NoCoin, LookupFailed
<1>4. k.name \in CoinNames /\ k.pc \in Past /\ k.kind \in {"profile", "stats"}
  BY <1>2, <1>3 DEF AtLookup, Settled, Past, LookupDocs
<1>5. /\ DOMAIN memo' = CoinNames /\ \A m \in CoinNames : memo'[m] \in Memoed(m)
      /\ to \in Memoed(k.name) /\ to # Unasked
  BY <1>1, <1>2, <1>4, RememberedIs
<1>6. {"found", "missed", "failed"} \subseteq Settled BY DEF Settled
<1>7. CASE to = LookupFailed
  <2>1. k.name \in DOMAIN Numbered
    <3>1. LookupFailed \notin CoinIds /\ LookupFailed # NoCoin /\ LookupFailed # Unasked
      BY LookupAssumption DEF LookupFailed, NoCoin, Unasked
    <3> QED BY <1>4, <1>5, <1>7, <3>1, TargetIs DEF Memoed
  <2>2. Becomes(r, "failed") BY <1>2, <1>3, <1>7
  <2> QED BY <1>2, <1>5, <1>6, <2>1, <2>2, BecomesKeeps
<1>8. CASE to # LookupFailed /\ k.kind = "stats"
  <2>1. CASE Becomes(r, "found") BY <1>2, <1>5, <1>6, <2>1, BecomesKeeps
  <2>2. CASE Becomes(r, "missed") /\ Snapshot(IF to = NoCoin THEN k.name ELSE to) = {}
    <3>1. Snapshot(k.name) = {}
      <4>1. CASE to = NoCoin BY <2>2, <4>1
      <4>2. CASE to # NoCoin
        <5>1. to \in Memoed(k.name) \ {Unasked, NoCoin, LookupFailed} BY <1>5, <1>8, <4>2
        <5> QED BY <1>4, <2>2, <4>2, <5>1, StatsAreFound
      <4> QED BY <4>1, <4>2
    <3>2. ~k.known BY <1>3, <1>4, <1>8, <3>1 DEF AtLookup, HasSnapshot
    <3> QED BY <1>2, <1>5, <1>6, <2>2, <3>2, BecomesKeeps
  <2>3. \/ Becomes(r, "found")
        \/ Becomes(r, "missed") /\ ~(Snapshot(IF to = NoCoin THEN k.name ELSE to) # {})
    BY <1>2, <1>8
  <2> QED BY <2>1, <2>2, <2>3
<1>9. CASE to # LookupFailed /\ k.kind # "stats" /\ to = NoCoin
  <2>1. CASE Becomes(r, "found") BY <1>2, <1>5, <1>6, <2>1, BecomesKeeps
  <2>2. CASE Becomes(r, "missed") /\ ~Fallback(k)
    <3>1. ~k.known BY <1>3, <1>4, <1>9, <2>2 DEF AtLookup, HasSnapshot, Fallback
    <3> QED BY <1>2, <1>5, <1>6, <2>2, <3>1, BecomesKeeps
  <2> QED BY <1>2, <1>9, <2>1, <2>2
<1>10. CASE to # LookupFailed /\ k.kind # "stats" /\ to # NoCoin
  <2>1. k.name \in CoinIds /\ to \in Target(k.name) BY <1>5, <1>10 DEF Memoed
  <2>2. PICK c \in CoinIds : c = to BY <1>4, <2>1, TargetIs
  <2>3. PICK n : n = WithCoin(lookup[r], "final", c) OBVIOUS
  <2>4. "final" \in LookupPc /\ c \in CoinIds \cup {NoCoin} BY DEF LookupPc, Past
  <2>5. /\ n \in LookupDocs /\ SameLookup(lookup[r], n) /\ n.pc = "final" /\ n.coin = c
        /\ n.id = lookup[r].id /\ n.db = lookup[r].db
    BY <1>3, <2>3, <2>4, EditCoin
  <2>6. Advances(r, n)
    <3>1. lookup' = [lookup EXCEPT ![r] = n] BY <1>2, <1>10, <2>2, <2>3 DEF WithCoin
    <3> QED BY <1>2, <2>5, <3>1 DEF Advances, SameLookup
  <2>7. AtLookup(n, HasEntry, HasSnapshot, listed, ids)
    BY <1>2, <1>3, <1>4, <1>10, <2>1, <2>2, <2>5 DEF AtLookup, SameLookup, Past, Settled
  <2>8. LookupTypes' BY <1>5, <2>6, <2>7, AdvanceTypes
  <2>9. Identified' BY <1>2, <2>5, <2>6, AdvanceKeeps DEF LookupInv, Identified, Past, Under, Settled, SameLookup
  <2>10. AnswersInUse' BY <1>2, AnswersStand DEF LookupInv
  <2> QED BY <2>8, <2>9, <2>10 DEF LookupInv
<1> QED BY <1>7, <1>8, <1>9, <1>10

LEMMA AskFinalKeeps ==
    ASSUME LookupTypes, LookupInv, NEW r \in Lookups, AskFinal(r)
    PROVE  LookupTypes' /\ LookupInv'
<1>1. /\ lookup[r].pc = "final"
      /\ UNCHANGED <<registry, ids, first, doubtful, ranks, listed, memo, queue, resolver>>
      /\ \/ Becomes(r, "write") \/ Becomes(r, "found")
         \/ Becomes(r, "missed") /\ ~Fallback(lookup[r])
  BY DEF AskFinal, Found, Missed, Becomes, marketVars, listingVars
<1>2. AtLookup(lookup[r], HasEntry, HasSnapshot, listed, ids) BY DEF LookupTypes
<1>3. {"found", "missed"} \subseteq Settled /\ lookup[r].pc \in Past BY <1>1 DEF Settled, Past
<1>4. ~Fallback(lookup[r]) => ~lookup[r].known
  BY <1>1, <1>2, <1>3 DEF AtLookup, Fallback, HasSnapshot
<1>5. DOMAIN memo' = CoinNames /\ \A m \in CoinNames : memo'[m] \in Memoed(m) BY <1>1 DEF LookupTypes
<1> QED BY <1>1, <1>3, <1>4, <1>5, BecomesKeeps

LEMMA AskKeeps ==
    ASSUME LookupTypes, LookupInv, NEW r \in Lookups, NEW m \in CoinNames, NEW kind \in {"profile", "stats"},
           Ask(r, m, kind)
    PROVE  LookupTypes' /\ LookupInv'
<1>1. PICK n : n = [Unmade EXCEPT !.kind = kind, !.name = m, !.known = KnownAsset(m, kind),
                                  !.pc = IF kind = "stats" THEN "memo" ELSE "identity"]
  OBVIOUS
<1>2. /\ lookup[r].pc \in Settled /\ lookup' = [lookup EXCEPT ![r] = n]
      /\ doubtful' = doubtful \cup Contested(m)
      /\ UNCHANGED <<registry, ids, first, ranks, listed, memo, queue, resolver>>
  BY <1>1 DEF Ask, marketVars, listingVars
<1>3. /\ n \in LookupDocs /\ n.name = m /\ n.kind = kind /\ n.known = KnownAsset(m, kind) /\ n.id = 0
      /\ n.pc = IF kind = "stats" THEN "memo" ELSE "identity"
  <2>1. PICK d \in BOOLEAN, p \in {"memo", "identity"} :
          d = KnownAsset(m, kind) /\ p = IF kind = "stats" THEN "memo" ELSE "identity"
    BY DEF KnownAsset
  <2>2. n = [pc |-> p, kind |-> kind, name |-> m, id |-> 0, coin |-> NoCoin, db |-> FALSE, known |-> d]
    BY <1>1, <2>1 DEF Unmade
  <2>3. n \in LookupDocs BY <2>2 DEF LookupDocs, LookupPc, Past
  <2> QED BY <2>1, <2>2, <2>3
<1>4. AtLookup(n, HasEntry, HasSnapshot, listed, ids)
  <2>1. n.known => m \in HasSnapshot \/ (kind = "profile" /\ (m \in listed \/ m \in HasEntry))
    BY <1>3 DEF KnownAsset, HasSnapshot, HasEntry
  <2>2. n.known => m \in HasEntry \cup HasSnapshot \cup listed BY <2>1
  <2>3. kind = "stats" /\ n.known => m \in HasSnapshot BY <2>1
  <2>4. 0 <= ids BY DEF LookupTypes
  <2> QED BY <1>3, <2>2, <2>3, <2>4 DEF AtLookup, Past, Settled
<1>5. \A q \in Lookups : lookup'[q] = IF q = r THEN n ELSE lookup[q] BY <1>2 DEF LookupTypes
<1>6. Contested(m) \subseteq CoinIds BY DEF Contested
<1>7. LookupTypes'
  <2>1. HasEntry' = HasEntry /\ HasSnapshot' = HasSnapshot BY <1>2, StoresStand
  <2>2. \A q \in Lookups : AtLookup(lookup'[q], HasEntry', HasSnapshot', listed', ids')
    BY <1>2, <1>4, <1>5, <2>1 DEF LookupTypes
  <2>3. lookup' \in [Lookups -> LookupDocs] BY <1>2, <1>3 DEF LookupTypes
  <2> QED BY <1>2, <1>6, <2>2, <2>3 DEF LookupTypes, Memoed
<1>8. Identified'
  <2>1. \A c \in CoinIds \ doubtful' : /\ registry'[c] = first'[c]
                                       /\ \A d \in CoinIds \ (doubtful' \cup {c}) :
                                            registry'[c] # 0 => registry'[d] # registry'[c]
    BY <1>2 DEF LookupInv, Identified
  <2>2. m \in DOMAIN Numbered => Target(m) \subseteq Contested(m) BY TargetIs DEF Contested
  <2>3. \A q \in Lookups : Under(q)' /\ lookup'[q].name \in DOMAIN Numbered =>
                             Target(lookup'[q].name) \subseteq doubtful'
    BY <1>2, <1>3, <1>5, <2>2 DEF LookupInv, Identified, Under
  <2>4. \A q \in Lookups : lookup'[q].pc \in Past /\ lookup'[q].kind = "profile"
                           /\ lookup'[q].name \in DOMAIN Gecko \ doubtful' => registry'[lookup'[q].name] = 0
    BY <1>2, <1>3, <1>5 DEF LookupInv, Identified, Past
  <2>5. m \in DOMAIN Gecko => \A q \in Lookups \ {r} : Under(q) /\ lookup[q].name = m => m \in Contested(m)
    BY TargetIs DEF Contested, Under
  <2>6. \A q, s \in Lookups : q # s /\ Under(q)' /\ Under(s)' /\ lookup'[q].name \in DOMAIN Gecko
                              /\ lookup'[s].name = lookup'[q].name => lookup'[q].name \in doubtful'
    BY <1>2, <1>3, <1>5, <2>5 DEF LookupInv, Identified, Under
  <2> QED BY <2>1, <2>3, <2>4, <2>6 DEF Identified
<1>9. AnswersInUse' BY <1>2, AnswersMove DEF LookupInv
<1> QED BY <1>7, <1>8, <1>9 DEF LookupInv

LEMMA LookupsStand ==
    ASSUME LookupTypes, LookupInv, UNCHANGED <<registry, ids, first, doubtful, ranks, listed, lookup>>,
           DOMAIN memo' = CoinNames, \A m \in CoinNames : memo'[m] \in Memoed(m), AnswersInUse'
    PROVE  LookupTypes' /\ LookupInv'
<1>1. HasEntry' = HasEntry /\ HasSnapshot' = HasSnapshot BY StoresStand
<1>2. LookupTypes' BY <1>1 DEF LookupTypes, Memoed
<1>3. Identified' BY DEF LookupInv, Identified, Under
<1> QED BY <1>2, <1>3 DEF LookupInv

LEMMA MemoExpiresKeeps ==
    ASSUME LookupTypes, LookupInv, NEW n \in CoinNames, MemoExpires(n)
    PROVE  LookupTypes' /\ LookupInv'
<1>1. memo' = [memo EXCEPT ![n] = Unasked]
      /\ UNCHANGED <<registry, ids, first, doubtful, ranks, listed, lookup, queue, resolver>>
  BY DEF MemoExpires, marketVars, listingVars
<1>2. DOMAIN memo' = CoinNames /\ \A m \in CoinNames : memo'[m] \in Memoed(m) BY <1>1 DEF LookupTypes, Memoed
<1>3. AnswersInUse' BY <1>1, AnswersStand DEF LookupInv
<1> QED BY <1>1, <1>2, <1>3, LookupsStand

\* The resolution worker.
LEMMA WorkerStands ==
    ASSUME LookupTypes, LookupInv, AnswersInUse',
           UNCHANGED <<registry, ids, first, doubtful, ranks, listed, lookup, memo>>
    PROVE  LookupTypes' /\ LookupInv'
  BY LookupsStand DEF LookupTypes

LEMMA TakeNameKeeps ==
    ASSUME LookupTypes, LookupInv, NEW n \in CoinNames, TakeName(n)
    PROVE  LookupTypes' /\ LookupInv'
<1>1. resolver' = [pc |-> "registry", name |-> n, answer |-> 0]
      /\ UNCHANGED <<registry, ids, first, doubtful, ranks, listed, lookup, memo, queue>>
  BY DEF TakeName, marketVars, listingVars
<1>2. InternalIds' = InternalIds BY <1>1 DEF InternalIds
<1>3. AnswersInUse' BY <1>1, <1>2 DEF LookupInv, AnswersInUse
<1> QED BY <1>1, <1>3, WorkerStands

LEMMA SearchNameKeeps ==
    ASSUME LookupTypes, LookupInv, SearchName
    PROVE  LookupTypes' /\ LookupInv'
<1> DEFINE n == resolver.name
           hits == {registry[c] : c \in InRegistry(n)}
           next == IF resolver.pc = "registry" THEN "identity" ELSE "settle"
<1>1. /\ resolver.pc \in {"registry", "identity"}
      /\ UNCHANGED <<registry, ids, first, doubtful, ranks, listed, lookup, memo>>
      /\ \/ \E i \in hits : resolver' = [resolver EXCEPT !.pc = "settle", !.answer = i] /\ UNCHANGED queue
         \/ resolver' = [resolver EXCEPT !.pc = next] /\ (QueuedName(n) \/ UNCHANGED queue)
  BY DEF SearchName, marketVars, listingVars
<1>2. /\ resolver \in [pc : {"idle", "registry", "identity", "settle"}, name : CoinNames \cup {NoCoin}, answer : Nat]
      /\ n \in CoinNames
  BY <1>1 DEF LookupInv, AnswersInUse
<1>3. InternalIds' = InternalIds BY <1>1 DEF InternalIds
<1>4. ASSUME NEW i \in hits, resolver' = [resolver EXCEPT !.pc = "settle", !.answer = i], UNCHANGED queue
      PROVE  AnswersInUse'
  <2>1. i \in Nat /\ i \in InternalIds BY DEF InRegistry, InternalIds, LookupTypes
  <2>2. /\ resolver' \in [pc : {"idle", "registry", "identity", "settle"}, name : CoinNames \cup {NoCoin},
                           answer : Nat]
        /\ resolver'.answer = i /\ resolver'.name = n
    BY <1>2, <1>4, <2>1
  <2> QED BY <1>1, <1>2, <1>3, <1>4, <2>1, <2>2 DEF LookupInv, AnswersInUse
<1>5. ASSUME resolver' = [resolver EXCEPT !.pc = next], QueuedName(n) \/ UNCHANGED queue
      PROVE  AnswersInUse'
  <2>1. /\ resolver' \in [pc : {"idle", "registry", "identity", "settle"}, name : CoinNames \cup {NoCoin},
                           answer : Nat]
        /\ resolver'.answer = resolver.answer /\ resolver'.name = n
    BY <1>2, <1>5
  <2>2. queue' \in [CoinNames -> [tries : Nat, answers : SUBSET Nat]]
        /\ \A m \in CoinNames : queue'[m].answers = queue[m].answers
    <3>1. CASE UNCHANGED queue BY <3>1 DEF LookupInv, AnswersInUse
    <3>2. CASE QueuedName(n)
      <4>1. PICK e : e = [queue[n] EXCEPT !.tries = queue[n].tries + 1] OBVIOUS
      <4>2. queue' = [queue EXCEPT ![n] = e] BY <3>2, <4>1 DEF QueuedName
      <4>3. queue[n] \in [tries : Nat, answers : SUBSET Nat] BY <1>2 DEF LookupInv, AnswersInUse
      <4>4. e \in [tries : Nat, answers : SUBSET Nat] /\ e.answers = queue[n].answers BY <4>1, <4>3
      <4> QED BY <4>2, <4>4 DEF LookupInv, AnswersInUse
    <3> QED BY <1>5, <3>1, <3>2
  <2> QED BY <1>1, <1>2, <1>3, <2>1, <2>2 DEF LookupInv, AnswersInUse
<1>6. AnswersInUse' BY <1>1, <1>4, <1>5
<1> QED BY <1>1, <1>6, WorkerStands

LEMMA SettleKeeps ==
    ASSUME LookupTypes, LookupInv, Settle
    PROVE  LookupTypes' /\ LookupInv'
<1> DEFINE n == resolver.name
<1>1. /\ resolver.pc = "settle" /\ resolver' = Unsearched
      /\ \/ QueuedName(n)
         \/ /\ resolver.answer # 0
            /\ queue' = [queue EXCEPT ![n] = [tries |-> 0, answers |-> queue[n].answers \cup {resolver.answer}]]
      /\ UNCHANGED <<registry, ids, first, doubtful, ranks, listed, lookup, memo>>
  BY DEF Settle, marketVars, listingVars
<1>2. n \in CoinNames /\ resolver.answer \in Nat BY <1>1 DEF LookupInv, AnswersInUse
<1>3. queue[n] \in [tries : Nat, answers : SUBSET Nat] BY <1>2 DEF LookupInv, AnswersInUse
<1>4. PICK e : e = [queue[n] EXCEPT !.tries = queue[n].tries + 1] OBVIOUS
<1>5. e \in [tries : Nat, answers : SUBSET Nat] /\ e.answers = queue[n].answers BY <1>3, <1>4
<1>6. PICK f \in [tries : Nat, answers : SUBSET Nat] :
        /\ queue' = [queue EXCEPT ![n] = f]
        /\ f.answers \subseteq queue[n].answers \cup ({resolver.answer} \ {0})
  <2>1. CASE QueuedName(n)
    <3>1. queue' = [queue EXCEPT ![n] = e] BY <1>4, <2>1 DEF QueuedName
    <3> QED BY <1>5, <3>1
  <2>2. CASE /\ resolver.answer # 0
             /\ queue' = [queue EXCEPT ![n] = [tries |-> 0, answers |-> queue[n].answers \cup {resolver.answer}]]
    <3>1. PICK f : f = [tries |-> 0, answers |-> queue[n].answers \cup {resolver.answer}] OBVIOUS
    <3>2. f \in [tries : Nat, answers : SUBSET Nat] /\ f.answers = queue[n].answers \cup {resolver.answer}
      BY <1>2, <1>3, <3>1
    <3> QED BY <2>2, <3>1, <3>2
  <2> QED BY <1>1, <2>1, <2>2
<1>7. InternalIds' = InternalIds BY <1>1 DEF InternalIds
<1>8. queue' \in [CoinNames -> [tries : Nat, answers : SUBSET Nat]] BY <1>6 DEF LookupInv, AnswersInUse
<1>9. doubtful = {} => \A m \in CoinNames : queue'[m].answers \subseteq InternalIds
  BY <1>2, <1>6 DEF LookupInv, AnswersInUse
<1>10. resolver'.pc = "idle" /\ resolver'.answer = 0 /\ resolver'.name = NoCoin
       /\ resolver' \in [pc : {"idle", "registry", "identity", "settle"}, name : CoinNames \cup {NoCoin}, answer : Nat]
  BY <1>1 DEF Unsearched
<1>11. AnswersInUse' BY <1>1, <1>7, <1>8, <1>9, <1>10 DEF AnswersInUse
<1> QED BY <1>1, <1>11, WorkerStands

\* A coin nobody doubts is written once, with a new id and by nobody else.
LEMMA WriteKeeps ==
    ASSUME LookupTypes, LookupInv, NEW c \in CoinIds, NEW v \in Nat \ {0},
           ids' \in Nat, ids <= ids', v <= ids', registry' = [registry EXCEPT ![c] = v], Registered,
           c \in doubtful \/ (registry[c] = 0 /\ v > ids) \/ registry[c] = v,
           UNCHANGED <<doubtful, ranks, listed, memo, queue, resolver>>,
           lookup' \in [Lookups -> LookupDocs],
           \A q \in Lookups : lookup'[q] = lookup[q]
                              \/ (lookup'[q].pc = "found" /\ lookup'[q].id = lookup[q].id),
           c \in DOMAIN Gecko \ doubtful => \A q \in Lookups : ~(Under(q)' /\ lookup'[q].name = c)
    PROVE  LookupTypes' /\ LookupInv'
<1>1. registry' \in [CoinIds -> Nat] /\ \A d \in CoinIds : registry'[d] = IF d = c THEN v ELSE registry[d]
  BY DEF LookupTypes
<1>2. HasEntry \subseteq HasEntry'
  <2>1. \A n \in CoinNames : InRegistry(n) \subseteq InRegistry(n)' BY <1>1 DEF InRegistry
  <2> QED BY <2>1 DEF HasEntry
<1>3. HasSnapshot' = HasSnapshot BY DEF HasSnapshot, Snapshot, Named, Foremost
<1>4. first' \in [CoinIds -> Nat] BY <1>1, FirstIs
<1>5. LookupTypes'
  <2>1. ASSUME NEW q \in Lookups PROVE AtLookup(lookup'[q], HasEntry', HasSnapshot', listed', ids')
    <3>1. AtLookup(lookup[q], HasEntry, HasSnapshot, listed, ids) /\ lookup[q].id \in Nat
      BY DEF LookupTypes, LookupDocs
    <3>2. ids \in Nat BY DEF LookupTypes
    <3>3. AtLookup(lookup[q], HasEntry', HasSnapshot', listed', ids')
      BY <1>2, <1>3, <3>1, <3>2, AtLookupGrows
    <3>4. CASE lookup'[q] = lookup[q] BY <3>3, <3>4
    <3>5. CASE lookup'[q].pc = "found" /\ lookup'[q].id = lookup[q].id
      BY <3>3, <3>5 DEF AtLookup, Past, Settled
    <3> QED BY <3>4, <3>5
  <2>2. \A d \in CoinIds : registry'[d] <= ids' BY <1>1 DEF LookupTypes
  <2> QED BY <1>1, <1>4, <2>1, <2>2 DEF LookupTypes, Memoed
<1>6. Identified'
  <2>1. \A q \in Lookups : Under(q)' => lookup'[q] = lookup[q] /\ Under(q) BY DEF Under, Settled
  <2>2. \A q \in Lookups : lookup'[q].pc \in Past => lookup'[q] = lookup[q] /\ Under(q)'
    BY DEF Under, Settled, Past
  <2>3. ASSUME NEW d \in CoinIds \ doubtful PROVE registry'[d] = first'[d]
    <3>1. registry[d] = first[d] /\ first[d] \in Nat BY DEF LookupInv, Identified, LookupTypes
    <3>2. first[d] # 0 => first'[d] = first[d] BY <1>1, FirstIs
    <3>3. first[d] = 0 => first'[d] = registry'[d] BY <1>1, FirstIs
    <3>4. first[d] # 0 => registry'[d] = registry[d] BY <1>1, <3>1
    <3> QED BY <3>1, <3>2, <3>3, <3>4
  <2>4. ASSUME NEW d \in CoinIds \ doubtful, NEW e \in CoinIds \ (doubtful \cup {d}), registry'[d] # 0
        PROVE  registry'[e] # registry'[d]
    <3>1. /\ registry[d] # 0 => registry[e] # registry[d]
          /\ registry[e] # 0 => registry[d] # registry[e]
      BY DEF LookupInv, Identified
    <3>2. registry[d] \in Nat /\ registry[e] \in Nat /\ registry[d] <= ids /\ registry[e] <= ids /\ ids \in Nat
      BY DEF LookupTypes
    <3>3. CASE d = c BY <1>1, <2>4, <3>1, <3>2, <3>3
    <3>4. CASE e = c BY <1>1, <2>4, <3>1, <3>2, <3>4
    <3>5. CASE d # c /\ e # c BY <1>1, <2>4, <3>1, <3>5
    <3> QED BY <3>3, <3>4, <3>5
  <2>5. \A q \in Lookups : Under(q)' /\ lookup'[q].name \in DOMAIN Numbered =>
                             Target(lookup'[q].name) \subseteq doubtful'
    BY <2>1 DEF LookupInv, Identified
  <2>6. \A q \in Lookups : lookup'[q].pc \in Past /\ lookup'[q].kind = "profile"
                           /\ lookup'[q].name \in DOMAIN Gecko \ doubtful' => registry'[lookup'[q].name] = 0
    BY <1>1, <2>2, TargetIs DEF LookupInv, Identified
  <2>7. \A q, s \in Lookups : q # s /\ Under(q)' /\ Under(s)' /\ lookup'[q].name \in DOMAIN Gecko
                              /\ lookup'[s].name = lookup'[q].name => lookup'[q].name \in doubtful'
    BY <2>1 DEF LookupInv, Identified
  <2> QED BY <2>3, <2>4, <2>5, <2>6, <2>7 DEF Identified
<1>7. AnswersInUse'
  <2>1. doubtful = {} => InternalIds \subseteq InternalIds'
    <3> SUFFICES ASSUME doubtful = {}, NEW d \in CoinIds, registry[d] # 0 PROVE registry'[d] = registry[d]
      BY DEF InternalIds
    <3> QED BY <1>1
  <2> QED BY <2>1 DEF LookupInv, AnswersInUse
<1> QED BY <1>5, <1>6, <1>7 DEF LookupInv

LEMMA UpsertKeeps ==
    ASSUME LookupTypes, LookupInv, NEW r \in Lookups, Upsert(r)
    PROVE  LookupTypes' /\ LookupInv'
<1> DEFINE k == lookup[r]
<1>1. PICK v : v = IF k.id # 0 THEN k.id ELSE ids + 1 OBVIOUS
<1>2. /\ k.pc \in {"upsert", "write"} /\ Registered
      /\ UNCHANGED <<doubtful, ranks, listed, memo, queue, resolver>>
      /\ \/ /\ UNCHANGED <<registry, ids>>
            /\ IF Fallback(k) THEN Becomes(r, "found")
               ELSE Becomes(r, IF k.pc = "upsert" THEN "memo" ELSE "missed")
         \/ /\ Becomes(r, "found") /\ registry' = [registry EXCEPT ![k.coin] = v]
            /\ ids' = IF k.id # 0 THEN ids ELSE ids + 1
  BY <1>1, Zenon DEF Upsert, Found, Becomes, marketVars, listingVars
<1>3. k \in LookupDocs /\ AtLookup(k, HasEntry, HasSnapshot, listed, ids) BY DEF LookupTypes
<1>4. /\ k.kind = "profile" /\ k.name \in CoinIds /\ k.coin \in Target(k.name) /\ k.pc \in Past
      /\ LooksLikeGecko(k.name) => k.id = 0
      /\ k.id \in Nat /\ k.id <= ids /\ ids \in Nat
  BY <1>2, <1>3 DEF AtLookup, Past, LookupDocs, LookupTypes
<1>5. CASE UNCHANGED <<registry, ids>> /\ (IF Fallback(k) THEN Becomes(r, "found")
                                           ELSE Becomes(r, IF k.pc = "upsert" THEN "memo" ELSE "missed"))
  <2>1. ~Fallback(k) => ~k.known BY <1>3, <1>4, TargetIs DEF AtLookup, Fallback, HasSnapshot
  <2>2. DOMAIN memo' = CoinNames /\ \A m \in CoinNames : memo'[m] \in Memoed(m) BY <1>2 DEF LookupTypes
  <2>3. {"found", "missed"} \subseteq Settled BY DEF Settled
  <2>4. CASE Becomes(r, "found") BY <1>2, <1>5, <2>2, <2>3, <2>4, BecomesKeeps
  <2>5. CASE Becomes(r, "memo") BY <1>2, <1>4, <1>5, <2>2, <2>3, <2>5, BecomesKeeps
  <2>6. CASE Becomes(r, "missed") /\ ~Fallback(k)
    BY <1>2, <1>5, <2>1, <2>2, <2>3, <2>6, BecomesKeeps
  <2> QED BY <1>5, <2>4, <2>5, <2>6
<1>6. CASE /\ Becomes(r, "found") /\ registry' = [registry EXCEPT ![k.coin] = v]
           /\ ids' = IF k.id # 0 THEN ids ELSE ids + 1
  <2>1. PICK c \in CoinIds : c = k.coin /\ c \in DOMAIN Gecko BY <1>4, TargetIs
  <2>2. v \in Nat \ {0} /\ ids' \in Nat /\ ids <= ids' /\ v <= ids' BY <1>1, <1>4, <1>6
  <2>3. PICK n : n = [k EXCEPT !.pc = "found"] OBVIOUS
  <2>4. n \in LookupDocs /\ n.pc = "found" /\ n.id = k.id
    <3>1. "found" \in LookupPc BY DEF LookupPc, Settled
    <3> QED BY <1>3, <2>3, <3>1, EditPc
  <2>5. lookup' = [lookup EXCEPT ![r] = n] BY <1>6, <2>3 DEF Becomes
  <2>6. lookup' \in [Lookups -> LookupDocs] /\ \A q \in Lookups : lookup'[q] = IF q = r THEN n ELSE lookup[q]
    BY <2>4, <2>5 DEF LookupTypes
  <2>7. Under(r) BY <1>2 DEF Under, Settled
  <2>8. CASE c \in doubtful
    <3>1. registry' = [registry EXCEPT ![c] = v] BY <1>6, <2>1
    <3> QED BY <1>2, <2>2, <2>4, <2>6, <2>8, <3>1, WriteKeeps
  <2>9. CASE c \notin doubtful
    <3>1. k.name \notin DOMAIN Numbered BY <1>4, <2>1, <2>7, <2>9 DEF LookupInv, Identified
    <3>2. k.name = c BY <1>4, <2>1, <3>1, TargetIs
    <3>3. k.id = 0 BY <1>4, <3>1 DEF LooksLikeGecko
    <3>4. registry[c] = 0 BY <1>4, <2>1, <2>9, <3>2 DEF LookupInv, Identified
    <3>5. \A q \in Lookups : ~(Under(q)' /\ lookup'[q].name = c)
      BY <2>1, <2>4, <2>6, <2>7, <2>9, <3>2 DEF LookupInv, Identified, Under, Settled
    <3>6. registry' = [registry EXCEPT ![c] = v] BY <1>6, <2>1
    <3>7. v > ids BY <1>1, <1>4, <3>3
    <3> QED BY <1>2, <2>2, <2>4, <2>6, <3>4, <3>5, <3>6, <3>7, WriteKeeps
  <2> QED BY <2>8, <2>9
<1> QED BY <1>2, <1>5, <1>6

LEMMA RefreshMarketKeeps ==
    ASSUME LookupTypes, LookupInv, NEW n \in DOMAIN Numbered, RefreshMarket(n)
    PROVE  LookupTypes' /\ LookupInv'
<1>1. n \in CoinIds /\ n \notin DOMAIN Gecko BY TargetIs
<1>2. PICK v : v = IF registry[n] = 0 THEN ids + 1 ELSE registry[n] OBVIOUS
<1>3. /\ registry' = [registry EXCEPT ![n] = v] /\ ids' = (IF registry[n] = 0 THEN ids + 1 ELSE ids)
      /\ Registered /\ UNCHANGED <<doubtful, ranks, listed, lookup, memo, queue, resolver>>
  BY <1>2 DEF RefreshMarket, marketVars, listingVars
<1>4. registry[n] \in Nat /\ registry[n] <= ids /\ ids \in Nat BY <1>1 DEF LookupTypes
<1>5. /\ v \in Nat \ {0} /\ ids' \in Nat /\ ids <= ids' /\ v <= ids'
      /\ (registry[n] = 0 /\ v > ids) \/ registry[n] = v
  BY <1>2, <1>3, <1>4
<1>6. lookup' \in [Lookups -> LookupDocs] /\ \A q \in Lookups : lookup'[q] = lookup[q] BY <1>3 DEF LookupTypes
<1> QED BY <1>1, <1>3, <1>5, <1>6, WriteKeeps

LEMMA LookupsKeep ==
    ASSUME SymbolsAreNoNumbers, LookupTypes, LookupInv, LookupNext
    PROVE  LookupTypes' /\ LookupInv'
<1>1. ASSUME NEW r \in Lookups, NEW n \in CoinNames, NEW kind \in {"profile", "stats"}, Ask(r, n, kind)
      PROVE  LookupTypes' /\ LookupInv'
  BY <1>1, AskKeeps
<1>2. ASSUME NEW r \in Lookups, Identify(r) \/ Local(r) \/ AskGecko(r) \/ Recall(r) \/ AskFinal(r) \/ Upsert(r)
      PROVE  LookupTypes' /\ LookupInv'
  BY <1>2, IdentifyKeeps, LocalKeeps, AskGeckoKeeps, RecallKeeps, AskFinalKeeps, UpsertKeeps
<1>3. ASSUME NEW n \in CoinNames, MemoExpires(n) \/ TakeName(n)
      PROVE  LookupTypes' /\ LookupInv'
  BY <1>3, MemoExpiresKeeps, TakeNameKeeps
<1>4. ASSUME NEW n \in DOMAIN Numbered, RefreshMarket(n)
      PROVE  LookupTypes' /\ LookupInv'
  BY <1>4, RefreshMarketKeeps
<1> QED BY <1>1, <1>2, <1>3, <1>4, SearchNameKeeps, SettleKeeps, Zenon DEF LookupNext

LEMMA NothingLooked ==
    ASSUME LookupTypes, LookupInv, UNCHANGED catalogueVars
    PROVE  LookupTypes' /\ LookupInv'
<1>1. UNCHANGED <<registry, ids, first, doubtful, ranks, listed, lookup, memo, queue, resolver>>
  BY DEF catalogueVars, lookupVars, marketVars, listingVars
<1>2. AnswersInUse' BY <1>1, AnswersStand DEF LookupInv
<1> QED BY <1>1, <1>2, WorkerStands

LEMMA LookupsAreRight ==
    ASSUME LookupTypes, LookupInv
    PROVE  CoinsAreFound /\ IdentitiesAreKept
<1>1. \A r \in Lookups : /\ lookup[r].pc = "missed" => ~lookup[r].known
                         /\ lookup[r].pc = "failed" => lookup[r].name \in DOMAIN Numbered
  BY DEF LookupTypes, AtLookup
<1>2. ASSUME NEW a \in Assets, \A c \in Named(a) : ranks[c] > 0
      PROVE  Snapshot(a) = InBatch(a)
  <2>1. \A c \in Named(a) : RankValue(c) = ranks[c] BY <1>2 DEF RankValue
  <2>2. PICK key : key = [c \in Named(a) |-> RankValue(c)] OBVIOUS
  <2>3. \A c \in Named(a) : key[c] = ranks[c] BY <2>1, <2>2
  <2>4. Foremost(Named(a), ranks) = Foremost(Named(a), key) BY <2>3 DEF Foremost
  <2> QED BY <2>2, <2>4 DEF Snapshot, InBatch
<1>3. CoinsAreFound BY <1>1, <1>2 DEF CoinsAreFound
<1>4. InternalIds \subseteq {registry[c] : c \in CoinIds} BY DEF InternalIds
<1>5. IdentitiesAreKept BY <1>4 DEF LookupInv, Identified, AnswersInUse, IdentitiesAreKept
<1> QED BY <1>3, <1>5

(* The coin catalogue: market snapshots, their builds and the listing import *)

BuildDocs == [pc : {"idle", "gather", "publish", "release"}, revision : Nat]

MarketTypes ==
  /\ ranks \in [DOMAIN Gecko -> Int] /\ \A c \in DOMAIN Gecko : ranks[c] <= TopRank + 1
  /\ pager \in [pc : {"on", "end"}, cursor : Int, seen : SUBSET DOMAIN Gecko, twice : SUBSET DOMAIN Gecko,
                moved : BOOLEAN]
  /\ build \in [Builds -> BuildDocs] /\ buildLock \in BOOLEAN /\ expired \in BOOLEAN
  /\ numbered \in Nat /\ published \in Nat /\ newest \in Nat
  /\ listed \in SUBSET Assets /\ masters \in SUBSET Assets /\ halted \in BOOLEAN
  /\ importing \in [pc : {"idle", "filter", "masters"}, raw : SUBSET Assets, left : SUBSET Assets]

\* Up to the cursor the client has seen a coin of every rank, and none beyond.
RankShown(c) == \E d \in pager.seen : ranks[d] = ranks[c]
Paged ==
  /\ pager.cursor >= 0 /\ (pager.pc = "on" /\ pager.seen = {} => pager.cursor = 0)
  /\ ~pager.moved =>
       /\ pager.twice = {}
       /\ pager.pc = "on" => /\ \A c \in pager.seen : ranks[c] <= pager.cursor
                             /\ \A c \in PastCursor(0) : ranks[c] <= pager.cursor => RankShown(c)
       /\ pager.pc = "end" => \A c \in PastCursor(0) : RankShown(c)

\* While no build outlives the lock there is one, and its number is the last.
OneBuild == ~expired =>
  /\ published = newest /\ newest <= numbered
  /\ \A b \in Builds : /\ build[b].pc # "idle" => buildLock
                       /\ build[b].pc = "publish" => build[b].revision = numbered
  /\ \A b, c \in Builds : build[b].pc # "idle" /\ build[c].pc # "idle" => b = c

\* What is listed and not tagged yet is left to the import under way.
Tagged ==
  /\ importing.pc = "masters" => listed \subseteq masters \cup importing.left
  /\ importing.pc = "idle" /\ ~halted => listed \subseteq masters

MarketInv == Paged /\ OneBuild /\ Tagged

LEMMA LeastOf ==
    ASSUME NEW T \in SUBSET Nat, T # {}
    PROVE  \E x \in T : \A y \in T : x <= y
<1>1. PICK x \in T : \A y \in T : ~(<<y, x>> \in OpToRel(<, Nat)) BY WFMin, NatLessThanWellFounded
<1>2. \A y \in T : <<y, x>> \in Nat \X Nat /\ (y < x => <<y, x>> \in OpToRel(<, Nat)) BY DEF OpToRel
<1>3. \A y \in T : ~(y < x) BY <1>1, <1>2
<1>4. \A y \in T : y \in Nat /\ x \in Nat OBVIOUS
<1> QED BY <1>3, <1>4

\* The cursor is the highest rank shown.
LEMMA CursorIs ==
    ASSUME MarketTypes, NEW shown \in SUBSET DOMAIN Gecko, shown # {}
    PROVE  /\ Cursor(shown) \in Int /\ \E c \in shown : Cursor(shown) = ranks[c]
           /\ \A c \in shown : ranks[c] <= Cursor(shown)
<1> DEFINE T == {TopRank + 1 - ranks[c] : c \in shown}
<1>1. \A c \in shown : ranks[c] \in Int /\ ranks[c] <= TopRank + 1 /\ TopRank + 1 - ranks[c] \in Nat
  BY CatalogueAssumption DEF MarketTypes
<1>2. PICK x \in T : \A y \in T : x <= y
  <2>1. T \in SUBSET Nat /\ T # {} BY <1>1
  <2> HIDE DEF T
  <2> QED BY <2>1, LeastOf
<1>3. PICK c \in shown : x = TopRank + 1 - ranks[c] BY <1>2
<1>4. \A d \in shown : ranks[d] <= ranks[c]
  <2> TAKE d \in shown
  <2>1. x <= TopRank + 1 - ranks[d] BY <1>2
  <2> QED BY <1>1, <1>3, <2>1, CatalogueAssumption
<1>5. \E k \in {ranks[d] : d \in shown} : \A d \in shown : ranks[d] <= k BY <1>4
<1>6. Cursor(shown) \in {ranks[d] : d \in shown} /\ \A d \in shown : ranks[d] <= Cursor(shown)
  BY <1>5, Zenon DEF Cursor
<1> QED BY <1>1, <1>6

LEMMA MarketStart == CatalogueInit => MarketTypes /\ MarketInv
<1> SUFFICES ASSUME CatalogueInit PROVE MarketTypes /\ MarketInv OBVIOUS
<1>1. PICK S \in Ranked : ranks = [c \in DOMAIN Gecko |-> IF c \in S THEN 1 ELSE Unseen] BY DEF CatalogueInit
<1>2. ranks \in [DOMAIN Gecko -> Int] /\ \A c \in DOMAIN Gecko : ranks[c] <= TopRank + 1
  BY <1>1, CatalogueAssumption DEF Unseen
<1>3. /\ pager = [pc |-> "on", cursor |-> 0, seen |-> {}, twice |-> {}, moved |-> FALSE]
      /\ build = [b \in Builds |-> [pc |-> "idle", revision |-> 0]] /\ buildLock = FALSE
      /\ numbered = 0 /\ published = 0 /\ newest = 0 /\ expired = FALSE
      /\ listed \in SUBSET Assets /\ masters = listed /\ halted = FALSE
      /\ importing = [pc |-> "idle", raw |-> listed, left |-> {}]
  BY DEF CatalogueInit
<1>4. MarketTypes
  <2>1. /\ pager \in [pc : {"on", "end"}, cursor : Int, seen : SUBSET DOMAIN Gecko, twice : SUBSET DOMAIN Gecko,
                      moved : BOOLEAN]
        /\ importing \in [pc : {"idle", "filter", "masters"}, raw : SUBSET Assets, left : SUBSET Assets]
    BY <1>3
  <2>2. build \in [Builds -> BuildDocs] BY <1>3 DEF BuildDocs
  <2> QED BY <1>2, <1>3, <2>1, <2>2 DEF MarketTypes
<1>5. Paged BY <1>2, <1>3 DEF Paged, PastCursor
<1>6. OneBuild /\ Tagged BY <1>3 DEF OneBuild, Tagged
<1> QED BY <1>4, <1>5, <1>6 DEF MarketInv

LEMMA PagedStands ==
    ASSUME Paged, UNCHANGED <<ranks, pager>>
    PROVE  Paged'
  BY DEF Paged, PastCursor, RankShown

LEMMA BuiltStands ==
    ASSUME OneBuild, UNCHANGED <<build, buildLock, numbered, published, newest, expired>>
    PROVE  OneBuild'
  BY DEF OneBuild

LEMMA TaggedStands ==
    ASSUME Tagged, UNCHANGED <<importing, listed, masters, halted>>
    PROVE  Tagged'
  BY DEF Tagged

LEMMA PopulateKeeps ==
    ASSUME MarketTypes, MarketInv, NEW S \in SUBSET DOMAIN Gecko, NEW k \in 0..TopRank, Populate(S, k)
    PROVE  MarketTypes' /\ MarketInv'
<1>1. /\ ranks' = [c \in DOMAIN Gecko |-> IF c \in S THEN k ELSE ranks[c]]
      /\ pager' = [pager EXCEPT !.moved = (pager.moved \/ pager.seen # {} \/ pager.pc = "end")]
      /\ UNCHANGED <<build, buildLock, numbered, published, newest, expired, listingVars>>
  BY DEF Populate
<1>2. ranks' \in [DOMAIN Gecko -> Int] /\ \A c \in DOMAIN Gecko : ranks'[c] <= TopRank + 1
  BY <1>1, CatalogueAssumption DEF MarketTypes
<1>3. /\ pager' \in [pc : {"on", "end"}, cursor : Int, seen : SUBSET DOMAIN Gecko, twice : SUBSET DOMAIN Gecko,
                      moved : BOOLEAN]
      /\ pager'.pc = pager.pc /\ pager'.cursor = pager.cursor /\ pager'.seen = pager.seen
      /\ pager'.twice = pager.twice
      /\ ~pager'.moved => ~pager.moved /\ pager.seen = {} /\ pager.pc = "on"
  <2>0. PICK C, Q, m : C = SUBSET DOMAIN Gecko /\ Q = {"on", "end"}
            /\ m = (pager.moved \/ pager.seen # {} \/ pager.pc = "end")
    OBVIOUS
  <2>1. C = SUBSET DOMAIN Gecko /\ Q = {"on", "end"} /\ m \in BOOLEAN
        /\ m = (pager.moved \/ pager.seen # {} \/ pager.pc = "end")
    BY <2>0
  <2>2. pager \in [pc : Q, cursor : Int, seen : C, twice : C, moved : BOOLEAN] BY <2>1 DEF MarketTypes
  <2>3. pager' = [pager EXCEPT !.moved = m] BY <1>1, <2>1
  <2>4. /\ pager' \in [pc : Q, cursor : Int, seen : C, twice : C, moved : BOOLEAN]
        /\ pager'.pc = pager.pc /\ pager'.cursor = pager.cursor /\ pager'.seen = pager.seen
        /\ pager'.twice = pager.twice /\ pager'.moved = m
    BY <2>1, <2>2, <2>3
  <2>5. pager.pc \in {"on", "end"} BY DEF MarketTypes
  <2> QED BY <2>1, <2>4, <2>5
<1>4. MarketTypes' BY <1>1, <1>2, <1>3 DEF MarketTypes, listingVars
<1>5. Paged' BY <1>2, <1>3 DEF MarketInv, Paged, PastCursor
<1>6. OneBuild' /\ Tagged' BY <1>1, BuiltStands, TaggedStands DEF MarketInv, listingVars
<1> QED BY <1>4, <1>5, <1>6 DEF MarketInv

LEMMA AskPageKeeps ==
    ASSUME MarketTypes, MarketInv, NEW shown \in SUBSET DOMAIN Gecko, AskPage(shown)
    PROVE  MarketTypes' /\ MarketInv'
<1> DEFINE left == PastCursor(pager.cursor)
<1>1. PICK to, at : to = (IF shown = left THEN "end" ELSE "on")
                    /\ at = (IF shown = left THEN pager.cursor ELSE Cursor(shown))
  OBVIOUS
<1>2. /\ pager.pc = "on" /\ shown \subseteq left /\ Cardinality(shown) = Smaller(PageLimit, Cardinality(left))
      /\ \A c \in shown, d \in left \ shown : ranks[c] <= ranks[d]
      /\ pager' = [pager EXCEPT !.seen = pager.seen \cup shown, !.twice = pager.twice \cup (pager.seen \cap shown),
                     !.pc = to, !.cursor = at]
      /\ UNCHANGED <<ranks, build, buildLock, numbered, published, newest, expired, listingVars>>
  BY <1>1, Zenon DEF AskPage
<1>3. /\ pager.cursor \in Int /\ pager.seen \in SUBSET DOMAIN Gecko /\ pager.twice \in SUBSET DOMAIN Gecko
      /\ pager.moved \in BOOLEAN /\ \A c \in DOMAIN Gecko : ranks[c] \in Int
  BY DEF MarketTypes
<1>4. shown # left => shown # {}
  <2> SUFFICES ASSUME shown # left, shown = {} PROVE FALSE OBVIOUS
  <2>1. IsFiniteSet(left)
    <3>1. left \in SUBSET DOMAIN Gecko BY DEF PastCursor
    <3> QED BY <3>1, FS_Subset, LookupAssumption
  <2>2. Cardinality(left) \in Nat /\ Cardinality(left) # 0 BY <2>1, FS_CardinalityType, FS_EmptySet
  <2>3. Cardinality(shown) = 0 BY FS_EmptySet
  <2> QED BY <1>2, <2>2, <2>3, CatalogueAssumption DEF Smaller
<1>5. /\ shown # left => /\ at \in Int /\ \A c \in shown : ranks[c] <= at
                         /\ \E c \in shown : at = ranks[c]
      /\ shown = left => at = pager.cursor
  BY <1>1, <1>4, CursorIs
<1>6. at \in Int /\ at >= 0
  <2>1. CASE shown = left BY <1>3, <1>5, <2>1 DEF MarketInv, Paged
  <2>2. CASE shown # left
    <3>1. PICK c \in shown : at = ranks[c] BY <1>5, <2>2
    <3>2. ranks[c] > pager.cursor BY <1>2 DEF PastCursor
    <3> QED BY <1>3, <1>5, <2>2, <3>1, <3>2 DEF MarketInv, Paged
  <2> QED BY <2>1, <2>2
<1>7. /\ pager'.pc = to /\ pager'.cursor = at /\ pager'.seen = pager.seen \cup shown
      /\ pager'.twice = pager.twice \cup (pager.seen \cap shown) /\ pager'.moved = pager.moved
      /\ pager' \in [pc : {"on", "end"}, cursor : Int, seen : SUBSET DOMAIN Gecko, twice : SUBSET DOMAIN Gecko,
                     moved : BOOLEAN]
  <2>1. PICK C, Q, s, w :
          C = SUBSET DOMAIN Gecko /\ Q = {"on", "end"}
          /\ s = pager.seen \cup shown /\ w = pager.twice \cup (pager.seen \cap shown)
    OBVIOUS
  <2>2. pager \in [pc : Q, cursor : Int, seen : C, twice : C, moved : BOOLEAN] BY <2>1 DEF MarketTypes
  <2>3. pager' = [pager EXCEPT !.seen = s, !.twice = w, !.pc = to, !.cursor = at] BY <1>2, <2>1
  <2>4. s \in C /\ w \in C /\ to \in Q /\ at \in Int BY <1>1, <1>3, <1>6, <2>1
  <2>5. /\ pager' \in [pc : Q, cursor : Int, seen : C, twice : C, moved : BOOLEAN]
        /\ pager'.pc = to /\ pager'.cursor = at /\ pager'.seen = s /\ pager'.twice = w
        /\ pager'.moved = pager.moved
    BY <2>2, <2>3, <2>4
  <2> QED BY <2>1, <2>5
<1>8. MarketTypes' BY <1>2, <1>7 DEF MarketTypes, listingVars
<1>9. Paged'
  <2>1. pager'.pc = "on" /\ pager'.seen = {} => pager'.cursor = 0 BY <1>1, <1>4, <1>7
  <2>2. ASSUME ~pager.moved
        PROVE  /\ pager'.twice = {}
               /\ to = "on" => /\ \A c \in pager'.seen : ranks[c] <= at
                               /\ \A c \in PastCursor(0) : ranks[c] <= at =>
                                    \E d \in pager'.seen : ranks[d] = ranks[c]
               /\ to = "end" => \A c \in PastCursor(0) : \E d \in pager'.seen : ranks[d] = ranks[c]
    <3>1. /\ pager.twice = {} /\ \A c \in pager.seen : ranks[c] <= pager.cursor
          /\ \A c \in PastCursor(0) : ranks[c] <= pager.cursor => \E d \in pager.seen : ranks[d] = ranks[c]
      BY <1>2, <2>2 DEF MarketInv, Paged, RankShown
    <3>2. \A c \in left : c \in DOMAIN Gecko /\ ranks[c] > pager.cursor BY DEF PastCursor
    <3>3. pager.seen \cap shown = {} BY <1>2, <1>3, <3>1, <3>2
    <3>4. \A c \in PastCursor(0) : c \in DOMAIN Gecko /\ (ranks[c] <= pager.cursor \/ c \in left)
      BY <1>3 DEF PastCursor
    <3>5. to = "on" => shown # left BY <1>1
    <3>6. to = "end" => shown = left BY <1>1
    <3>7. ASSUME to = "on" PROVE \A c \in pager'.seen : ranks[c] <= at
      <4>1. PICK e \in shown : at = ranks[e] BY <1>5, <3>5, <3>7
      <4>2. pager.cursor < at BY <1>2, <3>2, <4>1
      <4>3. \A c \in pager.seen : ranks[c] <= at BY <1>3, <1>6, <3>1, <4>2
      <4> QED BY <1>5, <1>7, <3>5, <3>7, <4>3
    <3>8. ASSUME to = "on", NEW c \in PastCursor(0), ranks[c] <= at
          PROVE  \E d \in pager'.seen : ranks[d] = ranks[c]
      <4>1. CASE ranks[c] <= pager.cursor BY <1>7, <3>1, <4>1
      <4>2. CASE c \in shown BY <1>7, <4>2
      <4>3. CASE c \in left \ shown
        <5>1. PICK e \in shown : at = ranks[e] BY <1>5, <3>5, <3>8
        <5>2. ranks[e] <= ranks[c] BY <1>2, <4>3
        <5>3. ranks[e] = ranks[c] BY <1>3, <3>4, <3>8, <5>1, <5>2
        <5> QED BY <1>7, <5>3
      <4> QED BY <3>4, <4>1, <4>2, <4>3
    <3>9. ASSUME to = "end", NEW c \in PastCursor(0)
          PROVE  \E d \in pager'.seen : ranks[d] = ranks[c]
      <4>1. CASE ranks[c] <= pager.cursor BY <1>7, <3>1, <4>1
      <4>2. CASE c \in left BY <1>7, <3>6, <3>9, <4>2
      <4> QED BY <3>4, <4>1, <4>2
    <3> QED BY <1>7, <3>1, <3>3, <3>7, <3>8, <3>9
  <2>3. PastCursor(0)' = PastCursor(0) /\ ranks' = ranks BY <1>2 DEF PastCursor
  <2> QED BY <1>6, <1>7, <2>1, <2>2, <2>3 DEF Paged, RankShown
<1>10. OneBuild' /\ Tagged' BY <1>2, BuiltStands, TaggedStands DEF MarketInv, listingVars
<1> QED BY <1>8, <1>9, <1>10 DEF MarketInv

LEMMA ProceedIs ==
    ASSUME MarketTypes, NEW b \in Builds, NEW from, NEW to \in {"idle", "gather", "publish", "release"},
           Proceed(b, from, to)
    PROVE  /\ build[b].pc = from /\ build' \in [Builds -> BuildDocs]
           /\ build'[b].pc = to /\ build'[b].revision = build[b].revision
           /\ \A c \in Builds \ {b} : build'[c] = build[c]
<1>1. PICK n : n = [build[b] EXCEPT !.pc = to] OBVIOUS
<1>2. build[b] \in BuildDocs BY DEF MarketTypes
<1>3. n \in BuildDocs /\ n.pc = to /\ n.revision = build[b].revision BY <1>1, <1>2 DEF BuildDocs
<1>4. build[b].pc = from /\ build' = [build EXCEPT ![b] = n] BY <1>1 DEF Proceed
<1> QED BY <1>3, <1>4 DEF MarketTypes

LEMMA BuildsKeep ==
    ASSUME MarketTypes, MarketInv, NEW b \in Builds,
           TakeBuild(b) \/ NumberBuild(b) \/ PublishBuild(b) \/ ReleaseBuild(b) \/ AbortBuild(b)
    PROVE  MarketTypes' /\ MarketInv'
<1>1. UNCHANGED <<ranks, pager, listingVars, expired>>
  BY DEF TakeBuild, NumberBuild, PublishBuild, ReleaseBuild, AbortBuild
<1>2. Paged' /\ Tagged' BY <1>1, PagedStands, TaggedStands DEF MarketInv, listingVars
<1>3. /\ \A c \in Builds : build[c].pc \in {"idle", "gather", "publish", "release"} /\ build[c].revision \in Nat
      /\ numbered \in Nat /\ published \in Nat /\ newest \in Nat
  BY DEF MarketTypes, BuildDocs
<1>4. /\ build' \in [Builds -> BuildDocs] /\ buildLock' \in BOOLEAN /\ numbered' \in Nat /\ published' \in Nat
      /\ newest' \in Nat /\ OneBuild'
  <2>1. CASE TakeBuild(b)
    <3>1. /\ Proceed(b, "idle", "gather") /\ ~buildLock /\ buildLock' = TRUE
          /\ UNCHANGED <<numbered, published, newest, expired>>
      BY <2>1, Zenon DEF TakeBuild
    <3>2. build[b].pc = "idle" /\ build' \in [Builds -> BuildDocs] /\ build'[b].pc = "gather"
          /\ \A c \in Builds \ {b} : build'[c] = build[c]
      BY <3>1, ProceedIs
    <3> QED BY <1>3, <3>1, <3>2 DEF MarketInv, OneBuild
  <2>2. CASE NumberBuild(b)
    <3>1. PICK n : n = [pc |-> "publish", revision |-> numbered + 1] OBVIOUS
    <3>2. /\ build[b].pc = "gather" /\ numbered' = numbered + 1 /\ build' = [build EXCEPT ![b] = n]
          /\ UNCHANGED <<buildLock, published, newest, expired>>
      BY <2>2, <3>1, Zenon DEF NumberBuild
    <3>3. n \in BuildDocs /\ n.pc = "publish" /\ n.revision = numbered + 1 BY <1>3, <3>1 DEF BuildDocs
    <3>4. build' \in [Builds -> BuildDocs] /\ build'[b] = n /\ \A c \in Builds \ {b} : build'[c] = build[c]
      BY <3>2, <3>3 DEF MarketTypes
    <3>5. buildLock' \in BOOLEAN BY <3>2 DEF MarketTypes
    <3> QED BY <1>3, <3>2, <3>3, <3>4, <3>5 DEF MarketInv, OneBuild
  <2>3. CASE PublishBuild(b)
    <3>1. /\ Proceed(b, "publish", "release") /\ published' = build[b].revision
          /\ newest' = (IF build[b].revision > newest THEN build[b].revision ELSE newest)
          /\ UNCHANGED <<buildLock, numbered, expired>>
      BY <2>3, Zenon DEF PublishBuild
    <3>2. build[b].pc = "publish" /\ build' \in [Builds -> BuildDocs] /\ build'[b].pc = "release"
          /\ \A c \in Builds \ {b} : build'[c] = build[c]
      BY <3>1, ProceedIs
    <3>3. buildLock' \in BOOLEAN BY <3>1 DEF MarketTypes
    <3> QED BY <1>3, <3>1, <3>2, <3>3 DEF MarketInv, OneBuild
  <2>4. CASE ReleaseBuild(b)
    <3>1. /\ Proceed(b, "release", "idle") /\ buildLock' = FALSE
          /\ UNCHANGED <<numbered, published, newest, expired>>
      BY <2>4, Zenon DEF ReleaseBuild
    <3>2. build[b].pc = "release" /\ build' \in [Builds -> BuildDocs] /\ build'[b].pc = "idle"
          /\ \A c \in Builds \ {b} : build'[c] = build[c]
      BY <3>1, ProceedIs
    <3> QED BY <1>3, <3>1, <3>2 DEF MarketInv, OneBuild
  <2>5. CASE AbortBuild(b)
    <3>1. /\ Proceed(b, "gather", "release") \/ Proceed(b, "publish", "release")
          /\ UNCHANGED <<buildLock, numbered, published, newest, expired>>
      BY <2>5, Zenon DEF AbortBuild
    <3>2. build[b].pc \in {"gather", "publish"} /\ build' \in [Builds -> BuildDocs] /\ build'[b].pc = "release"
          /\ \A c \in Builds \ {b} : build'[c] = build[c]
      BY <3>1, ProceedIs
    <3>3. buildLock' \in BOOLEAN BY <3>1 DEF MarketTypes
    <3> QED BY <1>3, <3>1, <3>2, <3>3 DEF MarketInv, OneBuild
  <2> QED BY <2>1, <2>2, <2>3, <2>4, <2>5
<1>5. MarketTypes' BY <1>1, <1>4 DEF MarketTypes, listingVars
<1> QED BY <1>2, <1>4, <1>5 DEF MarketInv

LEMMA LockExpiryKeeps ==
    ASSUME MarketTypes, MarketInv, BuildLockExpires
    PROVE  MarketTypes' /\ MarketInv'
<1>1. /\ buildLock' = FALSE /\ expired' = TRUE
      /\ UNCHANGED <<ranks, pager, build, numbered, published, newest, listingVars>>
  BY DEF BuildLockExpires
<1>2. Paged' /\ Tagged' BY <1>1, PagedStands, TaggedStands DEF MarketInv, listingVars
<1> QED BY <1>1, <1>2 DEF MarketInv, MarketTypes, OneBuild, listingVars

LEMMA ImportsKeep ==
    ASSUME MarketTypes, MarketInv,
           (\E S \in SUBSET Assets : Ingest(S)) \/ (\E a \in Assets : Master(a)) \/ Filter \/ Halt
    PROVE  MarketTypes' /\ MarketInv'
<1>1. UNCHANGED marketVars BY DEF Ingest, Master, Filter, Halt
<1>2. Paged' /\ OneBuild' BY <1>1, PagedStands, BuiltStands DEF MarketInv, marketVars
<1>3. importing \in [pc : {"idle", "filter", "masters"}, raw : SUBSET Assets, left : SUBSET Assets]
      /\ listed \in SUBSET Assets /\ masters \in SUBSET Assets /\ halted \in BOOLEAN
  BY DEF MarketTypes
<1>4. /\ importing' \in [pc : {"idle", "filter", "masters"}, raw : SUBSET Assets, left : SUBSET Assets]
      /\ listed' \in SUBSET Assets /\ masters' \in SUBSET Assets /\ halted' \in BOOLEAN /\ Tagged'
  <2>1. ASSUME NEW S \in SUBSET Assets, Ingest(S) PROVE <1>4!:
    <3>1. /\ importing.pc = "idle" /\ UNCHANGED <<listed, masters, halted>>
          /\ importing' = [pc |-> IF S = {} THEN "idle" ELSE "filter", raw |-> importing.raw \cup S, left |-> {}]
      BY <2>1 DEF Ingest
    <3> QED BY <1>3, <3>1 DEF MarketInv, Tagged
  <2>2. ASSUME Filter PROVE <1>4!:
    <3>1. /\ listed' = listed \cup importing.raw /\ UNCHANGED <<masters, halted>>
          /\ importing' = [importing EXCEPT !.pc = "masters", !.left = listed']
      BY <2>2 DEF Filter
    <3>2. PICK l \in SUBSET Assets : l = listed' BY <1>3, <3>1
    <3>3. importing' = [importing EXCEPT !.pc = "masters", !.left = l] BY <3>1, <3>2
    <3> QED BY <1>3, <3>1, <3>2, <3>3 DEF MarketInv, Tagged
  <2>3. ASSUME NEW a \in Assets, Master(a) PROVE <1>4!:
    <3>1. PICK to, l : to = (IF importing.left = {a} THEN "idle" ELSE importing.pc) /\ l = importing.left \ {a}
      OBVIOUS
    <3>2. /\ importing.pc = "masters" /\ a \in importing.left /\ masters' = masters \cup {a} /\ UNCHANGED listed
          /\ importing' = [importing EXCEPT !.left = l, !.pc = to]
          /\ halted' = (halted /\ importing.left # {a})
      BY <2>3, <3>1 DEF Master
    <3>3. to \in {"idle", "masters"} /\ l \in SUBSET Assets BY <1>3, <3>1, <3>2
    <3>4. /\ importing' \in [pc : {"idle", "filter", "masters"}, raw : SUBSET Assets, left : SUBSET Assets]
          /\ importing'.pc = to /\ importing'.left = l
      BY <1>3, <3>2, <3>3
    <3>5. masters' \in SUBSET Assets /\ listed' \in SUBSET Assets /\ halted' \in BOOLEAN BY <1>3, <3>2
    <3>6. listed \subseteq masters \cup importing.left BY <3>2 DEF MarketInv, Tagged
    <3>7. listed \subseteq masters' \cup l BY <3>1, <3>2, <3>6
    <3>8. to = "idle" => l = {} BY <3>1, <3>2
    <3> QED BY <3>2, <3>4, <3>5, <3>7, <3>8 DEF Tagged
  <2>4. ASSUME Halt PROVE <1>4!:
    <3>1. /\ importing' = [importing EXCEPT !.pc = "idle", !.left = {}] /\ halted' = TRUE
          /\ UNCHANGED <<listed, masters>>
      BY <2>4 DEF Halt
    <3> QED BY <1>3, <3>1 DEF Tagged
  <2> QED BY <2>1, <2>2, <2>3, <2>4
<1>5. MarketTypes' BY <1>1, <1>4 DEF MarketTypes, marketVars
<1> QED BY <1>2, <1>4, <1>5 DEF MarketInv

LEMMA MarketKeeps ==
    ASSUME MarketTypes, MarketInv, MarketNext
    PROVE  MarketTypes' /\ MarketInv'
<1>1. ASSUME NEW S \in SUBSET DOMAIN Gecko, NEW k \in 0..TopRank, Populate(S, k)
      PROVE  MarketTypes' /\ MarketInv'
  BY <1>1, PopulateKeeps
<1>2. ASSUME NEW shown \in SUBSET DOMAIN Gecko, AskPage(shown)
      PROVE  MarketTypes' /\ MarketInv'
  BY <1>2, AskPageKeeps
<1>3. ASSUME NEW b \in Builds,
             TakeBuild(b) \/ NumberBuild(b) \/ PublishBuild(b) \/ ReleaseBuild(b) \/ AbortBuild(b)
      PROVE  MarketTypes' /\ MarketInv'
  BY <1>3, BuildsKeep
<1>4. SUBSET DOMAIN Gecko \ {{}} \subseteq SUBSET DOMAIN Gecko OBVIOUS
<1> QED BY <1>1, <1>2, <1>3, <1>4, LockExpiryKeeps, ImportsKeep, Zenon DEF MarketNext

LEMMA MarketStands ==
    ASSUME MarketTypes, MarketInv, UNCHANGED catalogueVars
    PROVE  MarketTypes' /\ MarketInv'
<1>1. UNCHANGED <<marketVars, listingVars>> BY DEF catalogueVars
<1>2. MarketTypes' BY <1>1 DEF MarketTypes, marketVars, listingVars
<1>3. Paged' /\ OneBuild' /\ Tagged'
  BY <1>1, PagedStands, BuiltStands, TaggedStands DEF MarketInv, marketVars, listingVars
<1> QED BY <1>2, <1>3 DEF MarketInv

LEMMA MarketIsWhole ==
    ASSUME MarketTypes, MarketInv
    PROVE  MarketIsComplete
<1>1. ~expired => published = newest BY DEF MarketInv, OneBuild
<1>2. (importing.pc = "idle" /\ ~halted) => listed \subseteq masters BY DEF MarketInv, Tagged
<1> QED BY <1>1, <1>2 DEF MarketInv, Paged, RankShown, MarketIsComplete

LEMMA CatalogueMoves ==
    ASSUME [Next]_vars
    PROVE  /\ part = "lookups" => LookupNext \/ UNCHANGED catalogueVars
           /\ part = "market" => MarketNext \/ UNCHANGED catalogueVars
  BY DEF Next, vars

\* The coin catalogue serves its clients, for any list of coins, any number of
\* requests and builds and any length of page: what is known here is found,
\* an internal id stays with its coin, pages and published builds miss no coin,
\* and listed assets can be tagged - except as the properties' comments say -
\* when no symbol is written as CoinMarketCap writes an id.
THEOREM CatalogueServes ==
    ASSUME SymbolsAreNoNumbers
    PROVE  Spec => []CatalogueIsKept
<1> DEFINE Inv == /\ part = "lookups" => LookupTypes /\ LookupInv
                  /\ part = "market" => MarketTypes /\ MarketInv
<1>1. Init => Inv BY LookupsStart, MarketStart DEF Init
<1>2. Inv /\ [Next]_vars => Inv'
  <2> SUFFICES ASSUME Inv, [Next]_vars PROVE Inv' OBVIOUS
  <2>1. part' = part BY PartStays
  <2>2. ASSUME part = "lookups" PROVE LookupTypes' /\ LookupInv'
    BY <2>2, CatalogueMoves, LookupsKeep, NothingLooked
  <2>3. ASSUME part = "market" PROVE MarketTypes' /\ MarketInv'
    BY <2>3, CatalogueMoves, MarketKeeps, MarketStands
  <2> QED BY <2>1, <2>2, <2>3
<1>3. Inv => CatalogueIsKept BY LookupsAreRight, MarketIsWhole DEF CatalogueIsKept
<1> QED BY <1>1, <1>2, <1>3, PTL DEF Spec

(* Prices for viewers                                                        *)

\* No viewer was told a price that is not known yet.
QuotesInv ==
  /\ viewing \in [Viewers -> SUBSET Quoted] /\ latest \in [Quoted -> Nat] /\ dirty \in SUBSET Quoted
  /\ told \in [Viewers -> [Quoted -> Nat]] /\ \A v \in Viewers : \A s \in Quoted : told[v][s] <= latest[s]
  /\ QuotesAreLatest

LEMMA TellIs ==
    ASSUME QuotesInv, NEW v \in Viewers, NEW T
    PROVE  /\ Tell(told[v], T) \in [Quoted -> Nat]
           /\ \A s \in Quoted : /\ Tell(told[v], T)[s] <= latest[s]
                                /\ s \in T => Tell(told[v], T)[s] = latest[s]
                                /\ told[v][s] = latest[s] => Tell(told[v], T)[s] = latest[s]
<1>1. \A s \in Quoted : latest[s] \in Nat /\ told[v][s] \in Nat /\ told[v][s] <= latest[s] BY DEF QuotesInv
<1>2. \A s \in Quoted : Tell(told[v], T)[s] = IF s \in T /\ latest[s] > 0 THEN latest[s] ELSE told[v][s]
  BY DEF Tell
<1>3. Tell(told[v], T) \in [Quoted -> Nat] BY <1>1 DEF Tell
<1> QED BY <1>1, <1>2, <1>3

LEMMA QuotesKeep ==
    ASSUME QuotesInv, QuotesNext
    PROVE  QuotesInv'
<1>1. CASE FlushPrices
  <2>1. /\ told' = [v \in Viewers |-> Tell(told[v], viewing[v] \intersect dirty)]
        /\ UNCHANGED <<viewing, latest>> /\ dirty' = {}
    BY <1>1 DEF FlushPrices
  <2>2. \A v \in Viewers : \A s \in viewing[v] : s \in Quoted /\ (s \in dirty \/ told[v][s] = latest[s])
    BY DEF QuotesInv, QuotesAreLatest
  <2>3. \A v \in Viewers : told'[v] = Tell(told[v], viewing[v] \intersect dirty) BY <2>1
  <2>4. told' \in [Viewers -> [Quoted -> Nat]] BY <2>1, TellIs
  <2>5. \A v \in Viewers : \A s \in Quoted : told'[v][s] <= latest[s] BY <2>3, TellIs
  <2>6. ASSUME NEW v \in Viewers, NEW s \in viewing[v] PROVE told'[v][s] = latest[s]
    <3>1. s \in Quoted /\ (s \in dirty \/ told[v][s] = latest[s]) BY <2>2
    <3>2. PICK T : T = viewing[v] \intersect dirty OBVIOUS
    <3>3. told'[v] = Tell(told[v], T) BY <2>3, <3>2
    <3>4. /\ s \in T => Tell(told[v], T)[s] = latest[s]
          /\ told[v][s] = latest[s] => Tell(told[v], T)[s] = latest[s]
      BY <3>1, TellIs
    <3> QED BY <3>1, <3>2, <3>3, <3>4
  <2> QED BY <2>1, <2>4, <2>5, <2>6 DEF QuotesInv, QuotesAreLatest
<1>2. ASSUME NEW symbols \in SUBSET Quoted, HearBatch(symbols) PROVE QuotesInv'
  <2>1. /\ latest' = [s \in Quoted |-> IF s \in symbols THEN latest[s] + 1 ELSE latest[s]]
        /\ dirty' = dirty \union symbols /\ flushing' = TRUE /\ UNCHANGED <<viewing, told>>
    BY <1>2 DEF HearBatch
  <2> QED BY <2>1 DEF QuotesInv, QuotesAreLatest
<1>3. ASSUME NEW v \in Viewers, NEW symbols \in SUBSET Quoted, View(v, symbols) PROVE QuotesInv'
  <2>1. PICK n : n = Tell(told[v], symbols) OBVIOUS
  <2>2. /\ viewing' = [viewing EXCEPT ![v] = symbols] /\ told' = [told EXCEPT ![v] = n]
        /\ UNCHANGED <<latest, dirty, flushing>>
    BY <1>3, <2>1 DEF View
  <2>3. /\ n \in [Quoted -> Nat] /\ \A s \in Quoted : n[s] <= latest[s]
        /\ \A s \in symbols : n[s] = latest[s]
    BY <2>1, TellIs
  <2> QED BY <2>2, <2>3 DEF QuotesInv, QuotesAreLatest
<1> QED BY <1>1, <1>2, <1>3 DEF QuotesNext

LEMMA QuotesStart == QuotesInit => QuotesInv
  BY DEF QuotesInit, QuotesInv, QuotesAreLatest

LEMMA QuotesStand ==
    ASSUME QuotesInv, UNCHANGED quoteVars
    PROVE  QuotesInv'
  BY DEF QuotesInv, QuotesAreLatest, quoteVars

(* Aggregation of sentiment                                                  *)

RunDocs == [pc : {"idle", "read", "number", "cache", "release"}, coins : SUBSET Coins,
            left : SUBSET Coins, revision : Nat]

SumTypes ==
  /\ lock \in BOOLEAN /\ unlocked \in BOOLEAN /\ revision \in Nat /\ run \in [Runs -> RunDocs]
  /\ coinCache \in [Coins -> Nat] /\ trending \in [revision : Nat, coins : SUBSET Coins]
  /\ \A r \in Runs : run[r].revision <= revision
  /\ trending.revision <= revision /\ \A c \in Coins : coinCache[c] <= revision

\* The aggregation under the lock has the newest revision, with which it has
\* cached the coins that are not left.
UnderLock == ~unlocked =>
  /\ \A r \in Runs : run[r].pc # "idle" => lock
  /\ \A r \in Runs : run[r].pc = "cache" =>
       /\ run[r].revision = revision
       /\ \A c \in run[r].coins \ run[r].left : coinCache[c] = revision

SumInv == SumTypes /\ UnderLock /\ RevisionsAgree

LEMMA SumStart == SentimentInit => SumInv
<1>1. NoRun \in RunDocs /\ NoRun.pc = "idle" /\ NoRun.revision = 0 BY DEF NoRun, RunDocs
<1>2. SUFFICES ASSUME SentimentInit PROVE SumInv OBVIOUS
<1>3. /\ lock = FALSE /\ revision = 0 /\ run = [r \in Runs |-> NoRun] /\ unlocked = FALSE
      /\ coinCache = [c \in Coins |-> 0] /\ trending = [revision |-> 0, coins |-> {}]
  BY <1>2 DEF SentimentInit
<1>4. /\ trending \in [revision : Nat, coins : SUBSET Coins]
      /\ trending.revision = 0 /\ trending.coins = {}
  BY <1>3
<1>5. run \in [Runs -> RunDocs] /\ \A r \in Runs : run[r].pc = "idle" /\ run[r].revision = 0 BY <1>1, <1>3
<1>6. coinCache \in [Coins -> Nat] /\ \A c \in Coins : coinCache[c] = 0 BY <1>3
<1>7. RevisionsAgree BY <1>4, <1>5 DEF RevisionsAgree
<1>8. SumTypes
  <2>1. revision = 0 /\ lock \in BOOLEAN /\ unlocked \in BOOLEAN BY <1>3
  <2>2. \A r \in Runs : run[r].revision <= revision BY <1>5, <2>1
  <2>3. trending.revision <= revision BY <1>4, <2>1
  <2>4. \A c \in Coins : coinCache[c] <= revision BY <1>6, <2>1
  <2>5. revision \in Nat BY <2>1
  <2> QED BY <1>4, <1>5, <1>6, <2>1, <2>2, <2>3, <2>4, <2>5, Zenon DEF SumTypes
<1> QED BY <1>5, <1>7, <1>8 DEF SumInv, UnderLock

LEMMA SumStands ==
    ASSUME SumInv, UNCHANGED sumVars
    PROVE  SumInv'
  BY DEF SumInv, SumTypes, UnderLock, RevisionsAgree, sumVars

LEMMA SumKeeps ==
    ASSUME SumInv, SumNext
    PROVE  SumInv'
<1>1. ASSUME NEW r \in Runs, Acquire(r) PROVE SumInv'
  <2>1. PICK n : n = [run[r] EXCEPT !.pc = "read"] OBVIOUS
  <2>2. n \in RunDocs /\ n.pc = "read" /\ n.revision = run[r].revision
    BY <2>1 DEF SumInv, SumTypes, RunDocs, NoRun
  <2>3. ~lock /\ lock' = TRUE /\ run' = [run EXCEPT ![r] = n] /\ UNCHANGED <<revision, coinCache, trending, unlocked>>
    BY <1>1, <2>1 DEF Acquire
  <2>4. /\ run' \in [Runs -> RunDocs] /\ run'[r] = n /\ \A q \in Runs : q # r => run'[q] = run[q]
    BY <2>2, <2>3 DEF SumInv, SumTypes
  <2>5. ~unlocked => \A q \in Runs : run[q].pc = "idle" BY <2>3 DEF SumInv, UnderLock, RevisionsAgree
  <2>a. SumTypes' BY <2>2, <2>3, <2>4, <2>5 DEF SumInv, SumTypes
  <2>b. UnderLock' BY <2>2, <2>3, <2>4, <2>5 DEF SumInv, UnderLock
  <2>c. RevisionsAgree' BY <2>2, <2>3, <2>4, <2>5 DEF SumInv, RevisionsAgree
  <2> QED BY <2>a, <2>b, <2>c DEF SumInv
<1>2. ASSUME NEW r \in Runs, NEW about \in SUBSET Coins, ReadScores(r, about) PROVE SumInv'
  <2>1. PICK n : n = [run[r] EXCEPT !.pc = "number", !.coins = about] OBVIOUS
  <2>2. n \in RunDocs /\ n.pc = "number" /\ n.revision = run[r].revision
    BY <2>1 DEF SumInv, SumTypes, RunDocs, NoRun
  <2>3. /\ run[r].pc = "read" /\ run' = [run EXCEPT ![r] = n]
        /\ UNCHANGED <<lock, revision, coinCache, trending, unlocked>>
    BY <1>2, <2>1 DEF ReadScores
  <2>4. /\ run' \in [Runs -> RunDocs] /\ run'[r] = n /\ \A q \in Runs : q # r => run'[q] = run[q]
    BY <2>2, <2>3 DEF SumInv, SumTypes
  <2>a. SumTypes' BY <2>2, <2>3, <2>4 DEF SumInv, SumTypes
  <2>b. UnderLock' BY <2>2, <2>3, <2>4 DEF SumInv, UnderLock
  <2>c. RevisionsAgree' BY <2>2, <2>3, <2>4 DEF SumInv, RevisionsAgree
  <2> QED BY <2>a, <2>b, <2>c DEF SumInv
<1>3. ASSUME NEW r \in Runs, Number(r) PROVE SumInv'
  <2>1. PICK n : n = [run[r] EXCEPT !.pc = "cache", !.revision = revision + 1, !.left = run[r].coins] OBVIOUS
  <2>2. n \in RunDocs /\ n.pc = "cache" /\ n.revision = revision + 1 /\ n.coins = n.left
    <3>1. run[r] \in RunDocs BY DEF SumInv, SumTypes
    <3>2. PICK C \in SUBSET Coins : C = run[r].coins BY <3>1 DEF RunDocs
    <3>3. n = [pc |-> "cache", coins |-> C, left |-> C, revision |-> revision + 1]
      BY <2>1, <3>1, <3>2 DEF RunDocs
    <3> QED BY <3>2, <3>3 DEF SumInv, SumTypes, RunDocs
  <2>3. /\ run[r].pc = "number" /\ revision' = revision + 1 /\ run' = [run EXCEPT ![r] = n]
        /\ UNCHANGED <<lock, coinCache, trending, unlocked>>
    BY <1>3, <2>1 DEF Number
  <2>4. /\ run' \in [Runs -> RunDocs] /\ run'[r] = n /\ \A q \in Runs : q # r => run'[q] = run[q]
    BY <2>2, <2>3 DEF SumInv, SumTypes
  <2>5. ~unlocked => \A q \in Runs : q # r => run[q].pc = "idle" BY <2>3 DEF SumInv, UnderLock, RevisionsAgree
  <2>6. \A q \in Runs : run'[q].revision <= revision'
    <3>1. \A q \in Runs : run[q].revision \in Nat /\ run[q].revision <= revision BY DEF SumInv, SumTypes, RunDocs
    <3>2. revision \in Nat BY DEF SumInv, SumTypes
    <3> QED BY <2>2, <2>3, <2>4, <3>1, <3>2
  <2>a. SumTypes' BY <2>2, <2>3, <2>4, <2>6 DEF SumInv, SumTypes
  <2>b. UnderLock' BY <2>2, <2>3, <2>4, <2>5 DEF SumInv, UnderLock
  <2>c. RevisionsAgree' BY <2>2, <2>3, <2>4, <2>5 DEF SumInv, RevisionsAgree
  <2> QED BY <2>a, <2>b, <2>c DEF SumInv
<1>4. ASSUME NEW r \in Runs, NEW c \in Coins, CacheCoin(r, c) PROVE SumInv'
  <2>1. PICK n : n = [run[r] EXCEPT !.left = @ \ {c}] OBVIOUS
  <2>2. n \in RunDocs /\ /\ n.pc = run[r].pc /\ n.revision = run[r].revision
        /\ n.coins = run[r].coins /\ n.left = run[r].left \ {c}
    BY <2>1 DEF SumInv, SumTypes, RunDocs, NoRun
  <2>3. /\ run[r].pc = "cache" /\ run' = [run EXCEPT ![r] = n]
        /\ coinCache' = [coinCache EXCEPT ![c] = run[r].revision]
        /\ UNCHANGED <<lock, revision, trending, unlocked>>
    BY <1>4, <2>1 DEF CacheCoin
  <2>4. /\ run' \in [Runs -> RunDocs] /\ run'[r] = n /\ \A q \in Runs : q # r => run'[q] = run[q]
    BY <2>2, <2>3 DEF SumInv, SumTypes
  <2>5. ~unlocked => run[r].revision = revision BY <2>3 DEF SumInv, UnderLock, RevisionsAgree
  <2>6. ~unlocked => \A q \in Runs : q # r => run[q].pc = "idle" BY <2>3 DEF SumInv, UnderLock, RevisionsAgree
  <2>7. \A c1 \in trending.coins : ~unlocked => coinCache[c1] >= trending.revision BY <2>3 DEF SumInv, UnderLock, RevisionsAgree
  <2>8. run[r].revision \in Nat /\ run[r].revision <= revision
    <3>1. run[r] \in RunDocs BY DEF SumInv, SumTypes
    <3> QED BY <2>3, <3>1 DEF SumInv, SumTypes, RunDocs
  <2>a. SumTypes' BY <2>2, <2>3, <2>4, <2>5, <2>6, <2>7, <2>8 DEF SumInv, SumTypes
  <2>9. /\ run[r].coins \subseteq Coins /\ trending.coins \subseteq Coins /\ trending.revision \in Nat
        /\ coinCache'[c] = run[r].revision /\ \A c1 \in Coins : c1 # c => coinCache'[c1] = coinCache[c1]
    <3>1. run[r] \in RunDocs /\ coinCache \in [Coins -> Nat] /\ trending \in [revision : Nat, coins : SUBSET Coins]
      BY DEF SumInv, SumTypes
    <3> QED BY <2>3, <3>1 DEF RunDocs
  <2>b. UnderLock' BY <2>2, <2>3, <2>4, <2>5, <2>6, <2>9 DEF SumInv, UnderLock
  <2>c. RevisionsAgree'
    <3>1. \A c1 \in trending.coins : ~unlocked => coinCache'[c1] >= trending.revision
      <4>1. trending.revision <= revision BY DEF SumInv, SumTypes
      <4> QED BY <2>5, <2>7, <2>9, <4>1
    <3> QED BY <2>2, <2>3, <2>4, <2>6, <3>1 DEF RevisionsAgree
  <2> QED BY <2>a, <2>b, <2>c DEF SumInv
<1>5. ASSUME NEW r \in Runs, CacheTrending(r) PROVE SumInv'
  <2>1. PICK n : n = [run[r] EXCEPT !.pc = "release"] OBVIOUS
  <2>2. n \in RunDocs /\ n.pc = "release" /\ n.revision = run[r].revision
    BY <2>1 DEF SumInv, SumTypes, RunDocs, NoRun
  <2>3. /\ run[r].pc = "cache" /\ run[r].left = {} /\ run' = [run EXCEPT ![r] = n]
        /\ trending' = [revision |-> run[r].revision, coins |-> run[r].coins]
        /\ UNCHANGED <<lock, revision, coinCache, unlocked>>
    BY <1>5, <2>1 DEF CacheTrending
  <2>4. /\ run' \in [Runs -> RunDocs] /\ run'[r] = n /\ \A q \in Runs : q # r => run'[q] = run[q]
    BY <2>2, <2>3 DEF SumInv, SumTypes
  <2>5. ~unlocked => run[r].revision = revision /\ \A c \in run[r].coins : coinCache[c] = revision BY <2>3 DEF SumInv, UnderLock, RevisionsAgree
  <2>6. ~unlocked => \A q \in Runs : q # r => run[q].pc = "idle" BY <2>3 DEF SumInv, UnderLock, RevisionsAgree
  <2>7. trending' \in [revision : Nat, coins : SUBSET Coins]
        /\ trending'.revision = run[r].revision /\ trending'.coins = run[r].coins
    <3>1. run[r] \in RunDocs BY DEF SumInv, SumTypes
    <3> QED BY <2>3, <3>1 DEF RunDocs
  <2>8. run[r].revision <= revision BY <2>3 DEF SumInv, SumTypes
  <2>a. SumTypes' BY <2>2, <2>3, <2>4, <2>5, <2>6, <2>7, <2>8 DEF SumInv, SumTypes
  <2>b. UnderLock' BY <2>2, <2>3, <2>4, <2>6 DEF SumInv, UnderLock
  <2>c. RevisionsAgree'
    <3>1. ~unlocked => \A c \in trending'.coins : coinCache'[c] >= trending'.revision
      <4>1. run[r].revision \in Nat /\ revision \in Nat BY <2>7 DEF SumInv, SumTypes
      <4> QED BY <2>3, <2>5, <2>7, <4>1
    <3> QED BY <2>2, <2>3, <2>4, <2>6, <3>1 DEF RevisionsAgree
  <2> QED BY <2>a, <2>b, <2>c DEF SumInv
<1>6. ASSUME NEW r \in Runs, Release(r) PROVE SumInv'
  <2>1. PICK n : n = NoRun OBVIOUS
  <2>2. n \in RunDocs /\ n.pc = "idle" /\ n.revision = 0 BY <2>1 DEF SumInv, SumTypes, RunDocs, NoRun
  <2>3. /\ run[r].pc = "release" /\ lock' = FALSE /\ run' = [run EXCEPT ![r] = n]
        /\ UNCHANGED <<revision, coinCache, trending, unlocked>>
    BY <1>6, <2>1 DEF Release
  <2>4. /\ run' \in [Runs -> RunDocs] /\ run'[r] = n /\ \A q \in Runs : q # r => run'[q] = run[q]
    BY <2>2, <2>3 DEF SumInv, SumTypes
  <2>5. ~unlocked => \A q \in Runs : q # r => run[q].pc = "idle" BY <2>3 DEF SumInv, UnderLock, RevisionsAgree
  <2>6. \A q \in Runs : run'[q].revision <= revision'
    <3>1. \A q \in Runs : run[q].revision \in Nat /\ run[q].revision <= revision BY DEF SumInv, SumTypes, RunDocs
    <3>2. revision \in Nat BY DEF SumInv, SumTypes
    <3> QED BY <2>2, <2>3, <2>4, <3>1, <3>2
  <2>a. SumTypes' BY <2>2, <2>3, <2>4, <2>6 DEF SumInv, SumTypes
  <2>b. UnderLock' BY <2>2, <2>3, <2>4, <2>5 DEF SumInv, UnderLock
  <2>c. RevisionsAgree' BY <2>2, <2>3, <2>4, <2>5 DEF SumInv, RevisionsAgree
  <2> QED BY <2>a, <2>b, <2>c DEF SumInv
<1>7. ASSUME NEW r \in Runs, Abort(r) PROVE SumInv'
  <2>1. PICK n : n = [run[r] EXCEPT !.pc = "release"] OBVIOUS
  <2>2. n \in RunDocs /\ n.pc = "release" /\ n.revision = run[r].revision
    BY <2>1 DEF SumInv, SumTypes, RunDocs, NoRun
  <2>3. /\ run[r].pc # "idle" /\ run' = [run EXCEPT ![r] = n]
        /\ UNCHANGED <<lock, revision, coinCache, trending, unlocked>>
    BY <1>7, <2>1 DEF Abort
  <2>4. /\ run' \in [Runs -> RunDocs] /\ run'[r] = n /\ \A q \in Runs : q # r => run'[q] = run[q]
    BY <2>2, <2>3 DEF SumInv, SumTypes
  <2>a. SumTypes' BY <2>2, <2>3, <2>4 DEF SumInv, SumTypes
  <2>b. UnderLock' BY <2>2, <2>3, <2>4 DEF SumInv, UnderLock
  <2>c. RevisionsAgree' BY <2>2, <2>3, <2>4 DEF SumInv, RevisionsAgree
  <2> QED BY <2>a, <2>b, <2>c DEF SumInv
<1>8. CASE LockExpires BY <1>8 DEF LockExpires, SumInv, SumTypes, UnderLock, RevisionsAgree
<1> QED BY <1>1, <1>2, <1>3, <1>4, <1>5, <1>6, <1>7, <1>8 DEF SumNext

(* News feed                                                                 *)

Versions == Nat \cup {Absent}
VisitDocs == [pc : {"idle", "revision", "answer", "entity", "wait", "keep"},
              tag : Revisions \cup {Absent}, version : Versions, fresh : BOOLEAN]
ListDocs == [tag : Revisions \cup {Absent}, version : Versions, fresh : BOOLEAN]
AnswerDocs == [version : Versions, fresh : BOOLEAN]

FeedTypes ==
  /\ content \in Nat /\ feed \in Nat /\ bumps \in Nat /\ debounce \in BOOLEAN /\ silent \in BOOLEAN
  /\ entity \in Versions /\ flight \in [pc : {"idle", "read", "set"}, version : Versions]
  /\ answers \in [Revisions -> AnswerDocs \cup {Absent}]
  /\ visit \in [Clients -> VisitDocs] /\ held \in [Clients -> ListDocs]

\* Each revision is counted for a change, and each change spent a stimulus.
BumpsCounted == stimuli \in 0..MaxStimuli /\ feed + bumps + (IF debounce THEN 1 ELSE 0) <= stimuli

\* A list of another version than the stored one is, or will be, under an
\* earlier tag.
Overtaken(tag, version) == version # content => feed > tag \/ bumps > 0 \/ debounce

\* What was read from the database after its tag was, wherever it is.
VisitHolds(k) ==
  /\ k.pc \in {"answer", "entity", "wait", "keep"} => k.tag \in Revisions /\ k.tag <= feed
  /\ k.pc \in {"idle", "revision", "answer", "entity"} => ~k.fresh
  /\ k.fresh /\ ~silent /\ k.pc = "keep" => Overtaken(k.tag, k.version)
  /\ k.fresh /\ ~silent /\ k.pc = "wait" /\ flight.pc = "set" => Overtaken(k.tag, flight.version)
ListHolds(h) == h.fresh => h.tag \in Revisions /\ h.tag <= feed /\ (~silent => Overtaken(h.tag, h.version))
AnswerHolds(r) ==
  answers[r] # Absent /\ answers[r].fresh => r <= feed /\ (~silent => Overtaken(r, answers[r].version))

FeedInv ==
  /\ FeedTypes /\ BumpsCounted
  /\ \A c \in Clients : VisitHolds(visit[c]) /\ ListHolds(held[c])
  /\ \A r \in Revisions : AnswerHolds(r)

LEMMA TagsFit == FeedInv => feed \in Revisions
  BY BudgetAssumption DEF FeedInv, FeedTypes, BumpsCounted, Revisions

LEMMA ListsStart ==
  /\ Landed \in [pc : {"idle", "read", "set"}, version : Versions] /\ Landed.pc = "idle"
  /\ Away \in VisitDocs /\ Away.pc = "idle" /\ Away.fresh = FALSE
  /\ NoList \in ListDocs /\ NoList.fresh = FALSE
  BY DEF Landed, Away, NoList, Versions, VisitDocs, ListDocs

LEMMA FeedStarts ==
    ASSUME FeedInit, stimuli \in 0..MaxStimuli
    PROVE  FeedInv
<1>1. FeedTypes BY ListsStart DEF FeedInit, FeedTypes, Versions
<1>2. BumpsCounted BY BudgetAssumption DEF FeedInit, BumpsCounted
<1>3. \A c \in Clients : VisitHolds(visit[c]) /\ ListHolds(held[c])
  BY ListsStart DEF FeedInit, VisitHolds, ListHolds
<1>4. \A r \in Revisions : AnswerHolds(r) BY DEF FeedInit, AnswerHolds
<1> QED BY <1>1, <1>2, <1>3, <1>4 DEF FeedInv

\* A change, or a revision counted up, overtakes what was not yet.
LEMMA ChangesOvertake ==
    ASSUME FeedInv, FeedTypes', UNCHANGED <<flight, visit, held, answers>>,
           feed <= feed', silent => silent',
           \/ silent'
           \/ bumps' > 0 \/ debounce' \/ feed' > feed
           \/ content' = content /\ (bumps > 0 \/ debounce => bumps' > 0 \/ debounce')
    PROVE  /\ \A c \in Clients : VisitHolds(visit[c])' /\ ListHolds(held[c])'
           /\ \A r \in Revisions : AnswerHolds(r)'
<1>1. ASSUME NEW t \in Revisions, t <= feed, NEW v, ~silent', ~silent => Overtaken(t, v)
      PROVE  t <= feed' /\ Overtaken(t, v)'
  BY <1>1, BudgetAssumption DEF Overtaken, FeedInv, FeedTypes, Revisions
<1>2. \A t \in Revisions : t <= feed => t <= feed'
  BY BudgetAssumption DEF FeedInv, FeedTypes, Revisions
<1>3. ASSUME NEW c \in Clients PROVE VisitHolds(visit[c])'
  <2>1. VisitHolds(visit[c]) BY DEF FeedInv
  <2> QED BY <1>1, <1>2, <2>1 DEF VisitHolds
<1>4. ASSUME NEW c \in Clients PROVE ListHolds(held[c])'
  <2>1. ListHolds(held[c]) BY DEF FeedInv
  <2> QED BY <1>1, <1>2, <2>1 DEF ListHolds
<1>5. ASSUME NEW r \in Revisions PROVE AnswerHolds(r)'
  <2>1. AnswerHolds(r) BY DEF FeedInv
  <2> QED BY <1>1, <1>2, <2>1 DEF AnswerHolds
<1> QED BY <1>3, <1>4, <1>5

LEMMA FeedChanges ==
    ASSUME FeedInv, \/ StoreArticles \/ ScoreArticle \/ DebounceEnds
                    \/ \E missed \in BOOLEAN : Bump(missed)
    PROVE  FeedInv'
<1>1. FeedTypes' /\ BumpsCounted' /\ UNCHANGED <<flight, visit, held, answers>>
  <2>1. /\ content \in Nat /\ feed \in Nat /\ bumps \in Nat /\ debounce \in BOOLEAN /\ silent \in BOOLEAN
        /\ BumpsCounted /\ MaxStimuli \in Nat
    BY BudgetAssumption DEF FeedInv, FeedTypes
  <2>2. content' \in Nat /\ feed' \in Nat /\ bumps' \in Nat
    BY <2>1 DEF StoreArticles, ScoreArticle, DebounceEnds, Bump
  <2>4. debounce' \in BOOLEAN /\ silent' \in BOOLEAN
    BY <2>1, Zenon DEF StoreArticles, ScoreArticle, DebounceEnds, Bump
  <2>5. UNCHANGED <<entity, flight, visit, held, answers>>
    BY Zenon DEF StoreArticles, ScoreArticle, DebounceEnds, Bump
  <2>3. BumpsCounted' BY <2>1 DEF BumpsCounted, StoreArticles, ScoreArticle, DebounceEnds, Bump, Spend
  <2> QED BY <2>2, <2>3, <2>4, <2>5 DEF FeedInv, FeedTypes
<1>2. /\ feed <= feed' /\ (silent => silent')
      /\ \/ silent'
         \/ bumps' > 0 \/ debounce' \/ feed' > feed
  BY DEF FeedInv, FeedTypes, StoreArticles, ScoreArticle, DebounceEnds, Bump
<1> QED BY <1>1, <1>2, ChangesOvertake DEF FeedInv

LEMMA FeedCrashes ==
    ASSUME FeedInv, Crash
    PROVE  FeedInv'
<1>1. /\ Spend(1) /\ silent' = (silent \/ bumps > 0 \/ debounce) /\ bumps' = 0 /\ debounce' = FALSE
      /\ flight' = Landed /\ visit' = [c \in Clients |-> Away]
      /\ UNCHANGED <<content, feed, entity, answers, held>>
  BY DEF Crash
<1>2. FeedTypes' BY <1>1, ListsStart DEF FeedInv, FeedTypes
<1>3. BumpsCounted' BY <1>1, BudgetAssumption DEF FeedInv, FeedTypes, BumpsCounted, Spend
<1>4. ASSUME NEW t, NEW v, ~silent', ~silent => Overtaken(t, v)
      PROVE  Overtaken(t, v)'
  BY <1>1, <1>4 DEF Overtaken
<1>5. ASSUME NEW c \in Clients PROVE VisitHolds(visit[c])' /\ ListHolds(held[c])'
  <2>1. ListHolds(held[c]) BY DEF FeedInv
  <2>2. ListHolds(held[c])' BY <1>1, <1>4, <2>1 DEF ListHolds
  <2>3. visit'[c] = Away BY <1>1
  <2> QED BY <2>2, <2>3, ListsStart DEF VisitHolds
<1>6. ASSUME NEW r \in Revisions PROVE AnswerHolds(r)'
  <2>1. AnswerHolds(r) BY DEF FeedInv
  <2> QED BY <1>1, <1>4, <2>1 DEF AnswerHolds
<1> QED BY <1>2, <1>3, <1>5, <1>6 DEF FeedInv

\* What a tag overtakes while nothing is stored or counted.
LEMMA TagsStand ==
    ASSUME UNCHANGED <<content, feed, bumps, debounce>>
    PROVE  \A t, v : Overtaken(t, v)' <=> Overtaken(t, v)
  BY DEF Overtaken

LEMMA ListsStand ==
    ASSUME FeedInv, UNCHANGED <<content, feed, bumps, debounce>>, silent => silent'
    PROVE  /\ \A c \in Clients : held'[c] = held[c] => ListHolds(held[c])'
           /\ \A c \in Clients : visit'[c] = visit[c] /\ UNCHANGED flight => VisitHolds(visit[c])'
           /\ \A r \in Revisions : answers'[r] = answers[r] => AnswerHolds(r)'
<1>1. \A t, v : Overtaken(t, v)' <=> Overtaken(t, v) BY TagsStand
<1> QED BY <1>1 DEF FeedInv, ListHolds, VisitHolds, AnswerHolds

LEMMA FeedExpires ==
    ASSUME FeedInv, CacheExpires
    PROVE  FeedInv'
<1>1. /\ UNCHANGED <<stimuli, content, feed, bumps, debounce, flight, visit, held, silent>>
      /\ entity' \in {entity, Absent} /\ \A r \in Revisions : answers'[r] \in {answers[r], Absent}
      /\ answers' \in [Revisions -> AnswerDocs \cup {Absent}]
  BY DEF CacheExpires, FeedInv, FeedTypes
<1>2. FeedTypes' /\ BumpsCounted' BY <1>1 DEF FeedInv, FeedTypes, BumpsCounted, Versions
<1>3. \A c \in Clients : VisitHolds(visit[c])' /\ ListHolds(held[c])' BY <1>1, ListsStand
<1>4. ASSUME NEW r \in Revisions PROVE AnswerHolds(r)'
  BY <1>1, ListsStand DEF AnswerHolds
<1> QED BY <1>2, <1>3, <1>4 DEF FeedInv

\* A client goes on to n.
LEMMA ClientGoesOn ==
    ASSUME FeedInv, UNCHANGED <<content, feed, bumps, debounce, flight, entity>>,
           BumpsCounted', silent => silent', silent' \in BOOLEAN,
           NEW c \in Clients, NEW n \in VisitDocs, visit' = [visit EXCEPT ![c] = n], VisitHolds(n)',
           NEW h \in ListDocs, held' = [held EXCEPT ![c] = h], ListHolds(h)',
           answers' \in [Revisions -> AnswerDocs \cup {Absent}], \A r \in Revisions : AnswerHolds(r)'
    PROVE  FeedInv'
<1>1. FeedTypes' /\ BumpsCounted' BY DEF FeedInv, FeedTypes, BumpsCounted
<1>2. /\ visit'[c] = n /\ held'[c] = h
      /\ \A d \in Clients : d # c => visit'[d] = visit[d] /\ held'[d] = held[d]
  BY DEF FeedInv, FeedTypes
<1>3. ASSUME NEW d \in Clients PROVE VisitHolds(visit[d])' /\ ListHolds(held[d])'
  <2>1. CASE d = c BY <1>2, <2>1 DEF VisitHolds, ListHolds
  <2>2. CASE d # c BY <1>2, <2>2, ListsStand
  <2> QED BY <2>1, <2>2
<1> QED BY <1>1, <1>3 DEF FeedInv

LEMMA ListGoesNot ==
    ASSUME FeedInv, NEW c \in Clients, UNCHANGED <<held, content, feed, bumps, debounce>>, silent => silent'
    PROVE  held[c] \in ListDocs /\ held' = [held EXCEPT ![c] = held[c]] /\ ListHolds(held[c])'
<1>1. held'[c] = held[c] OBVIOUS
<1>2. held[c] \in ListDocs /\ held' = [held EXCEPT ![c] = held[c]] BY DEF FeedInv, FeedTypes
<1> QED BY <1>1, <1>2, ListsStand

LEMMA AnswersGoNot ==
    ASSUME FeedInv, UNCHANGED <<answers, content, feed, bumps, debounce>>, silent => silent'
    PROVE  /\ answers' \in [Revisions -> AnswerDocs \cup {Absent}]
           /\ \A r \in Revisions : AnswerHolds(r)'
  BY ListsStand DEF FeedInv, FeedTypes

LEMMA OpenKeeps ==
    ASSUME FeedInv, NEW c \in Clients, Open(c)
    PROVE  FeedInv'
<1>1. PICK n : n = [Away EXCEPT !.pc = "revision"] OBVIOUS
<1>2. /\ Spend(1) /\ visit' = [visit EXCEPT ![c] = n]
      /\ UNCHANGED <<content, feed, bumps, debounce, entity, answers, flight, held, silent>>
  BY <1>1 DEF Open
<1>3. n \in VisitDocs /\ n.pc = "revision" /\ n.fresh = FALSE BY <1>1, ListsStart DEF VisitDocs
<1>4. BumpsCounted' BY <1>2, BudgetAssumption DEF FeedInv, FeedTypes, BumpsCounted, Spend
<1>5. VisitHolds(n)' BY <1>3 DEF VisitHolds
<1>6. silent' \in BOOLEAN BY <1>2 DEF FeedInv, FeedTypes
<1> QED BY <1>2, <1>3, <1>4, <1>5, <1>6, ListGoesNot, AnswersGoNot, ClientGoesOn

LEMMA AskRevisionKeeps ==
    ASSUME FeedInv, NEW c \in Clients, NEW down \in BOOLEAN, AskRevision(c, down)
    PROVE  FeedInv'
<1>1. PICK tag : tag = IF down THEN 0 ELSE feed OBVIOUS
<1>2. PICK n : n = IF held[c].tag = tag THEN Away ELSE [visit[c] EXCEPT !.pc = "answer", !.tag = tag] OBVIOUS
<1>3. /\ visit[c].pc = "revision" /\ visit' = [visit EXCEPT ![c] = n]
      /\ \/ Spend(1) /\ silent' = TRUE
         \/ UNCHANGED <<stimuli, silent>>
      /\ UNCHANGED <<content, feed, bumps, debounce, entity, answers, flight, held>>
  BY <1>1, <1>2 DEF AskRevision
<1>4. tag \in Revisions /\ tag <= feed BY <1>1, TagsFit, BudgetAssumption DEF Revisions, FeedInv, FeedTypes
<1>5. visit[c] \in VisitDocs /\ VisitHolds(visit[c]) BY DEF FeedInv, FeedTypes
<1>6. n \in VisitDocs /\ ~n.fresh /\ n.pc \in {"idle", "answer"} /\ (n.pc = "answer" => n.tag = tag)
  <2>1. CASE n = Away BY <2>1, ListsStart
  <2>2. CASE n = [visit[c] EXCEPT !.pc = "answer", !.tag = tag]
    <3>1. n.fresh = visit[c].fresh /\ n.pc = "answer" /\ n.tag = tag BY <1>5, <2>2 DEF VisitDocs
    <3>2. n \in VisitDocs BY <1>4, <1>5, <2>2 DEF VisitDocs
    <3> QED BY <1>3, <1>5, <3>1, <3>2 DEF VisitHolds
  <2> QED BY <1>2, <2>1, <2>2
<1>7. BumpsCounted' BY <1>3, BudgetAssumption DEF FeedInv, FeedTypes, BumpsCounted, Spend
<1>8. VisitHolds(n)' BY <1>3, <1>4, <1>6 DEF VisitHolds
<1>9. silent' \in BOOLEAN /\ (silent => silent') BY <1>3 DEF FeedInv, FeedTypes
<1> QED BY <1>3, <1>6, <1>7, <1>8, <1>9, ListGoesNot, AnswersGoNot, ClientGoesOn

LEMMA AskAnswerKeeps ==
    ASSUME FeedInv, NEW c \in Clients, AskAnswer(c)
    PROVE  FeedInv'
<1>1. PICK there : there = answers[visit[c].tag] OBVIOUS
<1>2. /\ visit[c].pc = "answer" /\ UNCHANGED <<stimuli, content, feed, bumps, debounce, entity, answers, flight, silent>>
      /\ \/ there = Absent /\ visit' = [visit EXCEPT ![c].pc = "entity"] /\ UNCHANGED held
         \/ /\ there # Absent /\ visit' = [visit EXCEPT ![c] = Away]
            /\ held' = [held EXCEPT ![c] = [tag |-> visit[c].tag, version |-> there.version, fresh |-> there.fresh]]
  BY <1>1 DEF AskAnswer, KeptAnswer
<1>3. visit[c] \in VisitDocs /\ VisitHolds(visit[c]) BY DEF FeedInv, FeedTypes
<1>4. visit[c].tag \in Revisions /\ visit[c].tag <= feed /\ ~visit[c].fresh BY <1>2, <1>3 DEF VisitHolds
<1>5. BumpsCounted' /\ silent' \in BOOLEAN /\ (silent => silent') BY <1>2 DEF FeedInv, FeedTypes, BumpsCounted
<1>6. CASE there = Absent
  <2>1. PICK n : n = [visit[c] EXCEPT !.pc = "entity"] OBVIOUS
  <2>2. visit' = [visit EXCEPT ![c] = n] /\ UNCHANGED held BY <1>2, <1>6, <2>1
  <2>3. n \in VisitDocs /\ n.pc = "entity" /\ n.tag = visit[c].tag /\ n.fresh = visit[c].fresh
    BY <1>3, <2>1 DEF VisitDocs
  <2>4. VisitHolds(n)' BY <1>2, <1>4, <2>3 DEF VisitHolds
  <2> QED BY <1>2, <1>5, <2>2, <2>3, <2>4, ListGoesNot, AnswersGoNot, ClientGoesOn
<1>7. CASE there # Absent
  <2>1. there \in AnswerDocs /\ AnswerHolds(visit[c].tag) BY <1>1, <1>4, <1>7 DEF FeedInv, FeedTypes
  <2>2. PICK h : h = [tag |-> visit[c].tag, version |-> there.version, fresh |-> there.fresh] OBVIOUS
  <2>3. visit' = [visit EXCEPT ![c] = Away] /\ held' = [held EXCEPT ![c] = h] BY <1>2, <1>7, <2>2
  <2>4. /\ h \in ListDocs /\ h.tag = visit[c].tag /\ h.version = there.version
        /\ h.fresh = there.fresh
    BY <1>4, <2>1, <2>2 DEF ListDocs, AnswerDocs
  <2>5. ListHolds(h)' BY <1>1, <1>2, <1>4, <1>7, <2>1, <2>4, TagsStand DEF ListHolds, AnswerHolds
  <2>6. VisitHolds(Away)' BY ListsStart DEF VisitHolds
  <2> QED BY <1>2, <1>5, <2>3, <2>4, <2>5, <2>6, ListsStart, AnswersGoNot, ClientGoesOn
<1> QED BY <1>6, <1>7

LEMMA AskEntityKeeps ==
    ASSUME FeedInv, NEW c \in Clients, AskEntity(c)
    PROVE  FeedInv'
<1>1. visit[c].pc = "entity" /\ UNCHANGED <<stimuli, content, feed, bumps, debounce, entity, answers, held, silent>>
  BY DEF AskEntity
<1>2. visit[c] \in VisitDocs /\ VisitHolds(visit[c]) BY DEF FeedInv, FeedTypes
<1>3. visit[c].tag \in Revisions /\ visit[c].tag <= feed /\ ~visit[c].fresh BY <1>1, <1>2 DEF VisitHolds
<1>4. BumpsCounted' /\ silent' \in BOOLEAN /\ (silent => silent') BY <1>1 DEF FeedInv, FeedTypes, BumpsCounted
<1>5. CASE entity # Absent
  <2>1. PICK n : n = [visit[c] EXCEPT !.pc = "keep", !.version = entity] OBVIOUS
  <2>2. visit' = [visit EXCEPT ![c] = n] /\ UNCHANGED flight BY <1>5, <2>1 DEF AskEntity
  <2>3. entity \in Versions BY DEF FeedInv, FeedTypes
  <2>4. n.pc = "keep" /\ n.tag = visit[c].tag /\ n.fresh = visit[c].fresh BY <1>2, <2>1 DEF VisitDocs
  <2>5. n \in VisitDocs BY <1>2, <2>1, <2>3 DEF VisitDocs
  <2>6. VisitHolds(n)' BY <1>1, <1>3, <2>4 DEF VisitHolds
  <2> QED BY <1>1, <1>4, <2>2, <2>5, <2>6, ListGoesNot, AnswersGoNot, ClientGoesOn
<1>6. CASE entity = Absent
  <2>1. PICK d : d = (flight.pc # "set") OBVIOUS
  <2>2. d \in BOOLEAN BY <2>1
  <2>3. PICK n : n = [visit[c] EXCEPT !.pc = "wait", !.fresh = d] OBVIOUS
  <2>4. visit' = [visit EXCEPT ![c] = n] BY <1>6, <2>1, <2>3 DEF AskEntity
  <2>5. flight' = IF flight.pc = "idle" THEN [Landed EXCEPT !.pc = "read"] ELSE flight BY <1>6 DEF AskEntity
  <2>6. n.pc = "wait" /\ n.tag = visit[c].tag /\ n.fresh = d /\ n \in VisitDocs
    BY <1>2, <2>2, <2>3 DEF VisitDocs
  <2>7. /\ flight' \in [pc : {"idle", "read", "set"}, version : Versions]
        /\ flight'.pc = "set" => flight.pc = "set" /\ flight' = flight
    BY <2>5, ListsStart DEF FeedInv, FeedTypes
  <2>8. FeedTypes'
    <3>1. visit' \in [Clients -> VisitDocs] BY <2>4, <2>6 DEF FeedInv, FeedTypes
    <3> QED BY <1>1, <2>7, <3>1 DEF FeedInv, FeedTypes
  <2>9. ASSUME NEW e \in Clients PROVE VisitHolds(visit[e])' /\ ListHolds(held[e])'
    <3>1. ListHolds(held[e])' BY <1>1, ListsStand
    <3>2. CASE e = c
      <4>1. visit'[e] = n BY <2>4, <3>2 DEF FeedInv, FeedTypes
      <4>2. n.fresh => flight'.pc # "set" BY <2>1, <2>6, <2>7
      <4> QED BY <1>1, <1>3, <2>6, <3>1, <4>1, <4>2 DEF VisitHolds
    <3>3. CASE e # c
      <4>1. visit'[e] = visit[e] /\ VisitHolds(visit[e]) BY <2>4, <3>3 DEF FeedInv, FeedTypes
      <4> QED BY <1>1, <2>7, <3>1, <4>1, TagsStand DEF VisitHolds
    <3> QED BY <3>2, <3>3
  <2> QED BY <1>1, <1>4, <2>8, <2>9, AnswersGoNot DEF FeedInv
<1> QED BY <1>5, <1>6

\* The read under way, and who waits for it.
LEMMA FlightKeeps ==
    ASSUME FeedInv, ReadArticles \/ ReadFails \/ FillEntity
    PROVE  FeedInv'
<1>1. /\ UNCHANGED <<content, feed, bumps, debounce, answers, held, silent>>
      /\ stimuli' = stimuli \/ Spend(1)
  BY Zenon DEF ReadArticles, ReadFails, FillEntity
<1>2. BumpsCounted' BY <1>1, BudgetAssumption DEF FeedInv, FeedTypes, BumpsCounted, Spend
<1>3. \A c \in Clients : ListHolds(held[c])' BY <1>1, ListsStand
<1>4. \A r \in Revisions : AnswerHolds(r)' BY <1>1, AnswersGoNot
<1>5. \A t, v : Overtaken(t, v)' <=> Overtaken(t, v) BY <1>1, TagsStand
<1>6. CASE ReadArticles
  <2>1. flight' = [pc |-> "set", version |-> content] /\ UNCHANGED <<entity, visit>> BY <1>6 DEF ReadArticles
  <2>2. flight' \in [pc : {"idle", "read", "set"}, version : Versions] /\ flight'.version = content
    BY <2>1 DEF FeedInv, FeedTypes, Versions
  <2>3. FeedTypes' BY <1>1, <2>1, <2>2 DEF FeedInv, FeedTypes
  <2>4. ASSUME NEW c \in Clients PROVE VisitHolds(visit[c])'
    <3>1. VisitHolds(visit[c]) /\ visit'[c] = visit[c] BY <2>1 DEF FeedInv
    <3>2. \A t : Overtaken(t, flight.version)' BY <1>1, <2>2 DEF Overtaken
    <3> QED BY <1>1, <1>5, <3>1, <3>2 DEF VisitHolds
  <2> QED BY <1>2, <1>3, <1>4, <2>3, <2>4 DEF FeedInv
<1>7. CASE ReadFails
  <2>1. /\ flight' = Landed /\ UNCHANGED entity
        /\ visit' = [c \in Clients |-> IF visit[c].pc = "wait" THEN Away ELSE visit[c]]
    BY <1>7 DEF ReadFails
  <2>2. FeedTypes' BY <1>1, <2>1, ListsStart DEF FeedInv, FeedTypes
  <2>3. ASSUME NEW c \in Clients PROVE VisitHolds(visit[c])'
    <3>1. VisitHolds(visit[c]) /\ visit'[c] \in {Away, visit[c]} BY <2>1 DEF FeedInv
    <3> QED BY <1>1, <1>5, <2>1, <3>1, ListsStart DEF VisitHolds
  <2> QED BY <1>2, <1>3, <1>4, <2>2, <2>3 DEF FeedInv
<1>8. CASE FillEntity
  <2>1. /\ flight.pc = "set" /\ entity' = flight.version /\ flight' = Landed
        /\ visit' = [c \in Clients |->
             IF visit[c].pc = "wait" THEN [visit[c] EXCEPT !.pc = "keep", !.version = flight.version]
             ELSE visit[c]]
    BY <1>8 DEF FillEntity
  <2>2. flight.version \in Versions BY DEF FeedInv, FeedTypes
  <2>3. ASSUME NEW c \in Clients
        PROVE  visit'[c] \in VisitDocs /\ VisitHolds(visit[c])'
    <3>1. visit[c] \in VisitDocs /\ VisitHolds(visit[c]) BY DEF FeedInv, FeedTypes
    <3>2. CASE visit[c].pc = "wait"
      <4>1. PICK n : n = [visit[c] EXCEPT !.pc = "keep", !.version = flight.version] OBVIOUS
      <4>2. visit'[c] = n BY <2>1, <3>2, <4>1
      <4>3. n.pc = "keep" /\ n.tag = visit[c].tag /\ n.fresh = visit[c].fresh /\ n.version = flight.version
        BY <3>1, <4>1 DEF VisitDocs
      <4>4. n \in VisitDocs BY <2>2, <3>1, <4>1 DEF VisitDocs
      <4> QED BY <1>1, <1>5, <2>1, <3>1, <3>2, <4>2, <4>3, <4>4 DEF VisitHolds
    <3>3. CASE visit[c].pc # "wait"
      <4>1. visit'[c] = visit[c] BY <2>1, <3>3
      <4> QED BY <1>1, <1>5, <3>1, <3>3, <4>1 DEF VisitHolds
    <3> QED BY <3>2, <3>3
  <2>4. visit' \in [Clients -> VisitDocs] BY <2>1, <2>3
  <2>5. FeedTypes' BY <1>1, <2>1, <2>2, <2>4, ListsStart DEF FeedInv, FeedTypes
  <2> QED BY <1>2, <1>3, <1>4, <2>3, <2>5 DEF FeedInv
<1> QED BY <1>6, <1>7, <1>8

LEMMA KeepAnswerKeeps ==
    ASSUME FeedInv, NEW c \in Clients, KeepAnswer(c)
    PROVE  FeedInv'
<1>1. visit[c] \in VisitDocs /\ VisitHolds(visit[c]) BY DEF FeedInv, FeedTypes
<1>2. PICK made : made = [version |-> visit[c].version, fresh |-> visit[c].fresh] OBVIOUS
<1>3. PICK h : h = [tag |-> visit[c].tag, version |-> made.version, fresh |-> made.fresh] OBVIOUS
<1>4. /\ visit[c].pc = "keep" /\ UNCHANGED <<stimuli, content, feed, bumps, debounce, entity, flight, silent>>
      /\ answers' = [answers EXCEPT ![visit[c].tag] = made] /\ held' = [held EXCEPT ![c] = h]
      /\ visit' = [visit EXCEPT ![c] = Away]
  BY <1>2, <1>3 DEF KeepAnswer
<1>5. /\ made \in AnswerDocs /\ made.version = visit[c].version /\ made.fresh = visit[c].fresh
  BY <1>1, <1>2 DEF VisitDocs, AnswerDocs
<1>6. visit[c].tag \in Revisions /\ visit[c].tag <= feed BY <1>1, <1>4 DEF VisitHolds
<1>7. h \in ListDocs /\ h.tag = visit[c].tag /\ h.version = made.version /\ h.fresh = made.fresh
  BY <1>3, <1>5, <1>6 DEF ListDocs, AnswerDocs
<1>8. made.fresh /\ ~silent => Overtaken(visit[c].tag, made.version) BY <1>1, <1>4, <1>5, TagsStand DEF VisitHolds
<1>9. ListHolds(h)' BY <1>4, <1>6, <1>7, <1>8, TagsStand DEF ListHolds
<1>10. answers' \in [Revisions -> AnswerDocs \cup {Absent}] BY <1>4, <1>5 DEF FeedInv, FeedTypes
<1>11. ASSUME NEW r \in Revisions PROVE AnswerHolds(r)'
  <2>1. CASE r = visit[c].tag
    <3>1. answers'[r] = made BY <1>4, <2>1 DEF FeedInv, FeedTypes
    <3> QED BY <1>4, <1>6, <1>8, <2>1, <3>1, TagsStand DEF AnswerHolds
  <2>2. CASE r # visit[c].tag
    <3>1. answers'[r] = answers[r] BY <1>4, <2>2 DEF FeedInv, FeedTypes
    <3> QED BY <1>4, <3>1, ListsStand
  <2> QED BY <2>1, <2>2
<1>12. VisitHolds(Away)' BY ListsStart DEF VisitHolds
<1>13. BumpsCounted' /\ silent' \in BOOLEAN /\ (silent => silent') BY <1>4 DEF FeedInv, FeedTypes, BumpsCounted
<1> QED BY <1>4, <1>7, <1>9, <1>10, <1>11, <1>12, <1>13, ListsStart, ClientGoesOn

LEMMA FeedKeeps ==
    ASSUME FeedInv, FeedNext
    PROVE  FeedInv'
  BY FeedChanges, FeedCrashes, FeedExpires, OpenKeeps, AskRevisionKeeps, AskAnswerKeeps, AskEntityKeeps,
     FlightKeeps, KeepAnswerKeeps, Zenon DEF FeedNext

LEMMA FeedStands ==
    ASSUME FeedInv, UNCHANGED <<stimuli, feedVars>>
    PROVE  FeedInv'
<1>1. UNCHANGED <<stimuli, content, feed, bumps, debounce, entity, answers, flight, visit, held, silent>>
  BY DEF feedVars
<1>2. FeedTypes' /\ BumpsCounted' BY <1>1 DEF FeedInv, FeedTypes, BumpsCounted
<1> QED BY <1>1, <1>2, ListsStand DEF FeedInv

LEMMA ListsAreCurrent ==
    ASSUME FeedInv
    PROVE  FeedIsCurrent
<1>1. ASSUME NEW c \in Clients, held[c].tag = feed, held[c].fresh, bumps = 0, ~debounce, ~silent
      PROVE  held[c].version = content
  <2>1. Overtaken(held[c].tag, held[c].version) BY <1>1 DEF FeedInv, ListHolds
  <2>2. feed \in Nat BY DEF FeedInv, FeedTypes
  <2> QED BY <1>1, <2>1, <2>2 DEF Overtaken
<1> QED BY <1>1 DEF FeedIsCurrent

(* Contexts of a user's feed                                                 *)

StepNames == {"insert", "bump", "activate", "manifest", "save", "drop1", "drop2", "read", "set2", "set1", "none"}
Keys == {"v1", "v2", "intel"}
Dtos == [rows : Nat, payload : Nat, rev : Int, stale : BOOLEAN, crossed : BOOLEAN]
OnTheWay == {"positions", "revision", "late", "flags", "store"}
ReadingPc == OnTheWay \cup {"idle", "done", "manifest", "latest", "ask", "own", "contract"}
ReadingDocs == [pc : ReadingPc, kind : {"none", "context", "intel", "latest"}, own : Int, dto : Dtos]

ContextTypes ==
  /\ step \in StepNames /\ positions \in Nat /\ userRevision \in Nat /\ analytics \in Nat /\ document \in Nat
  /\ manifest \in [rev : Nat, partial : BOOLEAN] /\ faulty \in BOOLEAN /\ swallowed \in BOOLEAN
  /\ contexts \in [Keys -> Dtos] /\ reading \in [Readers -> ReadingDocs]

\* The last publication has gone through, as far as its positions and payload.
Dropped2 == step \in {"read", "set2", "set1"} \/ (step = "none" /\ ~faulty)
Dropped1 == step = "drop2" \/ Dropped2
Whole == step = "drop1" \/ Dropped1

\* What has been published at each call.
Publishes ==
  /\ analytics <= userRevision /\ document <= userRevision /\ manifest.rev <= userRevision
  /\ step = "bump" => positions = userRevision + 1
  /\ step \in {"activate", "manifest", "save"} => positions = userRevision
  /\ step = "save" \/ Whole => manifest.rev = userRevision
  /\ Whole => positions = userRevision /\ document = userRevision
  /\ ~swallowed /\ (step \in {"manifest", "save"} \/ Whole) => analytics \in {0, userRevision}
  /\ ~swallowed => analytics = 0 \/ analytics >= manifest.rev

\* A context is of the published revision once older ones were dropped.
OfNow(d) == d # NoContext /\ ~d.crossed => d.payload = userRevision /\ d.rows = userRevision
ContextsHold ==
  /\ \A key \in Keys : Holds(key) => contexts[key].rev >= contexts[key].payload
  /\ ~swallowed /\ Dropped1 => OfNow(contexts["v1"])
  /\ ~swallowed /\ Dropped2 => OfNow(contexts["v2"])

\* What a request has read so far: of now, unless a publication crossed it, and
\* its revision no older than its payload.
ReaderHolds(k) ==
  /\ k.own <= userRevision
  /\ k.pc \in {"manifest", "latest"} => k.kind = "latest"
  /\ k.pc \in OnTheWay \cup {"ask", "own", "contract"} => k.kind # "latest"
  /\ k.pc \in OnTheWay \cup {"contract"} => k.dto.payload <= userRevision
  /\ k.pc \in {"late", "flags", "store"} => k.dto.rev >= k.dto.payload
  /\ k.pc = "latest" => k.dto.rev <= manifest.rev
  /\ k.pc = "done" => IF k.kind # "latest" THEN k.dto.rev >= k.dto.payload
                      ELSE swallowed \/ k.dto.payload = 0 \/ k.dto.rev <= k.dto.payload
  /\ ~k.dto.crossed /\ ~swallowed /\ Whole =>
       /\ k.pc \in OnTheWay => k.dto.payload = userRevision
       /\ k.pc \in {"revision", "flags", "store"} => k.dto.rows = userRevision

ContextInv == ContextTypes /\ Publishes /\ ContextsHold /\ \A q \in Readers : ReaderHolds(reading[q])

LEMMA StepsAre ==
  /\ \A name : Advance(name) => step = name /\ reading' = Crossed
  /\ Advance("insert") => step' = "bump"
  /\ Advance("bump") => step' = "activate"
  /\ Advance("activate") => step' = "manifest"
  /\ Advance("manifest") => step' = "save"
  /\ Advance("drop1") => step' = "drop2"
  /\ Advance("drop2") => step' = "read"
  /\ Advance("read") => step' = "set2"
  /\ Advance("set2") => step' = "set1"
  /\ Advance("set1") => step' = "none"
<1>1. DOMAIN Steps = 1..11 BY DEF Steps
<1>2. /\ Steps[1] = "insert" /\ Steps[2] = "bump" /\ Steps[3] = "activate" /\ Steps[4] = "manifest"
      /\ Steps[5] = "save" /\ Steps[6] = "drop1" /\ Steps[7] = "drop2" /\ Steps[8] = "read"
      /\ Steps[9] = "set2" /\ Steps[10] = "set1" /\ Steps[11] = "none"
  BY DEF Steps
<1>3. \A i, j \in 1..11 : Steps[i] = Steps[j] => i = j BY <1>2
<1>4. ASSUME NEW i \in 1..10, NEW name, name = Steps[i], Advance(name) PROVE step' = Steps[i + 1]
  <2>1. PICK j : j = CHOOSE k \in DOMAIN Steps : Steps[k] = name OBVIOUS
  <2>2. j \in 1..11 /\ Steps[j] = name BY <1>1, <1>4, <2>1
  <2>3. j = i BY <1>3, <1>4, <2>2
  <2>4. step' = Steps[1 + j] BY <1>4, <2>1 DEF Advance
  <2>5. 1 + j = i + 1 BY <2>3
  <2> QED BY <2>4, <2>5
<1>5. \A name : Advance(name) => step = name /\ reading' = Crossed BY DEF Advance
<1>6. \A i \in 1..10 : Advance(Steps[i]) => step' = Steps[i + 1] BY <1>4
<1>7. /\ Advance("insert") => step' = "bump"
      /\ Advance("bump") => step' = "activate"
      /\ Advance("activate") => step' = "manifest"
      /\ Advance("manifest") => step' = "save"
  <2>1. 1 + 1 = 2 /\ 2 + 1 = 3 /\ 3 + 1 = 4 /\ 4 + 1 = 5 OBVIOUS
  <2> QED BY <1>2, <1>6, <2>1
<1>8. /\ Advance("drop1") => step' = "drop2"
      /\ Advance("drop2") => step' = "read"
      /\ Advance("read") => step' = "set2"
      /\ Advance("set2") => step' = "set1"
      /\ Advance("set1") => step' = "none"
  <2>1. 6 + 1 = 7 /\ 7 + 1 = 8 /\ 8 + 1 = 9 /\ 9 + 1 = 10 /\ 10 + 1 = 11 OBVIOUS
  <2> QED BY <1>2, <1>6, <2>1
<1> QED BY <1>5, <1>7, <1>8

\* A publication's step crosses the requests under way.
LEMMA CrossedIs ==
    ASSUME ContextTypes, reading' = Crossed
    PROVE  /\ reading' \in [Readers -> ReadingDocs]
           /\ \A q \in Readers :
                LET k == reading[q]
                    l == reading'[q]
                IN  /\ l.pc = k.pc /\ l.kind = k.kind /\ l.own = k.own
                    /\ l.dto.rows = k.dto.rows /\ l.dto.payload = k.dto.payload /\ l.dto.rev = k.dto.rev
                    /\ k.pc \notin {"idle", "done"} => l.dto.crossed
<1>1. ASSUME NEW q \in Readers
      PROVE  LET k == reading[q]
                 l == reading'[q]
             IN  /\ l \in ReadingDocs
                 /\ l.pc = k.pc /\ l.kind = k.kind /\ l.own = k.own
                 /\ l.dto.rows = k.dto.rows /\ l.dto.payload = k.dto.payload /\ l.dto.rev = k.dto.rev
                 /\ k.pc \notin {"idle", "done"} => l.dto.crossed
  <2>1. PICK d : d = (reading[q].dto.crossed \/ reading[q].pc \notin {"idle", "done"}) OBVIOUS
  <2>2. d \in BOOLEAN /\ (reading[q].pc \notin {"idle", "done"} => d) BY <2>1
  <2>3. reading[q] \in ReadingDocs BY DEF ContextTypes
  <2>4. reading'[q] = [reading[q] EXCEPT !.dto.crossed = d] BY <2>1 DEF Crossed
  <2>5. PICK o : o = [reading[q].dto EXCEPT !.crossed = d] OBVIOUS
  <2>6. reading'[q] = [reading[q] EXCEPT !.dto = o] BY <2>3, <2>4, <2>5 DEF ReadingDocs
  <2>7. reading[q].dto \in Dtos BY <2>3 DEF ReadingDocs
  <2>8. /\ o \in Dtos /\ o.rows = reading[q].dto.rows /\ o.payload = reading[q].dto.payload
        /\ o.rev = reading[q].dto.rev /\ o.crossed = d
    BY <2>2, <2>5, <2>7 DEF Dtos
  <2>9. /\ reading'[q] \in ReadingDocs /\ reading'[q].pc = reading[q].pc /\ reading'[q].kind = reading[q].kind
        /\ reading'[q].own = reading[q].own /\ reading'[q].dto = o
    BY <2>3, <2>6, <2>8 DEF ReadingDocs
  <2> QED BY <2>2, <2>8, <2>9
<1>2. reading' = [q \in Readers |-> reading'[q]] BY DEF Crossed
<1> QED BY <1>1, <1>2

LEMMA ReadersCrossed ==
    ASSUME ContextInv, reading' = Crossed, userRevision' >= userRevision, userRevision' \in Nat,
           manifest'.rev >= manifest.rev, manifest'.rev \in Nat, swallowed => swallowed'
    PROVE  reading' \in [Readers -> ReadingDocs] /\ \A q \in Readers : ReaderHolds(reading[q])'
<1>1. ASSUME NEW q \in Readers PROVE ReaderHolds(reading[q])'
  <2>1. reading[q] \in ReadingDocs /\ ReaderHolds(reading[q]) BY DEF ContextInv, ContextTypes
  <2>2. /\ reading[q].own \in Int /\ reading[q].dto.payload \in Nat /\ reading[q].dto.rev \in Int
        /\ userRevision \in Nat /\ manifest.rev \in Nat
    BY <2>1 DEF ReadingDocs, Dtos, ContextInv, ContextTypes
  <2>3. LET k == reading[q]
            l == reading'[q]
        IN  /\ l.pc = k.pc /\ l.kind = k.kind /\ l.own = k.own
            /\ l.dto.rows = k.dto.rows /\ l.dto.payload = k.dto.payload /\ l.dto.rev = k.dto.rev
            /\ k.pc \notin {"idle", "done"} => l.dto.crossed
    BY CrossedIs DEF ContextInv
  <2> QED BY <2>1, <2>2, <2>3 DEF ReaderHolds, OnTheWay
<1> QED BY <1>1, CrossedIs DEF ContextInv

LEMMA NoContextIs ==
  /\ Blank \in Dtos /\ NoContext \in Dtos /\ Blank.rows = 0 /\ Blank.payload = 0 /\ Blank.rev = 0
  /\ Blank.crossed = FALSE /\ Blank # NoContext
<1>1. PICK f \in BOOLEAN : f = FALSE OBVIOUS
<1>2. Blank = [rows |-> 0, payload |-> 0, rev |-> 0, stale |-> f, crossed |-> f] BY <1>1, Zenon DEF Blank
<1>3. NoContext = [rows |-> 0, payload |-> 0, rev |-> -1, stale |-> f, crossed |-> f]
  BY <1>2 DEF NoContext
<1> QED BY <1>1, <1>2, <1>3 DEF Dtos

LEMMA BuiltIs ==
    ASSUME ContextTypes
    PROVE  /\ Built \in Dtos /\ Built.rows = positions /\ Built.payload = userRevision
           /\ Built.rev = userRevision
<1>0. PICK f \in BOOLEAN : f = FALSE OBVIOUS
<1>4. Blank = [rows |-> 0, payload |-> 0, rev |-> 0, stale |-> f, crossed |-> f] BY <1>0, Zenon DEF Blank
<1>1. Built = [rows |-> positions, payload |-> userRevision, rev |-> userRevision, stale |-> f, crossed |-> f]
  <2>1. PICK b : b = Blank OBVIOUS
  <2>2. Built = [b EXCEPT !.rows = positions, !.payload = userRevision, !.rev = userRevision] BY <2>1 DEF Built
  <2>3. b = [rows |-> 0, payload |-> 0, rev |-> 0, stale |-> f, crossed |-> f] BY <1>4, <2>1
  <2> QED BY <2>2, <2>3
<1>2. Built.rows = positions /\ Built.payload = userRevision /\ Built.rev = userRevision BY <1>1
<1>3. userRevision \in Int BY DEF ContextTypes
<1>5. Built \in Dtos BY <1>0, <1>1, <1>3 DEF Dtos, ContextTypes
<1> QED BY <1>2, <1>5

\* A step of the publication keeps contexts as they were, if it does not touch
\* them and what is now was now before.
LEMMA ContextsStay ==
    ASSUME ContextInv, UNCHANGED contexts, swallowed => swallowed', userRevision' = userRevision \/ ~Dropped1',
           ~swallowed' /\ Dropped1' => Dropped1, ~swallowed' /\ Dropped2' => Dropped2
    PROVE  ContextsHold'
<1>1. \A key \in Keys : Holds(key)' <=> Holds(key) BY DEF Holds
<1>2. Dropped2' => Dropped1' BY DEF Dropped1
<1>3. \A d : userRevision' = userRevision => (OfNow(d)' <=> OfNow(d)) BY DEF OfNow
<1> QED BY <1>1, <1>2, <1>3 DEF ContextInv, ContextsHold, OfNow

LEMMA PublicationMoves ==
    ASSUME ContextInv, \/ ReplacePositions \/ InsertPositions \/ BumpRevision \/ Activate
                       \/ PublishManifest \/ SaveDocument \/ Break
    PROVE  ContextInv'
<1>1. /\ step \in StepNames /\ positions \in Nat /\ userRevision \in Nat /\ analytics \in Nat /\ document \in Nat
      /\ manifest.rev \in Nat /\ faulty \in BOOLEAN /\ swallowed \in BOOLEAN /\ Publishes
  BY DEF ContextInv, ContextTypes
<1>2. UNCHANGED contexts /\ reading' = Crossed /\ (swallowed => swallowed')
  BY StepsAre DEF ReplacePositions, InsertPositions, BumpRevision, Activate, PublishManifest, SaveDocument, Break
<1>3. /\ step' \in StepNames /\ positions' \in Nat /\ userRevision' \in Nat /\ analytics' \in Nat
      /\ document' \in Nat /\ manifest' \in [rev : Nat, partial : BOOLEAN]
      /\ faulty' \in BOOLEAN /\ swallowed' \in BOOLEAN
      /\ userRevision' >= userRevision /\ manifest'.rev >= manifest.rev
      /\ ~Dropped1' /\ Publishes'
  <2> USE <1>1 DEF StepNames, Publishes, Whole, Dropped1, Dropped2
  <2>0. manifest \in [rev : Nat, partial : BOOLEAN] BY DEF ContextInv, ContextTypes
  <2>1. CASE ReplacePositions
    <3>1. /\ step' = "insert" /\ positions' = 0 /\ faulty' = FALSE
          /\ UNCHANGED <<userRevision, analytics, manifest, document, swallowed>>
      BY <2>1 DEF ReplacePositions
    <3>2. faulty' \in BOOLEAN /\ swallowed' \in BOOLEAN BY <3>1, Zenon
    <3>3. ~Dropped1' /\ ~Whole' BY <3>1
    <3>4. Publishes' BY <2>0, <3>1, <3>3 DEF Publishes
    <3>5. /\ step' \in StepNames /\ positions' \in Nat /\ userRevision' \in Nat /\ analytics' \in Nat
          /\ document' \in Nat /\ manifest' \in [rev : Nat, partial : BOOLEAN]
          /\ userRevision' >= userRevision /\ manifest'.rev >= manifest.rev
      BY <2>0, <3>1
    <3> QED BY <3>2, <3>3, <3>4, <3>5, Zenon
  <2>2. CASE InsertPositions BY <2>0, <2>2, StepsAre DEF InsertPositions
  <2>3. CASE BumpRevision BY <2>0, <2>3, StepsAre DEF BumpRevision
  <2>4. CASE Activate
    <3>1. /\ step = "activate" /\ step' = "manifest"
          /\ \/ analytics' = userRevision /\ swallowed' = swallowed
             \/ swallowed' = TRUE /\ UNCHANGED analytics
          /\ UNCHANGED <<positions, userRevision, manifest, document, faulty>>
      BY <2>4, StepsAre DEF Activate
    <3>2. faulty' \in BOOLEAN /\ swallowed' \in BOOLEAN BY <3>1, Zenon
    <3>3. ~Dropped1' /\ ~Whole' BY <3>1
    <3>4. Publishes' BY <2>0, <3>1, <3>3 DEF Publishes
    <3>5. /\ step' \in StepNames /\ positions' \in Nat /\ userRevision' \in Nat /\ analytics' \in Nat
          /\ document' \in Nat /\ manifest' \in [rev : Nat, partial : BOOLEAN]
          /\ userRevision' >= userRevision /\ manifest'.rev >= manifest.rev
      BY <2>0, <3>1
    <3> QED BY <3>2, <3>3, <3>4, <3>5, Zenon
  <2>5. CASE PublishManifest
    <3>1. PICK partial \in BOOLEAN : manifest' = [rev |-> userRevision, partial |-> partial] BY <2>5 DEF PublishManifest
    <3>2. manifest' \in [rev : Nat, partial : BOOLEAN] /\ manifest'.rev = userRevision BY <3>1
    <3>3. /\ step = "manifest" /\ step' = "save"
          /\ UNCHANGED <<positions, userRevision, analytics, document, faulty, swallowed>>
      BY <2>5, StepsAre DEF PublishManifest
    <3> QED BY <3>2, <3>3
  <2>6. CASE SaveDocument
    <3>1. PICK d \in BOOLEAN : d = manifest.partial BY <2>0
    <3>2. /\ step = "save" /\ document' = userRevision /\ faulty' = d
          /\ ((step' = "none" /\ d) \/ (step' = "drop1" /\ ~d))
          /\ UNCHANGED <<positions, userRevision, analytics, manifest, swallowed>>
      BY <2>6, <3>1, Zenon DEF SaveDocument
    <3> QED BY <2>0, <3>2
  <2>7. CASE Break BY <2>0, <2>7 DEF Break
  <2> QED BY <2>1, <2>2, <2>3, <2>4, <2>5, <2>6, <2>7
<1> QED BY <1>2, <1>3, ContextsStay, ReadersCrossed DEF ContextInv, ContextTypes, Dropped1

LEMMA RefreshKeeps ==
    ASSUME ContextInv, RefreshContexts
    PROVE  ContextInv'
<1>1. /\ UNCHANGED <<positions, userRevision, analytics, manifest, document, faulty, swallowed>>
      /\ reading' = Crossed
  BY StepsAre DEF RefreshContexts
<1>2. /\ step' \in {"drop2", "read", "set2", "set1", "none"}
      /\ step \in {"drop1", "drop2", "read", "set2", "set1"}
      /\ contexts' \in [Keys -> Dtos]
      /\ \A key \in Keys : contexts'[key] \in {contexts[key], NoContext, Built}
      /\ step = "drop1" => step' = "drop2" /\ contexts'["v1"] = NoContext
      /\ step = "drop2" => step' = "read" /\ contexts'["v2"] = NoContext
  <2> USE StepsAre, NoContextIs, BuiltIs DEF ContextInv, ContextTypes, StepNames, Keys
  <2>1. CASE Advance("drop1") /\ contexts' = [contexts EXCEPT !["v1"] = NoContext] BY <2>1
  <2>2. CASE Advance("drop2") /\ contexts' = [contexts EXCEPT !["v2"] = NoContext] BY <2>2
  <2>3. CASE Advance("read") /\ UNCHANGED contexts BY <2>3
  <2>4. ASSUME NEW key \in {"v1", "v2"}, Advance(IF key = "v2" THEN "set2" ELSE "set1"),
               contexts' \in {contexts, [contexts EXCEPT ![key] = Built]}
        PROVE  /\ step' \in {"set1", "none"} /\ step \in {"set2", "set1"}
               /\ contexts' \in [Keys -> Dtos]
               /\ \A k \in Keys : contexts'[k] \in {contexts[k], NoContext, Built}
    BY <2>4
  <2> QED BY <2>1, <2>2, <2>3, <2>4 DEF RefreshContexts
<1>3. Publishes /\ (Whole => positions = userRevision) /\ userRevision \in Nat /\ Whole
  BY <1>2 DEF ContextInv, ContextTypes, Publishes, Whole, Dropped1, Dropped2
<1>4. Publishes' BY <1>1, <1>2, <1>3 DEF Publishes
<1>5. OfNow(NoContext)' /\ (\A d : OfNow(d) => OfNow(d)') /\ \A d : d = Built => OfNow(d)'
  <2>1. Built.rows = positions /\ Built.payload = userRevision BY BuiltIs DEF ContextInv
  <2> QED BY <1>1, <1>3, <2>1 DEF OfNow
<1>6. \A key \in Keys : Holds(key)' => contexts'[key].rev >= contexts'[key].payload
  BY <1>2, <1>3, BuiltIs DEF ContextInv, ContextsHold, Holds
<1>7. ~swallowed => OfNow(contexts["v1"])' /\ (Dropped2' => OfNow(contexts["v2"])')
  <2>1. "v1" \in Keys /\ "v2" \in Keys BY DEF Keys
  <2>2. ~swallowed => (step = "drop1" \/ OfNow(contexts["v1"]))
    BY <1>2 DEF ContextInv, ContextsHold, Dropped1, Dropped2
  <2>3. ~swallowed => (step \in {"drop1", "drop2"} \/ OfNow(contexts["v2"]))
    BY <1>2 DEF ContextInv, ContextsHold, Dropped2
  <2>4. step = "drop1" => ~Dropped2' BY <1>2 DEF Dropped2
  <2> QED BY <1>2, <1>5, <2>1, <2>2, <2>3, <2>4
<1>8. ContextsHold' BY <1>1, <1>6, <1>7 DEF ContextsHold
<1>9. userRevision' >= userRevision /\ userRevision' \in Nat /\ manifest'.rev >= manifest.rev /\ manifest'.rev \in Nat
  BY <1>1 DEF ContextInv, ContextTypes
<1>10. reading' \in [Readers -> ReadingDocs] /\ \A q \in Readers : ReaderHolds(reading[q])'
  BY <1>1, <1>9, ReadersCrossed
<1>11. ContextTypes' BY <1>1, <1>2, <1>10 DEF ContextInv, ContextTypes, StepNames
<1> QED BY <1>4, <1>8, <1>10, <1>11 DEF ContextInv

LEMMA Expires ==
    ASSUME ContextInv, ExpireAnalytics \/ \E key \in DOMAIN contexts : ExpireContext(key)
    PROVE  ContextInv'
<1>1. /\ UNCHANGED <<step, positions, userRevision, manifest, document, faulty, swallowed, reading>>
      /\ analytics' \in {analytics, 0} /\ contexts' \in [Keys -> Dtos]
      /\ \A key \in Keys : contexts'[key] \in {contexts[key], NoContext}
  BY NoContextIs DEF ExpireAnalytics, ExpireContext, publicationVars, ContextInv, ContextTypes
<1>2. ContextTypes' BY <1>1 DEF ContextInv, ContextTypes
<1>3. Publishes' BY <1>1 DEF ContextInv, ContextTypes, Publishes, Whole, Dropped1, Dropped2
<1>4. ContextsHold'
  <2>1. Dropped1' = Dropped1 /\ Dropped2' = Dropped2 BY <1>1 DEF Dropped1, Dropped2
  <2>2. "v1" \in Keys /\ "v2" \in Keys BY DEF Keys
  <2>3. OfNow(NoContext)' /\ \A d : OfNow(d) => OfNow(d)' BY <1>1 DEF OfNow
  <2> QED BY <1>1, <2>1, <2>2, <2>3 DEF ContextInv, ContextsHold, Holds
<1>5. \A q \in Readers : ReaderHolds(reading[q])'
  <2>1. Whole' = Whole BY <1>1 DEF Whole, Dropped1, Dropped2
  <2> QED BY <1>1, <2>1 DEF ContextInv, ReaderHolds
<1> QED BY <1>2, <1>3, <1>4, <1>5 DEF ContextInv

LEMMA DtoRows ==
    ASSUME NEW d \in Dtos, NEW n \in Nat, NEW e, e = [d EXCEPT !.rows = n]
    PROVE  e \in Dtos /\ e.rows = n /\ e.payload = d.payload /\ e.rev = d.rev /\ e.crossed = d.crossed
  BY DEF Dtos

LEMMA DtoPayload ==
    ASSUME NEW d \in Dtos, NEW n \in Nat, NEW e, e = [d EXCEPT !.payload = n]
    PROVE  e \in Dtos /\ e.rows = d.rows /\ e.payload = n /\ e.rev = d.rev /\ e.crossed = d.crossed
  BY DEF Dtos

LEMMA DtoRev ==
    ASSUME NEW d \in Dtos, NEW n \in Int, NEW e, e = [d EXCEPT !.rev = n]
    PROVE  e \in Dtos /\ e.rows = d.rows /\ e.payload = d.payload /\ e.rev = n /\ e.crossed = d.crossed
  BY DEF Dtos

LEMMA DtoStale ==
    ASSUME NEW d \in Dtos, NEW n \in BOOLEAN, NEW e, e = [d EXCEPT !.stale = n]
    PROVE  e \in Dtos /\ e.rows = d.rows /\ e.payload = d.payload /\ e.rev = d.rev /\ e.crossed = d.crossed
  BY DEF Dtos

LEMMA GoesIs ==
    ASSUME ContextTypes, NEW q \in Readers, NEW pc \in ReadingPc, NEW d \in Dtos, Goes(q, pc, d)
    PROVE  \E k \in ReadingDocs : /\ reading' = [reading EXCEPT ![q] = k]
                                  /\ k.pc = pc /\ k.dto = d
                                  /\ k.kind = reading[q].kind /\ k.own = reading[q].own
<1>1. PICK k : k = [reading[q] EXCEPT !.pc = pc, !.dto = d] OBVIOUS
<1>2. reading[q] \in ReadingDocs /\ reading \in [Readers -> ReadingDocs] BY DEF ContextTypes
<1>3. /\ k \in ReadingDocs /\ k.pc = pc /\ k.dto = d
      /\ k.kind = reading[q].kind /\ k.own = reading[q].own
  BY <1>1, <1>2 DEF ReadingDocs
<1>4. reading' = [reading EXCEPT ![q] = k] BY <1>1, <1>2 DEF Goes
<1> QED BY <1>3, <1>4

\* A request goes on to k and the published state stands still.
LEMMA ReaderGoes ==
    ASSUME ContextInv, UNCHANGED publicationVars, NEW q \in Readers, NEW k \in ReadingDocs,
           reading' = [reading EXCEPT ![q] = k], ReaderHolds(k),
           contexts' \in [Keys -> Dtos], ContextsHold'
    PROVE  ContextInv'
<1>1. UNCHANGED <<step, positions, userRevision, analytics, manifest, document, faulty, swallowed>>
  BY DEF publicationVars
<1>2. /\ reading' \in [Readers -> ReadingDocs]
      /\ \A p \in Readers : reading'[p] = IF p = q THEN k ELSE reading[p]
  BY DEF ContextInv, ContextTypes
<1>3. ContextTypes' BY <1>1, <1>2 DEF ContextInv, ContextTypes
<1>4. Publishes' BY <1>1 DEF ContextInv, Publishes, Whole, Dropped1, Dropped2
<1>5. ASSUME NEW p \in Readers PROVE ReaderHolds(reading[p])'
  <2>1. Whole' = Whole BY <1>1 DEF Whole, Dropped1, Dropped2
  <2>2. ReaderHolds(reading'[p]) BY <1>2 DEF ContextInv
  <2> QED BY <1>1, <2>1, <2>2 DEF ReaderHolds
<1> QED BY <1>3, <1>4, <1>5 DEF ContextInv

LEMMA ContextsSame ==
    ASSUME ContextInv, UNCHANGED <<publicationVars, contexts>>
    PROVE  contexts' \in [Keys -> Dtos] /\ ContextsHold'
<1>1. UNCHANGED <<step, userRevision, faulty, swallowed>> BY DEF publicationVars
<1> QED BY <1>1 DEF ContextInv, ContextTypes, ContextsHold, Holds, OfNow, Dropped1, Dropped2

LEMMA ContextSet ==
    ASSUME ContextInv, UNCHANGED publicationVars, NEW key \in Keys \ {"v2"}, NEW d \in Dtos,
           contexts' = [contexts EXCEPT ![key] = d], d.rev >= d.payload,
           key = "v1" /\ ~swallowed /\ Dropped1 => OfNow(d)
    PROVE  contexts' \in [Keys -> Dtos] /\ ContextsHold'
<1>1. UNCHANGED <<step, userRevision, faulty, swallowed>> BY DEF publicationVars
<1>2. /\ contexts' \in [Keys -> Dtos]
      /\ \A k \in Keys : contexts'[k] = IF k = key THEN d ELSE contexts[k]
  BY DEF ContextInv, ContextTypes
<1>3. "v1" \in Keys /\ "v2" \in Keys BY DEF Keys
<1>4. Dropped1' = Dropped1 /\ Dropped2' = Dropped2 BY <1>1 DEF Dropped1, Dropped2
<1>5. \A k \in Keys : Holds(k)' => contexts'[k].rev >= contexts'[k].payload
  BY <1>2 DEF ContextInv, ContextsHold, Holds
<1>6. (~swallowed /\ Dropped1 => OfNow(contexts'["v1"])) /\ (~swallowed /\ Dropped2 => OfNow(contexts'["v2"]))
  BY <1>2, <1>3 DEF ContextInv, ContextsHold
<1>7. \A e : OfNow(e)' <=> OfNow(e) BY <1>1 DEF OfNow
<1> QED BY <1>1, <1>2, <1>4, <1>5, <1>6, <1>7 DEF ContextsHold

LEMMA CurrentPayloadIs ==
    ASSUME ContextInv
    PROVE  /\ CurrentPayload \in Nat /\ CurrentPayload <= userRevision /\ userRevision \in Nat
           /\ ~swallowed /\ Whole => CurrentPayload = userRevision
  BY DEF ContextInv, ContextTypes, Publishes, CurrentPayload

LEMMA AskForKeeps ==
    ASSUME ContextInv, NEW q \in Readers, NEW kind \in {"context", "intel", "latest"}, AskFor(q, kind)
    PROVE  ContextInv'
<1>1. PICK own \in {-1, CurrentPayload} :
        reading' = [reading EXCEPT ![q] =
          [pc |-> IF kind = "latest" THEN "manifest"
                  ELSE IF kind = "intel" /\ Holds("intel") THEN "done" ELSE "ask",
           kind |-> kind, own |-> own,
           dto |-> IF kind = "intel" /\ Holds("intel") THEN contexts["intel"] ELSE Blank]]
  BY DEF AskFor
<1>2. PICK pc : pc = IF kind = "latest" THEN "manifest"
                     ELSE IF kind = "intel" /\ Holds("intel") THEN "done" ELSE "ask" OBVIOUS
<1>3. PICK d : d = IF kind = "intel" /\ Holds("intel") THEN contexts["intel"] ELSE Blank OBVIOUS
<1>4. PICK k : k = [pc |-> pc, kind |-> kind, own |-> own, dto |-> d] OBVIOUS
<1>5. reading' = [reading EXCEPT ![q] = k] BY <1>1, <1>2, <1>3, <1>4
<1>6. "intel" \in Keys BY DEF Keys
<1>7. d \in Dtos /\ (pc = "done" => d.rev >= d.payload)
  BY <1>2, <1>3, <1>6, NoContextIs DEF ContextInv, ContextTypes, ContextsHold
<1>8. own \in Int /\ own <= userRevision BY <1>1, CurrentPayloadIs
<1>9. k \in ReadingDocs /\ k.pc = pc /\ k.kind = kind /\ k.own = own /\ k.dto = d
  BY <1>2, <1>4, <1>7, <1>8 DEF ReadingDocs, ReadingPc
<1>10. ReaderHolds(k) BY <1>2, <1>7, <1>8, <1>9 DEF ReaderHolds, OnTheWay
<1>11. UNCHANGED publicationVars /\ UNCHANGED contexts BY DEF AskFor
<1> QED BY <1>5, <1>9, <1>10, <1>11, ContextsSame, ReaderGoes

\* What is known of a request, and what its next call leaves it with.
LEMMA ReaderIs ==
    ASSUME ContextInv, NEW q \in Readers
    PROVE  /\ reading[q] \in ReadingDocs /\ ReaderHolds(reading[q]) /\ reading[q].dto \in Dtos
           /\ reading[q].own \in Int /\ reading[q].dto.payload \in Nat /\ reading[q].dto.rev \in Int
           /\ reading[q].dto.rows \in Nat
           /\ userRevision \in Nat /\ positions \in Nat /\ analytics \in Nat /\ document \in Nat
           /\ manifest \in [rev : Nat, partial : BOOLEAN] /\ ContextTypes /\ Publishes
<1>1. reading[q] \in ReadingDocs /\ ReaderHolds(reading[q]) /\ ContextTypes /\ Publishes
  BY DEF ContextInv, ContextTypes
<1>2. reading[q].dto \in Dtos /\ reading[q].own \in Int BY <1>1 DEF ReadingDocs
<1>3. reading[q].dto.payload \in Nat /\ reading[q].dto.rev \in Int /\ reading[q].dto.rows \in Nat BY <1>2 DEF Dtos
<1> QED BY <1>1, <1>2, <1>3 DEF ContextTypes

\* A request goes on with d, and no context changes.
Continues(k, q, pc, d) ==
  k.pc = pc /\ k.dto = d /\ k.kind = reading[q].kind /\ k.own = reading[q].own

LEMMA ReaderGoesOn ==
    ASSUME ContextInv, UNCHANGED <<publicationVars, contexts>>, NEW q \in Readers,
           NEW pc \in ReadingPc, NEW d \in Dtos, Goes(q, pc, d),
           \A k \in ReadingDocs : Continues(k, q, pc, d) => ReaderHolds(k)
    PROVE  ContextInv'
<1>1. PICK k \in ReadingDocs : /\ reading' = [reading EXCEPT ![q] = k]
                               /\ k.pc = pc /\ k.dto = d
                               /\ k.kind = reading[q].kind /\ k.own = reading[q].own
  BY GoesIs DEF ContextInv
<1> QED BY <1>1, ContextsSame, ReaderGoes DEF Continues

LEMMA AskContextKeeps ==
    ASSUME ContextInv, NEW q \in Readers, AskContext(q)
    PROVE  ContextInv'
<1>1. reading[q].pc = "ask" /\ UNCHANGED <<publicationVars, contexts>> BY DEF AskContext
<1>2. reading[q].kind # "latest" /\ reading[q].own <= userRevision
  BY <1>1, ReaderIs DEF ReaderHolds
<1>3. ASSUME NEW d \in Dtos, d.rev >= d.payload, Got(q, d) PROVE ContextInv'
  <2>1. PICK pc : pc = IF reading[q].kind = "intel" THEN "own" ELSE "done" OBVIOUS
  <2>2. pc \in ReadingPc /\ Goes(q, pc, d) BY <1>3, <2>1 DEF Got, ReadingPc
  <2>3. \A k \in ReadingDocs : Continues(k, q, pc, d) => ReaderHolds(k)
    BY <1>2, <1>3, <2>1 DEF ReaderHolds, OnTheWay, Continues
  <2> QED BY <1>1, <2>2, <2>3, ReaderGoesOn
<1>4. CASE Got(q, Blank) BY <1>3, <1>4, NoContextIs
<1>5. ASSUME NEW key \in {"v1", "v2"}, Holds(key), Got(q, contexts[key]) PROVE ContextInv'
  <2>1. contexts[key] \in Dtos /\ contexts[key].rev >= contexts[key].payload
    BY <1>5 DEF ContextInv, ContextTypes, ContextsHold, Keys
  <2> QED BY <1>3, <1>5, <2>1
<1>6. CASE Goes(q, "positions", [reading[q].dto EXCEPT !.payload = CurrentPayload])
  <2>1. PICK d : d = [reading[q].dto EXCEPT !.payload = CurrentPayload] OBVIOUS
  <2>2. d \in Dtos /\ d.payload = CurrentPayload BY <2>1, DtoPayload, ReaderIs, CurrentPayloadIs
  <2>3. \A k \in ReadingDocs : Continues(k, q, "positions", d) => ReaderHolds(k)
    BY <1>2, <2>2, CurrentPayloadIs DEF ReaderHolds, OnTheWay, Continues
  <2> QED BY <1>1, <1>6, <2>1, <2>2, <2>3, ReaderGoesOn DEF ReadingPc, OnTheWay
<1> QED BY <1>4, <1>5, <1>6 DEF AskContext

LEMMA ReadPositionsKeeps ==
    ASSUME ContextInv, NEW q \in Readers, ReadPositions(q)
    PROVE  ContextInv'
<1>1. UNCHANGED <<publicationVars, contexts>> BY DEF ReadPositions
<1>2. reading[q].pc \in {"positions", "revision", "late"} BY DEF ReadPositions
<1>3. /\ reading[q].kind # "latest" /\ reading[q].own <= userRevision /\ reading[q].dto.payload <= userRevision
      /\ reading[q].pc = "late" => reading[q].dto.rev >= reading[q].dto.payload
      /\ ~reading[q].dto.crossed /\ ~swallowed /\ Whole =>
           /\ reading[q].dto.payload = userRevision
           /\ reading[q].pc = "revision" => reading[q].dto.rows = userRevision
  BY <1>2, ReaderIs DEF ReaderHolds, OnTheWay, Continues
<1>4. Whole => positions = userRevision BY ReaderIs DEF Publishes
<1>5. ASSUME NEW pc \in {"revision", "flags"}, Goes(q, pc, [reading[q].dto EXCEPT !.rows = positions]),
             pc = "flags" => reading[q].pc = "late"
      PROVE  ContextInv'
  <2>1. PICK d : d = [reading[q].dto EXCEPT !.rows = positions] OBVIOUS
  <2>2. /\ d \in Dtos /\ d.rows = positions /\ d.payload = reading[q].dto.payload
        /\ d.rev = reading[q].dto.rev /\ d.crossed = reading[q].dto.crossed
    BY <2>1, DtoRows, ReaderIs
  <2>3. \A k \in ReadingDocs : Continues(k, q, pc, d) => ReaderHolds(k)
    BY <1>3, <1>4, <1>5, <2>2 DEF ReaderHolds, OnTheWay, Continues
  <2> QED BY <1>1, <1>5, <2>1, <2>2, <2>3, ReaderGoesOn DEF ReadingPc, OnTheWay
<1>6. ASSUME NEW pc \in {"late", "flags"}, Goes(q, pc, [reading[q].dto EXCEPT !.rev = userRevision]),
             pc = "flags" => reading[q].pc = "revision"
      PROVE  ContextInv'
  <2>1. PICK d : d = [reading[q].dto EXCEPT !.rev = userRevision] OBVIOUS
  <2>2. /\ d \in Dtos /\ d.rows = reading[q].dto.rows /\ d.payload = reading[q].dto.payload
        /\ d.rev = userRevision /\ d.crossed = reading[q].dto.crossed
    BY <2>1, DtoRev, ReaderIs
  <2>3. \A k \in ReadingDocs : Continues(k, q, pc, d) => ReaderHolds(k)
    BY <1>3, <1>6, <2>2, ReaderIs DEF ReaderHolds, OnTheWay, Continues
  <2> QED BY <1>1, <1>6, <2>1, <2>2, <2>3, ReaderGoesOn DEF ReadingPc, OnTheWay
<1> QED BY <1>5, <1>6 DEF ReadPositions

LEMMA ReadFlagsKeeps ==
    ASSUME ContextInv, NEW q \in Readers, ReadFlags(q)
    PROVE  ContextInv'
<1>1. PICK s \in BOOLEAN : s = manifest.partial BY ReaderIs
<1>2. PICK d : d = [reading[q].dto EXCEPT !.stale = s] OBVIOUS
<1>3. reading[q].pc = "flags" /\ Goes(q, "store", d) /\ UNCHANGED <<publicationVars, contexts>>
  BY <1>1, <1>2 DEF ReadFlags
<1>4. /\ d \in Dtos /\ d.rows = reading[q].dto.rows /\ d.payload = reading[q].dto.payload
      /\ d.rev = reading[q].dto.rev /\ d.crossed = reading[q].dto.crossed
  BY <1>2, DtoStale, ReaderIs
<1>5. \A k \in ReadingDocs : Continues(k, q, "store", d) => ReaderHolds(k)
  BY <1>3, <1>4, ReaderIs DEF ReaderHolds, OnTheWay, Continues
<1> QED BY <1>3, <1>4, <1>5, ReaderGoesOn DEF ReadingPc, OnTheWay

LEMMA StoreContextKeeps ==
    ASSUME ContextInv, NEW q \in Readers, StoreContext(q)
    PROVE  ContextInv'
<1>1. PICK d : d = reading[q].dto OBVIOUS
<1>2. PICK pc : pc = IF reading[q].kind = "intel" THEN "own" ELSE "done" OBVIOUS
<1>3. /\ reading[q].pc = "store" /\ Goes(q, pc, d) /\ contexts' = [contexts EXCEPT !["v1"] = d]
      /\ UNCHANGED publicationVars
  BY <1>1, <1>2 DEF StoreContext, Got
<1>4. /\ d \in Dtos /\ d.rev >= d.payload /\ reading[q].kind # "latest" /\ reading[q].own <= userRevision
      /\ ~d.crossed /\ ~swallowed /\ Whole => d.payload = userRevision /\ d.rows = userRevision
  BY <1>1, <1>3, ReaderIs DEF ReaderHolds, OnTheWay, Continues
<1>5. ~swallowed /\ Dropped1 => OfNow(d) BY <1>4 DEF OfNow, Whole
<1>6. contexts' \in [Keys -> Dtos] /\ ContextsHold' BY <1>3, <1>4, <1>5, ContextSet DEF Keys
<1>7. pc \in ReadingPc BY <1>2 DEF ReadingPc
<1>8. PICK k \in ReadingDocs : /\ reading' = [reading EXCEPT ![q] = k]
                               /\ k.pc = pc /\ k.dto = d
                               /\ k.kind = reading[q].kind /\ k.own = reading[q].own
  BY <1>3, <1>4, <1>7, GoesIs DEF ContextInv
<1>9. ReaderHolds(k) BY <1>2, <1>4, <1>8 DEF ReaderHolds, OnTheWay, Continues
<1> QED BY <1>3, <1>6, <1>8, <1>9, ReaderGoes

LEMMA ReadOwnKeeps ==
    ASSUME ContextInv, NEW q \in Readers, ReadOwn(q)
    PROVE  ContextInv'
<1>1. PICK n : n = IF reading[q].own >= 0 THEN reading[q].own ELSE CurrentPayload OBVIOUS
<1>2. PICK d : d = [reading[q].dto EXCEPT !.payload = n] OBVIOUS
<1>3. reading[q].pc = "own" /\ Goes(q, "contract", d) /\ UNCHANGED <<publicationVars, contexts>>
  BY <1>1, <1>2 DEF ReadOwn
<1>4. reading[q].kind # "latest" /\ reading[q].own <= userRevision BY <1>3, ReaderIs DEF ReaderHolds
<1>5. n \in Nat /\ n <= userRevision BY <1>1, <1>4, ReaderIs, CurrentPayloadIs
<1>6. d \in Dtos /\ d.payload = n BY <1>2, <1>5, DtoPayload, ReaderIs
<1>7. \A k \in ReadingDocs : Continues(k, q, "contract", d) => ReaderHolds(k)
  BY <1>4, <1>5, <1>6 DEF ReaderHolds, OnTheWay, Continues
<1> QED BY <1>3, <1>6, <1>7, ReaderGoesOn DEF ReadingPc

LEMMA StoreIntelKeeps ==
    ASSUME ContextInv, NEW q \in Readers, StoreIntel(q)
    PROVE  ContextInv'
<1>1. PICK d : d = [reading[q].dto EXCEPT !.rev = userRevision] OBVIOUS
<1>2. /\ reading[q].pc = "contract" /\ Goes(q, "done", d) /\ UNCHANGED publicationVars
      /\ contexts' = IF d.payload = 0 THEN contexts ELSE [contexts EXCEPT !["intel"] = d]
  BY <1>1 DEF StoreIntel
<1>3. /\ reading[q].kind # "latest" /\ reading[q].own <= userRevision /\ reading[q].dto.payload <= userRevision
  BY <1>2, ReaderIs DEF ReaderHolds, OnTheWay, Continues
<1>4. d \in Dtos /\ d.rev >= d.payload
  <2>1. d \in Dtos /\ d.rev = userRevision /\ d.payload = reading[q].dto.payload BY <1>1, DtoRev, ReaderIs
  <2> QED BY <1>3, <2>1, ReaderIs
<1>5. contexts' \in [Keys -> Dtos] /\ ContextsHold'
  <2>1. "intel" \in Keys \ {"v2"} /\ "intel" # "v1" BY DEF Keys
  <2> QED BY <1>2, <1>4, <2>1, ContextsSame, ContextSet
<1>6. PICK k \in ReadingDocs : /\ reading' = [reading EXCEPT ![q] = k]
                               /\ k.pc = "done" /\ k.dto = d
                               /\ k.kind = reading[q].kind /\ k.own = reading[q].own
  BY <1>2, <1>4, GoesIs DEF ContextInv, ReadingPc
<1>7. ReaderHolds(k) BY <1>3, <1>4, <1>6 DEF ReaderHolds, OnTheWay, Continues
<1> QED BY <1>2, <1>5, <1>6, <1>7, ReaderGoes

LEMMA ReadManifestKeeps ==
    ASSUME ContextInv, NEW q \in Readers, ReadManifest(q)
    PROVE  ContextInv'
<1>1. PICK d : d = [reading[q].dto EXCEPT !.rev = manifest.rev] OBVIOUS
<1>2. reading[q].pc = "manifest" /\ Goes(q, "latest", d) /\ UNCHANGED <<publicationVars, contexts>>
  BY <1>1 DEF ReadManifest
<1>3. reading[q].kind = "latest" /\ reading[q].own <= userRevision BY <1>2, ReaderIs DEF ReaderHolds
<1>4. manifest.rev \in Nat BY ReaderIs
<1>5. d \in Dtos /\ d.rev = manifest.rev BY <1>1, <1>4, DtoRev, ReaderIs
<1>6. \A k \in ReadingDocs : Continues(k, q, "latest", d) => ReaderHolds(k)
  BY <1>3, <1>4, <1>5 DEF ReaderHolds, OnTheWay, Continues
<1> QED BY <1>2, <1>5, <1>6, ReaderGoesOn DEF ReadingPc

LEMMA ReadLatestKeeps ==
    ASSUME ContextInv, NEW q \in Readers, ReadLatest(q)
    PROVE  ContextInv'
<1>1. reading[q].pc = "latest" /\ UNCHANGED <<publicationVars, contexts>> BY DEF ReadLatest
<1>2. reading[q].kind = "latest" /\ reading[q].own <= userRevision /\ reading[q].dto.rev <= manifest.rev
  BY <1>1, ReaderIs DEF ReaderHolds
<1>3. ASSUME NEW d \in Dtos, Goes(q, "done", d), swallowed \/ d.payload = 0 \/ d.rev <= d.payload
      PROVE  ContextInv'
  <2>1. \A k \in ReadingDocs : Continues(k, q, "done", d) => ReaderHolds(k)
    BY <1>2, <1>3 DEF ReaderHolds, OnTheWay, Continues
  <2> QED BY <1>1, <1>3, <2>1, ReaderGoesOn DEF ReadingPc
<1>4. CASE analytics > 0 \/ reading[q].dto.rev > 0
  <2>1. PICK d : d = [reading[q].dto EXCEPT !.payload = analytics] OBVIOUS
  <2>2. Goes(q, "done", d) BY <1>4, <2>1 DEF ReadLatest
  <2>3. d \in Dtos /\ d.payload = analytics /\ d.rev = reading[q].dto.rev BY <2>1, DtoPayload, ReaderIs
  <2>4. swallowed \/ analytics = 0 \/ reading[q].dto.rev <= analytics
    <3>1. swallowed \/ analytics = 0 \/ analytics >= manifest.rev BY ReaderIs DEF Publishes
    <3>2. manifest.rev \in Nat BY ReaderIs
    <3> QED BY <1>2, <3>1, <3>2, ReaderIs
  <2> QED BY <1>3, <2>2, <2>3, <2>4
<1>5. CASE ~(analytics > 0 \/ reading[q].dto.rev > 0)
  <2>1. PICK e : e = [reading[q].dto EXCEPT !.payload = document] OBVIOUS
  <2>2. PICK d : d = [e EXCEPT !.rev = document] OBVIOUS
  <2>3. e \in Dtos /\ e.payload = document BY <2>1, DtoPayload, ReaderIs
  <2>4. d \in Dtos /\ d.payload = document /\ d.rev = document
    <3>1. document \in Int BY ReaderIs
    <3> QED BY <2>2, <2>3, <3>1, DtoRev
  <2>5. d = [reading[q].dto EXCEPT !.payload = document, !.rev = document] BY <2>1, <2>2
  <2>6. Goes(q, "done", d) BY <1>5, <2>5 DEF ReadLatest
  <2> QED BY <1>3, <2>4, <2>6, ReaderIs
<1> QED BY <1>4, <1>5

LEMMA ContextStart == ContextInit => ContextInv
<1> SUFFICES ASSUME ContextInit PROVE ContextInv OBVIOUS
<1>1. PICK f \in BOOLEAN : f = FALSE OBVIOUS
<1>2. /\ step = "none" /\ positions = 0 /\ userRevision = 0 /\ analytics = 0 /\ document = 0
      /\ faulty = f /\ swallowed = f /\ manifest = [rev |-> 0, partial |-> f]
      /\ contexts = [key \in Keys |-> NoContext]
  BY <1>1, Zenon DEF ContextInit, Keys
<1>3. PICK k : k = [pc |-> "idle", kind |-> "none", own |-> -1, dto |-> Blank] OBVIOUS
<1>4. k \in ReadingDocs /\ k.pc = "idle" /\ k.own = -1 BY <1>3, NoContextIs DEF ReadingDocs, ReadingPc
<1>5. reading \in [Readers -> ReadingDocs] /\ \A q \in Readers : reading[q] = k BY <1>3, <1>4 DEF ContextInit
<1>6. manifest \in [rev : Nat, partial : BOOLEAN] /\ manifest.rev = 0 BY <1>2
<1>7. contexts \in [Keys -> Dtos] /\ \A key \in Keys : contexts[key] = NoContext BY <1>2, NoContextIs
<1>8. ContextTypes BY <1>2, <1>5, <1>6, <1>7 DEF ContextTypes, StepNames
<1>9. Publishes BY <1>2, <1>6 DEF Publishes
<1>10. ContextsHold BY <1>7 DEF ContextsHold, Holds, OfNow, Keys
<1>11. ReaderHolds(k) BY <1>2, <1>4 DEF ReaderHolds, OnTheWay, Continues
<1> QED BY <1>5, <1>8, <1>9, <1>10, <1>11 DEF ContextInv

LEMMA ContextKeeps ==
    ASSUME ContextInv, ContextNext
    PROVE  ContextInv'
  BY PublicationMoves, RefreshKeeps, Expires, AskForKeeps, AskContextKeeps, ReadPositionsKeeps, ReadFlagsKeeps,
     StoreContextKeeps, ReadOwnKeeps, StoreIntelKeeps, ReadManifestKeeps, ReadLatestKeeps, Zenon DEF ContextNext

LEMMA ContextStands ==
    ASSUME ContextInv, UNCHANGED contextVars
    PROVE  ContextInv'
<1>1. UNCHANGED <<publicationVars, contexts, reading>> BY DEF contextVars
<1>2. UNCHANGED <<step, positions, userRevision, analytics, manifest, document, faulty, swallowed>>
  BY <1>1 DEF publicationVars
<1>3. ContextTypes' BY <1>1, <1>2 DEF ContextInv, ContextTypes
<1>4. Publishes' BY <1>2 DEF ContextInv, Publishes, Whole, Dropped1, Dropped2
<1>5. ContextsHold' BY <1>1, ContextsSame
<1>6. \A q \in Readers : ReaderHolds(reading[q])'
  BY <1>1, <1>2 DEF ContextInv, ReaderHolds, Whole, Dropped1, Dropped2
<1> QED BY <1>3, <1>4, <1>5, <1>6 DEF ContextInv

LEMMA ReadersAreTold ==
    ASSUME ContextInv
    PROVE  ContextFollowsPublication /\ RevisionsCoverPayloads
<1>1. ContextFollowsPublication
  <2>1. SUFFICES ASSUME step = "none", ~faulty, ~swallowed, NEW key \in {"v1", "v2"}, Holds(key),
                        ~contexts[key].crossed
                 PROVE  contexts[key].payload = manifest.rev /\ contexts[key].rows = manifest.rev
    BY DEF ContextFollowsPublication
  <2>2. Dropped1 /\ Dropped2 /\ Whole BY <2>1 DEF Dropped1, Dropped2, Whole
  <2>3. manifest.rev = userRevision BY <2>2 DEF ContextInv, Publishes
  <2> QED BY <2>1, <2>2, <2>3 DEF ContextInv, ContextsHold, OfNow, Holds
<1>2. DOMAIN contexts = Keys BY DEF ContextInv, ContextTypes
<1> QED BY <1>1, <1>2 DEF ContextInv, ContextsHold, ReaderHolds, RevisionsCoverPayloads

(***************************************************************************)
(* Theorems about prices and news                                          *)
(***************************************************************************)
\* What a step of the platform does to the part it runs.
LEMMA NewsMoves ==
    ASSUME [Next]_vars
    PROVE  /\ part = "quotes" => QuotesNext \/ UNCHANGED quoteVars
           /\ part = "aggregation" => SumNext \/ UNCHANGED sumVars
           /\ part = "feed" => FeedNext \/ UNCHANGED <<stimuli, feedVars>>
           /\ part = "context" => ContextNext \/ UNCHANGED contextVars
  BY DEF Next, vars, marketDataVars, shownVars, newsVars, shownNewsVars, sentimentVars

LEMMA StimuliStart ==
    ASSUME Init
    PROVE  stimuli \in 0..MaxStimuli
  BY PlatformAssumption DEF Init

\* Prices: for any symbols and viewers, a viewer has the latest price of every
\* symbol it shows, but for those the timer is about to send, whichever order
\* batches, flushes and subscriptions take.
THEOREM QuotesStayLatest == Spec => [](part = "quotes" => QuotesAreLatest)
<1> DEFINE Inv == part = "quotes" => QuotesInv
<1>1. Init => Inv BY QuotesStart DEF Init
<1>2. Inv /\ [Next]_vars => Inv' BY PartStays, NewsMoves, QuotesKeep, QuotesStand
<1>3. Inv => (part = "quotes" => QuotesAreLatest) BY DEF QuotesInv
<1> QED BY <1>1, <1>2, <1>3, PTL DEF Spec

\* Sentiment: for any coins and any number of aggregations, one runs at a time
\* and the coins of the trending snapshot are cached with its revision or a
\* later one, while no aggregation outlived its lock.
THEOREM RevisionsStayAgreed == Spec => [](part = "aggregation" => RevisionsAgree)
<1> DEFINE Inv == part = "aggregation" => SumInv
<1>1. Init => Inv BY SumStart DEF Init
<1>2. Inv /\ [Next]_vars => Inv' BY PartStays, NewsMoves, SumKeeps, SumStands
<1>3. Inv => (part = "aggregation" => RevisionsAgree) BY DEF SumInv
<1> QED BY <1>1, <1>2, <1>3, PTL DEF Spec

\* The news feed: for any number of clients and any budget of events, a client
\* that would be told 304 holds the articles as they are stored, whatever
\* changes, crashes, expiries and reads lie in between - when its list was read
\* from the database after its revision and every change is counted.
THEOREM FeedStaysCurrent == Spec => [](part = "feed" => FeedIsCurrent)
<1> DEFINE Inv == part = "feed" => FeedInv
<1>1. Init => Inv BY FeedStarts, StimuliStart DEF Init
<1>2. Inv /\ [Next]_vars => Inv' BY PartStays, NewsMoves, FeedKeeps, FeedStands
<1>3. Inv => (part = "feed" => FeedIsCurrent) BY ListsAreCurrent
<1> QED BY <1>1, <1>2, <1>3, PTL DEF Spec

\* Portfolio contexts: for any readers, between publications a cached context is
\* of the published revision, and no reader is told an older revision than that
\* of its payload, except as the properties' comments say.
THEOREM ContextsFollow ==
    Spec => [](part = "context" => ContextFollowsPublication /\ RevisionsCoverPayloads)
<1> DEFINE Inv == part = "context" => ContextInv
<1>1. Init => Inv BY ContextStart DEF Init
<1>2. Inv /\ [Next]_vars => Inv' BY PartStays, NewsMoves, ContextKeeps, ContextStands
<1>3. Inv => (part = "context" => ContextFollowsPublication /\ RevisionsCoverPayloads) BY ReadersAreTold
<1> QED BY <1>1, <1>2, <1>3, PTL DEF Spec
=============================================================================
