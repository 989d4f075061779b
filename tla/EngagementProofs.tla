-------------------------- MODULE EngagementProofs --------------------------
(* Proofs about Engagement: the invariants of the WebSocket server and of the *)
(* social features, and what the invariants of the four components say of     *)
(* every behaviour of the whole.                                              *)
EXTENDS Engagement, PipelineProofs

---------------------------------------------------------------------------
(* The WebSocket server.                                                    *)

Tasks == [id : Nat, sock : Sockets, user : Owners \cup {"unknown"}, req : SUBSET Addresses,
          found : SUBSET Addresses,
          do : {"bind", "load", "store", "sub", "subload", "substore"}]

SocketTypes ==
    /\ stimuli \in Nat
    /\ socket \in [Sockets -> {"new", "open", "closing", "closed"}]
    /\ bound \in [Sockets -> SUBSET Owners] /\ fanUser \in [Sockets -> SUBSET Owners]
    /\ \A w \in Sockets : bound[w] = {} \/ \E u \in Owners : bound[w] = {u}
    /\ fanSub \in SUBSET Sockets /\ listed \in SUBSET (Owners \X Sockets)
    /\ everBound \in SUBSET (Sockets \X Owners)
    /\ watched \in [Sockets -> SUBSET Addresses]
    /\ owns \in SUBSET (Owners \X Addresses) /\ everOwned \in SUBSET (Owners \X Addresses)
    /\ owns \in SUBSET everOwned
    /\ cached \in [Owners -> SUBSET SUBSET Addresses]
    /\ tasks \in SUBSET Tasks /\ \A t \in tasks : t.do # "sub" => t.user \in Owners

SymbolTypes ==
    /\ symbols \in [Sockets -> SUBSET Symbols]
    /\ symref \in [Symbols -> Int] /\ leaked \in [Symbols -> Int]
    /\ deltas \in [Symbols \X {1, -1} -> Nat]

\* The lists and flags of a socket agree with the user it is bound to; nothing is
\* known of a socket before it connects.
Fresh == \A w \in Sockets : socket[w] = "new" =>
          /\ bound[w] = {} /\ fanUser[w] = {} /\ w \notin fanSub /\ watched[w] = {}
          /\ \A t \in tasks : t.sock # w
Matched == \A w \in Sockets : Live(w) => fanUser[w] = bound[w]
Claimed == \A w \in Sockets : Live(w) /\ (w \in fanSub \/ watched[w] # {}) => bound[w] # {}
Awaited == \A t \in tasks : t.do \in {"subload", "substore"} /\ Live(t.sock) => bound[t.sock] # {}
Listed == \A p \in listed : bound[p[2]] = {p[1]}
Wired == Fresh /\ Matched /\ Claimed /\ Awaited /\ Listed

\* Whatever a socket watches, a cache holds or a task has found was owned by the user
\* it was looked up for, who was bound to the socket.
Rightful(w, a) == \E u \in Owners : <<w, u>> \in everBound /\ <<u, a>> \in everOwned
Owned ==
    /\ \A w \in Sockets : \A a \in watched[w] : Rightful(w, a)
    /\ \A u \in Owners : \A s \in cached[u] : \A a \in s : <<u, a>> \in everOwned
    /\ \A t \in tasks : t.do \in {"store", "substore"} => \A a \in t.found : <<t.user, a>> \in everOwned
    /\ \A t \in tasks : t.do \in {"subload", "substore"} => <<t.sock, t.user>> \in everBound
    /\ \A w \in Sockets : \A u \in bound[w] : <<w, u>> \in everBound

SocketInv == SocketTypes /\ Wired /\ Owned

LEMMA SpendNat == ASSUME stimuli \in Nat, Spend(1) PROVE stimuli' \in Nat
  BY DEF Spend

\* A socket is bound to a user.
LEMMA BindFacts ==
    ASSUME SocketTypes, Wired, NEW w \in Sockets, NEW u \in Owners, Bind(w, u)
    PROVE  /\ bound' = [bound EXCEPT ![w] = {u}] /\ fanUser' = [fanUser EXCEPT ![w] = {u}]
           /\ bound' \in [Sockets -> SUBSET Owners] /\ fanUser' \in [Sockets -> SUBSET Owners]
           /\ \A x \in Sockets : bound'[x] = {} \/ \E v \in Owners : bound'[x] = {v}
           /\ listed' \in SUBSET (Owners \X Sockets)
           /\ \A p \in listed' : bound'[p[2]] = {p[1]}
           /\ everBound' = everBound \cup {<<w, u>>} /\ everBound' \in SUBSET (Sockets \X Owners)
<1>1. bound' = [bound EXCEPT ![w] = {u}] /\ fanUser' = [fanUser EXCEPT ![w] = {u}]
      /\ listed' = (listed \ {<<v, w>> : v \in bound[w] \ {u}}) \cup {<<u, w>>}
      /\ everBound' = everBound \cup {<<w, u>>}
  BY DEF Bind
<1>2. \A p \in listed' : bound'[p[2]] = {p[1]}
  <2> SUFFICES ASSUME NEW p \in listed' PROVE bound'[p[2]] = {p[1]}
    OBVIOUS
  <2>1. CASE p = <<u, w>> BY <1>1, <2>1 DEF SocketTypes
  <2>2. CASE p # <<u, w>>
    <3>1. p \in listed /\ p \notin {<<v, w>> : v \in bound[w] \ {u}} BY <1>1, <2>2
    <3>2. PICK v \in Owners, x \in Sockets : p = <<v, x>> BY <3>1 DEF SocketTypes
    <3>3. bound[x] = {v} BY <3>1, <3>2 DEF Wired, Listed
    <3>4. x # w
      <4>1. CASE x = w
        <5>1. v # u BY <2>2, <3>2, <4>1
        <5>2. v \in bound[w] \ {u} BY <3>3, <4>1, <5>1
        <5> QED BY <3>1, <3>2, <4>1, <5>2
      <4> QED BY <4>1
    <3> QED BY <1>1, <3>2, <3>3, <3>4 DEF SocketTypes
  <2> QED BY <2>1, <2>2
<1>3. bound' \in [Sockets -> SUBSET Owners] /\ fanUser' \in [Sockets -> SUBSET Owners]
      /\ \A x \in Sockets : bound'[x] = {} \/ \E v \in Owners : bound'[x] = {v}
  BY <1>1 DEF SocketTypes
<1>4. listed' \in SUBSET (Owners \X Sockets) /\ everBound' \in SUBSET (Sockets \X Owners)
  BY <1>1 DEF SocketTypes
<1> QED BY <1>1, <1>2, <1>3, <1>4

LEMMA TaskType ==
    ASSUME stimuli \in Nat, NEW w \in Sockets,
           NEW do \in {"bind", "load", "store", "sub", "subload", "substore"},
           NEW u \in Owners \cup {"unknown"}, NEW req \in SUBSET Addresses, NEW found \in SUBSET Addresses
    PROVE  /\ Task(w, do, u, req, found) \in Tasks
           /\ Task(w, do, u, req, found).sock = w /\ Task(w, do, u, req, found).do = do
           /\ Task(w, do, u, req, found).user = u /\ Task(w, do, u, req, found).found = found
<1> DEFINE k == [id |-> stimuli, sock |-> w, do |-> do, user |-> u, req |-> req, found |-> found]
<1>1. Task(w, do, u, req, found) = k
  BY DEF Task
<1>2. k.sock = w /\ k.do = do /\ k.user = u /\ k.found = found
  OBVIOUS
<1>3. k \in Tasks
  BY DEF Tasks
<1> QED BY <1>1, <1>2, <1>3

USE DEF realtimeVars, binding, pricing, wallets, watching

\* One lemma per action: it keeps the invariant of the sockets.
LEMMA ConnectKeeps ==
    ASSUME SocketInv, NEW w \in Sockets, Connect(w) PROVE SocketInv'
<1>0. stimuli' \in Nat BY SpendNat DEF SocketInv, SocketTypes, Connect
<1>1. socket[w] = "new" /\ socket' = [socket EXCEPT ![w] = "open"]
      /\ UNCHANGED <<watched, fanSub, owns, everOwned, cached>>
  BY DEF Connect
<1>2. CASE UNCHANGED <<binding, tasks>>
  <2>1. SocketTypes' BY <1>0, <1>1, <1>2 DEF SocketInv, SocketTypes
  <2>2. Wired'
    <3>1. Fresh' BY <1>1, <1>2 DEF SocketInv, SocketTypes, Wired, Fresh, Live, Tasks
    <3>2. Matched' BY <1>1, <1>2 DEF SocketInv, SocketTypes, Wired, Fresh, Matched, Live, Tasks
    <3>3. Claimed' BY <1>1, <1>2 DEF SocketInv, SocketTypes, Wired, Fresh, Claimed, Live, Tasks
    <3>4. Awaited' BY <1>1, <1>2 DEF SocketInv, SocketTypes, Wired, Fresh, Awaited, Live, Tasks
    <3>5. Listed' BY <1>1, <1>2 DEF SocketInv, SocketTypes, Wired, Listed, Live, Tasks
    <3> QED BY <3>1, <3>2, <3>3, <3>4, <3>5 DEF Wired
  <2>3. Owned' BY <1>1, <1>2 DEF SocketInv, SocketTypes, Owned, Rightful
  <2> QED BY <2>1, <2>2, <2>3 DEF SocketInv
<1>3. CASE \E u \in Owners : Bind(w, u) /\ tasks' = tasks \cup {Task(w, "load", u, {}, {})}
  <2>1. PICK u \in Owners : Bind(w, u) /\ tasks' = tasks \cup {Task(w, "load", u, {}, {})}
    BY <1>3
  <2>2. PICK k \in Tasks : k = Task(w, "load", u, {}, {}) /\ k.sock = w /\ k.do = "load" /\ k.user = u
    BY TaskType DEF SocketInv, SocketTypes
  <2>3. tasks' = tasks \cup {k} BY <2>1, <2>2
  <2>4. /\ bound' = [bound EXCEPT ![w] = {u}] /\ fanUser' = [fanUser EXCEPT ![w] = {u}]
        /\ bound' \in [Sockets -> SUBSET Owners] /\ fanUser' \in [Sockets -> SUBSET Owners]
        /\ \A x \in Sockets : bound'[x] = {} \/ \E v \in Owners : bound'[x] = {v}
        /\ listed' \in SUBSET (Owners \X Sockets)
        /\ \A p \in listed' : bound'[p[2]] = {p[1]}
        /\ everBound' = everBound \cup {<<w, u>>} /\ everBound' \in SUBSET (Sockets \X Owners)
    BY <2>1, BindFacts DEF SocketInv
  <2>5. SocketTypes' BY <1>0, <1>1, <2>2, <2>3, <2>4 DEF SocketInv, SocketTypes
  <2>6. Wired'
    <3>1. Fresh' BY <1>1, <2>2, <2>3, <2>4 DEF SocketInv, SocketTypes, Wired, Fresh, Live, Tasks
    <3>2. Matched' BY <1>1, <2>2, <2>3, <2>4 DEF SocketInv, SocketTypes, Wired, Matched, Live, Tasks
    <3>3. Claimed' BY <1>1, <2>2, <2>3, <2>4 DEF SocketInv, SocketTypes, Wired, Claimed, Live, Tasks
    <3>4. Awaited' BY <1>1, <2>2, <2>3, <2>4 DEF SocketInv, SocketTypes, Wired, Awaited, Live, Tasks
    <3>5. Listed' BY <1>1, <2>2, <2>3, <2>4 DEF SocketInv, SocketTypes, Wired, Listed, Live, Tasks
    <3> QED BY <3>1, <3>2, <3>3, <3>4, <3>5 DEF Wired
  <2>7. Owned'
    BY <1>1, <2>2, <2>3, <2>4 DEF SocketInv, SocketTypes, Owned, Rightful
  <2> QED BY <2>5, <2>6, <2>7 DEF SocketInv
<1> QED BY <1>2, <1>3 DEF Connect

LEMMA AuthenticateKeeps ==
    ASSUME SocketInv, NEW w \in Sockets, NEW u \in Owners, Authenticate(w, u) PROVE SocketInv'
<1>0. stimuli' \in Nat BY SpendNat DEF SocketInv, SocketTypes, Authenticate
<1>1. PICK k \in Tasks : k = Task(w, "bind", u, {}, {}) /\ k.sock = w /\ k.do = "bind" /\ k.user = u
  BY TaskType DEF SocketInv, SocketTypes
<1>2. Live(w) /\ tasks' = tasks \cup {k}
      /\ UNCHANGED <<socket, bound, fanUser, listed, everBound, watched, fanSub, owns, everOwned, cached>>
  BY <1>1 DEF Authenticate
<1>3. SocketTypes' BY <1>0, <1>1, <1>2 DEF SocketInv, SocketTypes
<1>4. Wired'
  <2>1. Fresh' BY <1>1, <1>2 DEF SocketInv, SocketTypes, Wired, Fresh, Live, Tasks
  <2>2. Matched' BY <1>1, <1>2 DEF SocketInv, SocketTypes, Wired, Matched, Live, Tasks
  <2>3. Claimed' BY <1>1, <1>2 DEF SocketInv, SocketTypes, Wired, Claimed, Live, Tasks
  <2>4. Awaited' BY <1>1, <1>2 DEF SocketInv, SocketTypes, Wired, Awaited, Live, Tasks
  <2>5. Listed' BY <1>1, <1>2 DEF SocketInv, SocketTypes, Wired, Listed, Live, Tasks
  <2> QED BY <2>1, <2>2, <2>3, <2>4, <2>5 DEF Wired
<1>5. Owned' BY <1>1, <1>2 DEF SocketInv, SocketTypes, Owned, Rightful
<1> QED BY <1>3, <1>4, <1>5 DEF SocketInv

\* A task that goes on is one of the same socket and request.
LEMMA ThenFacts ==
    ASSUME NEW t \in Tasks, NEW do \in {"bind", "load", "store", "sub", "subload", "substore"},
           NEW u \in Owners \cup {"unknown"}, NEW found \in SUBSET Addresses
    PROVE  \E k \in Tasks : /\ k = Then(t, do, u, found)
                            /\ k.sock = t.sock /\ k.do = do /\ k.user = u /\ k.found = found
<1> DEFINE k == [t EXCEPT !.do = do, !.user = u, !.found = found]
<1>1. k \in Tasks BY DEF Tasks
<1>2. k.sock = t.sock /\ k.do = do /\ k.user = u /\ k.found = found BY DEF Tasks
<1>3. k = Then(t, do, u, found) BY DEF Then
<1> HIDE DEF k
<1> QED BY <1>1, <1>2, <1>3

\* A socket being closed is still one that may hold its user.
LEMMA ClosingFacts ==
    ASSUME SocketTypes, NEW w \in Sockets, Closing(w)
    PROVE  /\ socket' \in [Sockets -> {"new", "open", "closing", "closed"}]
           /\ \A x \in Sockets : /\ socket'[x] = "new" <=> socket[x] = "new"
                                 /\ Live(x)' <=> Live(x)
  BY DEF Closing, Live, SocketTypes

LEMMA FinishBindKeeps ==
    ASSUME SocketInv, NEW t \in tasks, FinishBind(t) PROVE SocketInv'
<1>0. t \in Tasks /\ t.sock \in Sockets /\ t.do = "bind" /\ t.user \in Owners
  BY DEF SocketInv, SocketTypes, Tasks, FinishBind
<1>1. UNCHANGED <<stimuli, watched, fanSub, owns, everOwned, cached>>
  BY DEF FinishBind
<1>2. CASE Closing(t.sock) /\ tasks' = tasks \ {t} /\ UNCHANGED binding
  <2>1. /\ socket' \in [Sockets -> {"new", "open", "closing", "closed"}]
        /\ \A x \in Sockets : /\ socket'[x] = "new" <=> socket[x] = "new"
                              /\ Live(x)' <=> Live(x)
    BY <1>0, <1>2, ClosingFacts DEF SocketInv
  <2>2. SocketTypes' BY <1>1, <1>2, <2>1 DEF SocketInv, SocketTypes
  <2>3. \A k \in tasks : k.sock \in Sockets BY DEF SocketInv, SocketTypes, Tasks
  <2>4. Wired' BY <1>1, <1>2, <2>1, <2>3 DEF SocketInv, Wired, Fresh, Matched, Claimed, Awaited, Listed
  <2>5. Owned' BY <1>1, <1>2 DEF SocketInv, Owned, Rightful
  <2> QED BY <2>2, <2>4, <2>5 DEF SocketInv
<1>3. CASE /\ Bind(t.sock, t.user) /\ UNCHANGED socket
           /\ tasks' = (tasks \ {t}) \cup {Then(t, "load", t.user, {})}
  <2>1. PICK w \in Sockets : w = t.sock BY <1>0
  <2>2. PICK u \in Owners : u = t.user BY <1>0
  <2>3. PICK k \in Tasks : /\ k = Then(t, "load", u, {})
                           /\ k.sock = w /\ k.do = "load" /\ k.user = u
    BY <1>0, <2>1, ThenFacts
  <2>4. tasks' = (tasks \ {t}) \cup {k} BY <1>3, <2>2, <2>3
  <2>5. Bind(w, u) /\ UNCHANGED socket BY <1>3, <2>1, <2>2
  <2>6. /\ bound' = [bound EXCEPT ![w] = {u}] /\ fanUser' = [fanUser EXCEPT ![w] = {u}]
        /\ bound' \in [Sockets -> SUBSET Owners] /\ fanUser' \in [Sockets -> SUBSET Owners]
        /\ \A x \in Sockets : bound'[x] = {} \/ \E v \in Owners : bound'[x] = {v}
        /\ listed' \in SUBSET (Owners \X Sockets)
        /\ \A p \in listed' : bound'[p[2]] = {p[1]}
        /\ everBound' = everBound \cup {<<w, u>>} /\ everBound' \in SUBSET (Sockets \X Owners)
    BY <2>5, BindFacts DEF SocketInv
  <2>7. SocketTypes' BY <1>1, <2>3, <2>4, <2>5, <2>6 DEF SocketInv, SocketTypes
  <2>8. socket[w] # "new" BY <2>1 DEF SocketInv, Wired, Fresh, Matched, Claimed, Awaited, Listed
  <2>9. Wired'
    <3>1. Fresh' BY <1>1, <2>3, <2>4, <2>5, <2>6, <2>8 DEF SocketInv, SocketTypes, Wired, Fresh, Live, Tasks
    <3>2. Matched' BY <1>1, <2>3, <2>4, <2>5, <2>6, <2>8 DEF SocketInv, SocketTypes, Wired, Matched, Live, Tasks
    <3>3. Claimed' BY <1>1, <2>3, <2>4, <2>5, <2>6, <2>8 DEF SocketInv, SocketTypes, Wired, Claimed, Live, Tasks
    <3>4. Awaited' BY <1>1, <2>3, <2>4, <2>5, <2>6, <2>8 DEF SocketInv, SocketTypes, Wired, Awaited, Live, Tasks
    <3>5. Listed' BY <1>1, <2>3, <2>4, <2>5, <2>6, <2>8 DEF SocketInv, SocketTypes, Wired, Listed, Live, Tasks
    <3> QED BY <3>1, <3>2, <3>3, <3>4, <3>5 DEF Wired
  <2>10. Owned' BY <1>1, <2>3, <2>4, <2>5, <2>6 DEF SocketInv, SocketTypes, Owned, Rightful
  <2> QED BY <2>7, <2>9, <2>10 DEF SocketInv
<1> QED BY <1>2, <1>3 DEF FinishBind

LEMMA LoadKeeps ==
    ASSUME SocketInv, NEW t \in tasks, Load(t) PROVE SocketInv'
<1>0. t \in Tasks /\ t.sock \in Sockets /\ t.do \in {"load", "subload"} /\ t.user \in Owners
  BY DEF SocketInv, SocketTypes, Tasks, Load
<1>1. UNCHANGED <<stimuli, socket, bound, fanUser, listed, everBound, watched, fanSub, owns, everOwned, cached>>
  BY DEF Load
<1> DEFINE do == IF t.do = "load" THEN "store" ELSE "substore"
           found == {a \in Addresses : <<t.user, a>> \in owns}
<1>2. tasks' = (tasks \ {t}) \cup {Then(t, do, t.user, found)} BY DEF Load
<1>a. do \in {"store", "substore"} /\ (do = "substore" <=> t.do = "subload")
  BY <1>0
<1>b. found \in SUBSET Addresses /\ \A a \in found : <<t.user, a>> \in everOwned
  BY DEF SocketInv, SocketTypes
<1> HIDE DEF do, found
<1>c. PICK k \in Tasks : /\ k = Then(t, do, t.user, found)
                         /\ k.sock = t.sock /\ k.do = do /\ k.user = t.user /\ k.found = found
  BY <1>0, <1>a, <1>b, ThenFacts
<1>3. tasks' = (tasks \ {t}) \cup {k} BY <1>2, <1>c
<1>4. SocketTypes' BY <1>0, <1>1, <1>3, <1>a, <1>c DEF SocketInv, SocketTypes
<1>5. Wired'
  <2>1. Fresh' BY <1>0, <1>1, <1>3, <1>a, <1>c DEF SocketInv, SocketTypes, Wired, Fresh, Live, Tasks
  <2>2. Matched' BY <1>0, <1>1, <1>3, <1>a, <1>c DEF SocketInv, SocketTypes, Wired, Matched, Live, Tasks
  <2>3. Claimed' BY <1>0, <1>1, <1>3, <1>a, <1>c DEF SocketInv, SocketTypes, Wired, Claimed, Live, Tasks
  <2>4. Awaited' BY <1>0, <1>1, <1>3, <1>a, <1>c DEF SocketInv, SocketTypes, Wired, Awaited, Live, Tasks
  <2>5. Listed' BY <1>0, <1>1, <1>3, <1>a, <1>c DEF SocketInv, SocketTypes, Wired, Listed, Live, Tasks
  <2> QED BY <2>1, <2>2, <2>3, <2>4, <2>5 DEF Wired
<1>6. Owned'
  <2>1. \A a \in k.found : <<k.user, a>> \in everOwned
    BY <1>b, <1>c
  <2>2. k.do \in {"subload", "substore"} => <<k.sock, k.user>> \in everBound
    BY <1>0, <1>a, <1>c DEF SocketInv, Owned
  <2> QED BY <1>1, <1>3, <2>1, <2>2 DEF SocketInv, Owned, Rightful
<1> QED BY <1>4, <1>5, <1>6 DEF SocketInv

LEMMA StoreKeeps ==
    ASSUME SocketInv, NEW t \in tasks, Store(t) PROVE SocketInv'
<1>0. t \in Tasks /\ t.do \in {"store", "substore"}
  BY DEF SocketInv, SocketTypes, Store
<1>1. PICK w \in Sockets : w = t.sock BY <1>0 DEF Tasks
<1>2. PICK u \in Owners : u = t.user BY <1>0 DEF SocketInv, SocketTypes
<1>3. PICK found \in SUBSET Addresses : found = t.found BY <1>0 DEF Tasks
<1>4. UNCHANGED <<stimuli, socket, bound, fanUser, listed, everBound, owns, everOwned>>
      /\ cached' = [cached EXCEPT ![u] = {found}] /\ tasks' = tasks \ {t}
  BY <1>2, <1>3 DEF Store
<1>5. \A a \in found : <<u, a>> \in everOwned BY <1>0, <1>2, <1>3 DEF SocketInv, Owned
<1>6. CASE t.do = "store" /\ UNCHANGED watching
  <2>1. SocketTypes' BY <1>4, <1>6 DEF SocketInv, SocketTypes
  <2>2. Wired'
    <3>1. Fresh' BY <1>4, <1>6 DEF SocketInv, SocketTypes, Wired, Fresh, Live, Tasks
    <3>2. Matched' BY <1>4, <1>6 DEF SocketInv, SocketTypes, Wired, Matched, Live, Tasks
    <3>3. Claimed' BY <1>4, <1>6 DEF SocketInv, SocketTypes, Wired, Claimed, Live, Tasks
    <3>4. Awaited' BY <1>4, <1>6 DEF SocketInv, SocketTypes, Wired, Awaited, Live, Tasks
    <3>5. Listed' BY <1>4, <1>6 DEF SocketInv, SocketTypes, Wired, Listed, Live, Tasks
    <3> QED BY <3>1, <3>2, <3>3, <3>4, <3>5 DEF Wired
  <2>3. Owned' BY <1>4, <1>5, <1>6 DEF SocketInv, SocketTypes, Owned, Rightful
  <2> QED BY <2>1, <2>2, <2>3 DEF SocketInv
<1>7. CASE t.do = "substore" /\ Watch(w, t.req, found)
  <2>0. PICK req \in SUBSET Addresses : req = t.req BY <1>0 DEF Tasks
  <2>1. watched' = [watched EXCEPT ![w] = IF Live(w) THEN @ \cup (req \cap found) ELSE @]
        /\ fanSub' = IF watched'[w] # {} THEN fanSub \cup {w} ELSE fanSub
    BY <1>7, <2>0 DEF Watch
  <2>2. SocketTypes' BY <1>4, <2>1 DEF SocketInv, SocketTypes
  <2>3. socket[w] # "new" BY <1>1 DEF SocketInv, Wired, Fresh
  <2>4. Live(w) => bound[w] # {} BY <1>1, <1>7 DEF SocketInv, Wired, Awaited
  <2>5. Wired'
    <3>1. Fresh' BY <1>4, <2>1, <2>3, <2>4 DEF SocketInv, SocketTypes, Wired, Fresh, Live, Tasks
    <3>2. Matched' BY <1>4, <2>1, <2>3, <2>4 DEF SocketInv, SocketTypes, Wired, Matched, Live, Tasks
    <3>3. Claimed' BY <1>4, <2>1, <2>3, <2>4 DEF SocketInv, SocketTypes, Wired, Claimed, Live, Tasks
    <3>4. Awaited' BY <1>4, <2>1, <2>3, <2>4 DEF SocketInv, SocketTypes, Wired, Awaited, Live, Tasks
    <3>5. Listed' BY <1>4, <2>1, <2>3, <2>4 DEF SocketInv, SocketTypes, Wired, Listed, Live, Tasks
    <3> QED BY <3>1, <3>2, <3>3, <3>4, <3>5 DEF Wired
  <2>6. <<w, u>> \in everBound BY <1>1, <1>2, <1>7 DEF SocketInv, Owned
  <2>7. \A x \in Sockets : \A a \in watched'[x] : a \in watched[x] \/ (x = w /\ a \in found)
    BY <2>1 DEF SocketInv, SocketTypes
  <2>8. \A x \in Sockets : \A a \in watched'[x] : Rightful(x, a)
    BY <1>5, <2>6, <2>7 DEF SocketInv, Owned, Rightful
  <2>9. Owned'
    <3>1. (\A x \in Sockets : \A a \in watched[x] : Rightful(x, a))'
      BY <1>4, <2>8 DEF Rightful
    <3> QED BY <1>4, <1>5, <3>1 DEF SocketInv, SocketTypes, Owned
  <2> QED BY <2>2, <2>5, <2>9 DEF SocketInv
<1> QED BY <1>0, <1>1, <1>3, <1>6, <1>7 DEF Store

LEMMA PortfolioSubscribeKeeps ==
    ASSUME SocketInv, NEW w \in Sockets, NEW req \in SUBSET Addresses, PortfolioSubscribe(w, req)
    PROVE  SocketInv'
<1>0. stimuli' \in Nat BY SpendNat DEF SocketInv, SocketTypes, PortfolioSubscribe
<1>1. Live(w) /\ UNCHANGED <<bound, fanUser, listed, everBound, watched, fanSub, owns, everOwned, cached>>
  BY DEF PortfolioSubscribe
<1>2. CASE Closing(w) /\ UNCHANGED tasks
  <2>1. /\ socket' \in [Sockets -> {"new", "open", "closing", "closed"}]
        /\ \A x \in Sockets : /\ socket'[x] = "new" <=> socket[x] = "new"
                              /\ Live(x)' <=> Live(x)
    BY <1>2, ClosingFacts DEF SocketInv
  <2>2. SocketTypes' BY <1>0, <1>1, <1>2, <2>1 DEF SocketInv, SocketTypes
  <2>3. \A k \in tasks : k.sock \in Sockets BY DEF SocketInv, SocketTypes, Tasks
  <2>4. Wired' BY <1>1, <1>2, <2>1, <2>3 DEF SocketInv, Wired, Fresh, Matched, Claimed, Awaited, Listed
  <2>5. Owned' BY <1>1, <1>2 DEF SocketInv, Owned, Rightful
  <2> QED BY <2>2, <2>4, <2>5 DEF SocketInv
<1>3. CASE tasks' = tasks \cup {Task(w, "sub", "unknown", req, {})} /\ UNCHANGED socket
  <2>1. PICK k \in Tasks : k = Task(w, "sub", "unknown", req, {}) /\ k.sock = w /\ k.do = "sub"
    <3>1. stimuli \in Nat /\ {} \in SUBSET Addresses /\ "unknown" \in Owners \cup {"unknown"}
      BY DEF SocketInv, SocketTypes
    <3> QED BY <3>1, TaskType
  <2>2. tasks' = tasks \cup {k} BY <1>3, <2>1
  <2>3. SocketTypes' BY <1>0, <1>1, <1>3, <2>1, <2>2 DEF SocketInv, SocketTypes
  <2>4. Wired'
    <3>1. Fresh' BY <1>1, <1>3, <2>1, <2>2 DEF SocketInv, SocketTypes, Wired, Fresh, Live, Tasks
    <3>2. Matched' BY <1>1, <1>3, <2>1, <2>2 DEF SocketInv, SocketTypes, Wired, Matched, Live, Tasks
    <3>3. Claimed' BY <1>1, <1>3, <2>1, <2>2 DEF SocketInv, SocketTypes, Wired, Claimed, Live, Tasks
    <3>4. Awaited' BY <1>1, <1>3, <2>1, <2>2 DEF SocketInv, SocketTypes, Wired, Awaited, Live, Tasks
    <3>5. Listed' BY <1>1, <1>3, <2>1, <2>2 DEF SocketInv, SocketTypes, Wired, Listed, Live, Tasks
    <3> QED BY <3>1, <3>2, <3>3, <3>4, <3>5 DEF Wired
  <2>5. Owned' BY <1>1, <1>3, <2>1, <2>2 DEF SocketInv, SocketTypes, Owned, Rightful
  <2> QED BY <2>3, <2>4, <2>5 DEF SocketInv
<1> QED BY <1>2, <1>3 DEF PortfolioSubscribe

LEMMA HandleSubscribeKeeps ==
    ASSUME SocketInv, NEW t \in tasks, HandleSubscribe(t) PROVE SocketInv'
<1>0. t \in Tasks /\ t.do = "sub"
  BY DEF SocketInv, SocketTypes, HandleSubscribe
<1>1. PICK w \in Sockets : w = t.sock BY <1>0 DEF Tasks
<1>2. PICK req \in SUBSET Addresses : req = t.req BY <1>0 DEF Tasks
<1>3. UNCHANGED <<stimuli, socket, bound, fanUser, listed, everBound, owns, everOwned, cached>>
  BY DEF HandleSubscribe
<1>4. socket[w] # "new" BY <1>1 DEF SocketInv, Wired, Fresh
<1>5. CASE tasks' = tasks \ {t} /\ UNCHANGED watching
  <2>1. SocketTypes' BY <1>3, <1>5 DEF SocketInv, SocketTypes
  <2>2. Wired'
    <3>1. Fresh' BY <1>3, <1>5 DEF SocketInv, SocketTypes, Wired, Fresh, Live, Tasks
    <3>2. Matched' BY <1>3, <1>5 DEF SocketInv, SocketTypes, Wired, Matched, Live, Tasks
    <3>3. Claimed' BY <1>3, <1>5 DEF SocketInv, SocketTypes, Wired, Claimed, Live, Tasks
    <3>4. Awaited' BY <1>3, <1>5 DEF SocketInv, SocketTypes, Wired, Awaited, Live, Tasks
    <3>5. Listed' BY <1>3, <1>5 DEF SocketInv, SocketTypes, Wired, Listed, Live, Tasks
    <3> QED BY <3>1, <3>2, <3>3, <3>4, <3>5 DEF Wired
  <2>3. Owned' BY <1>3, <1>5 DEF SocketInv, SocketTypes, Owned, Rightful
  <2> QED BY <2>1, <2>2, <2>3 DEF SocketInv
<1>6. ASSUME NEW u \in Owners, u \in bound[w], NEW owned \in SUBSET Addresses, owned \in cached[u],
             watched' = [watched EXCEPT ![w] = req \cap owned],
             fanSub' = IF watched'[w] # {} THEN fanSub \cup {w} ELSE fanSub,
             tasks' = tasks \ {t}
      PROVE  SocketInv'
  <2>1. SocketTypes' BY <1>3, <1>6 DEF SocketInv, SocketTypes
  <2>2. Wired'
    <3>1. Fresh' BY <1>3, <1>4, <1>6 DEF SocketInv, SocketTypes, Wired, Fresh, Live, Tasks
    <3>2. Matched' BY <1>3, <1>4, <1>6 DEF SocketInv, SocketTypes, Wired, Matched, Live, Tasks
    <3>3. Claimed' BY <1>3, <1>4, <1>6 DEF SocketInv, SocketTypes, Wired, Claimed, Live, Tasks
    <3>4. Awaited' BY <1>3, <1>4, <1>6 DEF SocketInv, SocketTypes, Wired, Awaited, Live, Tasks
    <3>5. Listed' BY <1>3, <1>4, <1>6 DEF SocketInv, SocketTypes, Wired, Listed, Live, Tasks
    <3> QED BY <3>1, <3>2, <3>3, <3>4, <3>5 DEF Wired
  <2>3. <<w, u>> \in everBound /\ \A a \in owned : <<u, a>> \in everOwned
    BY <1>6 DEF SocketInv, Owned
  <2>4. \A x \in Sockets : \A a \in watched'[x] : a \in watched[x] \/ (x = w /\ a \in owned)
    BY <1>6 DEF SocketInv, SocketTypes
  <2>5. Owned' BY <1>3, <1>6, <2>3, <2>4 DEF SocketInv, SocketTypes, Owned, Rightful
  <2> QED BY <2>1, <2>2, <2>5 DEF SocketInv
<1>7. ASSUME NEW u \in Owners, u \in bound[w],
             watched' = [watched EXCEPT ![w] = {}], fanSub' = fanSub,
             tasks' = (tasks \ {t}) \cup {Then(t, "subload", u, {})}
      PROVE  SocketInv'
  <2>1. PICK k \in Tasks : /\ k = Then(t, "subload", u, {})
                           /\ k.sock = w /\ k.do = "subload" /\ k.user = u
    BY <1>0, <1>1, ThenFacts
  <2>2. tasks' = (tasks \ {t}) \cup {k} BY <1>7, <2>1
  <2>3. SocketTypes' BY <1>3, <1>7, <2>1, <2>2 DEF SocketInv, SocketTypes
  <2>4. Wired'
    <3>1. Fresh' BY <1>3, <1>4, <1>7, <2>1, <2>2 DEF SocketInv, SocketTypes, Wired, Fresh, Live, Tasks
    <3>2. Matched' BY <1>3, <1>4, <1>7, <2>1, <2>2 DEF SocketInv, SocketTypes, Wired, Matched, Live, Tasks
    <3>3. Claimed' BY <1>3, <1>4, <1>7, <2>1, <2>2 DEF SocketInv, SocketTypes, Wired, Claimed, Live, Tasks
    <3>4. Awaited' BY <1>3, <1>4, <1>7, <2>1, <2>2 DEF SocketInv, SocketTypes, Wired, Awaited, Live, Tasks
    <3>5. Listed' BY <1>3, <1>4, <1>7, <2>1, <2>2 DEF SocketInv, SocketTypes, Wired, Listed, Live, Tasks
    <3> QED BY <3>1, <3>2, <3>3, <3>4, <3>5 DEF Wired
  <2>5. <<w, u>> \in everBound BY <1>7 DEF SocketInv, Owned
  <2>6. \A x \in Sockets : \A a \in watched'[x] : a \in watched[x]
    BY <1>7 DEF SocketInv, SocketTypes
  <2>7. Owned' BY <1>3, <2>1, <2>2, <2>5, <2>6 DEF SocketInv, SocketTypes, Owned, Rightful
  <2> QED BY <2>3, <2>4, <2>7 DEF SocketInv
<1>8. bound[w] \in SUBSET Owners /\ \A u \in Owners : cached[u] \in SUBSET SUBSET Addresses
  BY DEF SocketInv, SocketTypes
<1> QED BY <1>1, <1>2, <1>5, <1>6, <1>7, <1>8 DEF HandleSubscribe

\* A step that closes a socket and lets tasks go, and nothing else.
LEMMA ClosingKeeps ==
    ASSUME SocketInv, stimuli' \in Nat, NEW w \in Sockets, Closing(w), tasks' \in SUBSET tasks,
           UNCHANGED <<binding, watching, wallets, cached>>
    PROVE  SocketInv'
<1>1. /\ socket' \in [Sockets -> {"new", "open", "closing", "closed"}]
      /\ \A x \in Sockets : /\ socket'[x] = "new" <=> socket[x] = "new"
                            /\ Live(x)' <=> Live(x)
  BY ClosingFacts DEF SocketInv
<1>2. SocketTypes' BY <1>1 DEF SocketInv, SocketTypes
<1>3. \A k \in tasks : k.sock \in Sockets BY DEF SocketInv, SocketTypes, Tasks
<1>4. Wired' BY <1>1, <1>3 DEF SocketInv, Wired, Fresh, Matched, Claimed, Awaited, Listed
<1>5. Owned' BY DEF SocketInv, Owned, Rightful
<1> QED BY <1>2, <1>4, <1>5 DEF SocketInv

LEMMA RejectSubscribeKeeps ==
    ASSUME SocketInv, NEW t \in tasks, RejectSubscribe(t) PROVE SocketInv'
<1>1. t.sock \in Sockets BY DEF SocketInv, SocketTypes, Tasks
<1>2. stimuli' \in Nat /\ tasks' \in SUBSET tasks BY DEF SocketInv, SocketTypes, RejectSubscribe
<1> QED BY <1>1, <1>2, ClosingKeeps DEF RejectSubscribe

LEMMA IdleCloseKeeps ==
    ASSUME SocketInv, NEW w \in Sockets, IdleClose(w) PROVE SocketInv'
<1>1. stimuli' \in Nat /\ tasks' \in SUBSET tasks BY DEF SocketInv, SocketTypes, IdleClose
<1> QED BY <1>1, ClosingKeeps DEF IdleClose

LEMMA PortfolioUnsubscribeKeeps ==
    ASSUME SocketInv, NEW w \in Sockets, PortfolioUnsubscribe(w) PROVE SocketInv'
<1>0. stimuli' \in Nat BY SpendNat DEF SocketInv, SocketTypes, PortfolioUnsubscribe
<1>1. watched' = [watched EXCEPT ![w] = {}]
      /\ UNCHANGED <<socket, binding, fanSub, wallets, cached, tasks>>
  BY DEF PortfolioUnsubscribe
<1>2. SocketTypes' BY <1>0, <1>1 DEF SocketInv, SocketTypes
<1>3. Wired'
  <2>1. Fresh' BY <1>1 DEF SocketInv, SocketTypes, Wired, Fresh, Live, Tasks
  <2>2. Matched' BY <1>1 DEF SocketInv, SocketTypes, Wired, Matched, Live, Tasks
  <2>3. Claimed' BY <1>1 DEF SocketInv, SocketTypes, Wired, Claimed, Live, Tasks
  <2>4. Awaited' BY <1>1 DEF SocketInv, SocketTypes, Wired, Awaited, Live, Tasks
  <2>5. Listed' BY <1>1 DEF SocketInv, SocketTypes, Wired, Listed, Live, Tasks
  <2> QED BY <2>1, <2>2, <2>3, <2>4, <2>5 DEF Wired
<1>4. \A x \in Sockets : \A a \in watched'[x] : a \in watched[x]
  BY <1>1 DEF SocketInv, SocketTypes
<1>5. Owned' BY <1>1, <1>4 DEF SocketInv, SocketTypes, Owned, Rightful
<1> QED BY <1>2, <1>3, <1>5 DEF SocketInv

LEMMA CloseEventKeeps ==
    ASSUME SocketInv, NEW w \in Sockets, CloseEvent(w) PROVE SocketInv'
<1>0. stimuli' \in Nat
  <2>1. CASE socket[w] = "open"
    <3>1. Spend(1) BY <2>1 DEF CloseEvent
    <3> QED BY <3>1, SpendNat DEF SocketInv, SocketTypes
  <2>2. CASE socket[w] = "closing" BY <2>2 DEF CloseEvent, SocketInv, SocketTypes
  <2> QED BY <2>1, <2>2 DEF CloseEvent, Live
<1>1. /\ Live(w) /\ socket' = [socket EXCEPT ![w] = "closed"]
      /\ listed' = listed \ {<<u, w>> : u \in bound[w]}
      /\ bound' = [bound EXCEPT ![w] = {}] /\ watched' = [watched EXCEPT ![w] = {}]
      /\ UNCHANGED <<fanUser, everBound, fanSub, wallets, cached, tasks>>
  BY DEF CloseEvent
<1>2. SocketTypes' BY <1>0, <1>1 DEF SocketInv, SocketTypes
<1>3. Wired'
  <2>1. Fresh' BY <1>1 DEF SocketInv, SocketTypes, Wired, Fresh, Live
  <2>2. Matched' BY <1>1 DEF SocketInv, SocketTypes, Wired, Matched, Live
  <2>3. Claimed' BY <1>1 DEF SocketInv, SocketTypes, Wired, Claimed, Live
  <2>4. Awaited' BY <1>1 DEF SocketInv, SocketTypes, Wired, Awaited, Live, Tasks
  <2>5. Listed'
    <3> SUFFICES ASSUME NEW p \in listed' PROVE bound'[p[2]] = {p[1]}
      BY DEF Listed
    <3>1. p \in listed /\ p \notin {<<u, w>> : u \in bound[w]} BY <1>1
    <3>2. PICK v \in Owners, x \in Sockets : p = <<v, x>> BY <3>1 DEF SocketInv, SocketTypes
    <3>3. bound[x] = {v} BY <3>1, <3>2 DEF SocketInv, Wired, Listed
    <3>4. x # w BY <3>1, <3>2, <3>3
    <3> QED BY <1>1, <3>2, <3>3, <3>4 DEF SocketInv, SocketTypes
  <2> QED BY <2>1, <2>2, <2>3, <2>4, <2>5 DEF Wired
<1>4. \A x \in Sockets : watched'[x] \subseteq watched[x] /\ bound'[x] \subseteq bound[x]
  BY <1>1 DEF SocketInv, SocketTypes
<1>5. Owned' BY <1>1, <1>4 DEF SocketInv, SocketTypes, Owned, Rightful
<1> QED BY <1>2, <1>3, <1>5 DEF SocketInv

LEMMA DisconnectKeeps ==
    ASSUME SocketInv, NEW u \in Owners, Disconnect(u) PROVE SocketInv'
<1>0. stimuli' \in Nat BY SpendNat DEF SocketInv, SocketTypes, Disconnect
<1>1. /\ socket' = [w \in Sockets |-> IF <<u, w>> \in listed /\ socket[w] = "open"
                                      THEN "closing" ELSE socket[w]]
      /\ listed' \in SUBSET listed
      /\ UNCHANGED <<bound, fanUser, everBound, watching, wallets, cached, tasks>>
  BY DEF Disconnect
<1>2. SocketTypes' BY <1>0, <1>1 DEF SocketInv, SocketTypes
<1>3. \A x \in Sockets : (socket'[x] = "new" <=> socket[x] = "new") /\ (Live(x)' <=> Live(x))
  BY <1>1 DEF SocketInv, SocketTypes, Live
<1>4. \A k \in tasks : k.sock \in Sockets BY DEF SocketInv, SocketTypes, Tasks
<1>5. Wired' BY <1>1, <1>3, <1>4 DEF SocketInv, Wired, Fresh, Matched, Claimed, Awaited, Listed
<1>6. Owned' BY <1>1 DEF SocketInv, Owned, Rightful
<1> QED BY <1>2, <1>5, <1>6 DEF SocketInv

\* A step that changes wallets or drops an entry of the ownership cache.
LEMMA WalletsKeep ==
    ASSUME SocketInv, stimuli' \in Nat, NEW u \in Owners, cached' = [cached EXCEPT ![u] = {}],
           owns' \in SUBSET (Owners \X Addresses), everOwned' \in SUBSET (Owners \X Addresses),
           owns' \in SUBSET everOwned', everOwned \in SUBSET everOwned',
           UNCHANGED <<socket, binding, watching, tasks>>
    PROVE  SocketInv'
<1>1. SocketTypes' BY DEF SocketInv, SocketTypes
<1>2. Wired' BY DEF SocketInv, Wired, Fresh, Matched, Claimed, Awaited, Listed, Live
<1>3. \A v \in Owners : cached'[v] \subseteq cached[v] BY DEF SocketInv, SocketTypes
<1>4. Owned' BY <1>3 DEF SocketInv, Owned, Rightful
<1> QED BY <1>1, <1>2, <1>4 DEF SocketInv

LEMMA AddWalletKeeps ==
    ASSUME SocketInv, NEW u \in Owners, NEW a \in Addresses, AddWallet(u, a) PROVE SocketInv'
<1>0. stimuli' \in Nat BY SpendNat DEF SocketInv, SocketTypes, AddWallet
<1>1. owns' \in SUBSET (Owners \X Addresses) /\ everOwned' \in SUBSET (Owners \X Addresses)
      /\ owns' \in SUBSET everOwned' /\ everOwned \in SUBSET everOwned'
  BY DEF SocketInv, SocketTypes, AddWallet
<1> QED BY <1>0, <1>1, WalletsKeep DEF AddWallet

LEMMA RemoveWalletKeeps ==
    ASSUME SocketInv, NEW u \in Owners, NEW a \in Addresses, RemoveWallet(u, a) PROVE SocketInv'
<1>0. stimuli' \in Nat BY SpendNat DEF SocketInv, SocketTypes, RemoveWallet
<1>1. owns' \in SUBSET (Owners \X Addresses) /\ everOwned' \in SUBSET (Owners \X Addresses)
      /\ owns' \in SUBSET everOwned' /\ everOwned \in SUBSET everOwned'
  BY DEF SocketInv, SocketTypes, RemoveWallet
<1> QED BY <1>0, <1>1, WalletsKeep DEF RemoveWallet

LEMMA EntryExpiresKeeps ==
    ASSUME SocketInv, NEW u \in Owners, EntryExpires(u) PROVE SocketInv'
<1>0. stimuli' \in Nat BY SpendNat DEF SocketInv, SocketTypes, EntryExpires
<1>1. owns' \in SUBSET (Owners \X Addresses) /\ everOwned' \in SUBSET (Owners \X Addresses)
      /\ owns' \in SUBSET everOwned' /\ everOwned \in SUBSET everOwned'
  BY DEF SocketInv, SocketTypes, EntryExpires
<1> QED BY <1>0, <1>1, WalletsKeep DEF EntryExpires

LEMMA RealtimeCrashKeeps ==
    ASSUME SocketInv, RealtimeCrash PROVE SocketInv'
<1>0. stimuli' \in Nat BY SpendNat DEF SocketInv, SocketTypes, RealtimeCrash
<1>1. /\ socket' = [w \in Sockets |-> IF Live(w) THEN "closed" ELSE socket[w]]
      /\ bound' = [w \in Sockets |-> {}] /\ listed' = {} /\ tasks' = {}
      /\ watched' = [w \in Sockets |-> {}] /\ cached' = [u \in Owners |-> {}] /\ fanSub' = {}
      /\ UNCHANGED <<fanUser, everBound, wallets>>
  BY DEF RealtimeCrash
<1>2. SocketTypes' BY <1>0, <1>1 DEF SocketInv, SocketTypes
<1>3. \A x \in Sockets : (socket'[x] = "new" <=> socket[x] = "new") /\ ~Live(x)'
  BY <1>1 DEF SocketInv, SocketTypes, Live
<1>4. Wired' BY <1>1, <1>3 DEF SocketInv, Wired, Fresh, Matched, Claimed, Awaited, Listed
<1>5. Owned' BY <1>1 DEF SocketInv, Owned, Rightful
<1> QED BY <1>2, <1>4, <1>5 DEF SocketInv

\* Whatever leaves the sockets' own state alone keeps the invariant.
LEMMA SocketFrame ==
    ASSUME SocketInv, stimuli' \in Nat,
           UNCHANGED <<socket, binding, watching, wallets, cached, tasks>>
    PROVE  SocketInv'
<1>1. SocketTypes' BY DEF SocketInv, SocketTypes
<1>2. Wired' BY DEF SocketInv, Wired, Fresh, Matched, Claimed, Awaited, Listed, Live
<1>3. Owned' BY DEF SocketInv, Owned, Rightful
<1> QED BY <1>1, <1>2, <1>3 DEF SocketInv

---------------------------------------------------------------------------
(* The symbol references.                                                   *)

Watchers(s) == {x \in Sockets : s \in symbols[x]}
SymbolInv == SymbolTypes /\ SymbolReferencesAdd

LEMMA WatchersMove ==
    ASSUME SymbolTypes, NEW w \in Sockets, NEW syms \in SUBSET Symbols,
           symbols' = [symbols EXCEPT ![w] = syms], NEW s \in Symbols
    PROVE  /\ Cardinality(Watchers(s)) \in Nat /\ Cardinality(Watchers(s)') \in Nat
           /\ Cardinality(Watchers(s)') = Cardinality(Watchers(s))
                 + (IF s \in syms /\ s \notin symbols[w] THEN 1
                    ELSE IF s \in symbols[w] /\ s \notin syms THEN -1 ELSE 0)
<1>1. \A x \in Sockets : symbols'[x] = IF x = w THEN syms ELSE symbols[x]
  BY DEF SymbolTypes
<1>2. /\ Watchers(s) \in SUBSET Sockets /\ Watchers(s)' \in SUBSET Sockets
      /\ Watchers(s) \ {w} = Watchers(s)' \ {w}
      /\ w \in Watchers(s) <=> s \in symbols[w]
      /\ w \in Watchers(s)' <=> s \in syms
  BY <1>1 DEF Watchers
<1>3. /\ Cardinality(Watchers(s)) \in Nat /\ Cardinality(Watchers(s)') \in Nat
      /\ Cardinality(Watchers(s)') = Cardinality(Watchers(s))
            + (IF w \in Watchers(s)' /\ w \notin Watchers(s) THEN 1
               ELSE IF w \in Watchers(s) /\ w \notin Watchers(s)' THEN -1 ELSE 0)
  BY <1>2, RealtimeAssumption, OneChanges
<1> QED BY <1>2, <1>3

LEMMA WatchersNat == \A s : Cardinality(Watchers(s)) \in Nat
<1> SUFFICES ASSUME NEW s PROVE Cardinality(Watchers(s)) \in Nat
  OBVIOUS
<1>1. Watchers(s) \in SUBSET Sockets BY DEF Watchers
<1> QED BY <1>1, RealtimeAssumption, FS_Subset, FS_CardinalityType

\* The counts of one symbol are numbers, and they add up.
LEMMA SymbolBooks ==
    ASSUME SymbolInv, NEW s \in Symbols
    PROVE  /\ <<s, 1>> \in DOMAIN deltas /\ <<s, -1>> \in DOMAIN deltas
           /\ deltas[<<s, 1>>] \in Nat /\ deltas[<<s, -1>>] \in Nat
           /\ symref[s] \in Int /\ leaked[s] \in Int /\ Cardinality(Watchers(s)) \in Nat
           /\ symref[s] + deltas[<<s, 1>>] - deltas[<<s, -1>>] = Cardinality(Watchers(s)) + leaked[s]
<1>1. DOMAIN deltas = Symbols \X {1, -1} BY DEF SymbolInv, SymbolTypes
<1>2. <<s, 1>> \in DOMAIN deltas /\ <<s, -1>> \in DOMAIN deltas BY <1>1
<1>3. deltas[<<s, 1>>] \in Nat /\ deltas[<<s, -1>>] \in Nat
  BY <1>1, <1>2 DEF SymbolInv, SymbolTypes
<1> QED BY <1>2, <1>3, WatchersNat DEF SymbolInv, SymbolTypes, SymbolReferencesAdd, Watchers

LEMMA SubscribeCounts ==
    ASSUME SymbolInv, NEW w \in Sockets, NEW syms \in SUBSET Symbols, Subscribe(w, syms)
    PROVE  SymbolInv'
<1> DEFINE step(d) == IF d[1] \in (IF d[2] = 1 THEN syms \ symbols[w] ELSE symbols[w] \ syms)
                      THEN 1 ELSE 0
<1>1. /\ symbols' = [symbols EXCEPT ![w] = syms]
      /\ deltas' = [d \in DOMAIN deltas |-> deltas[d] + step(d)]
      /\ symref' = symref /\ leaked' = leaked
  BY DEF Subscribe
<1>2. \A d : step(d) \in {0, 1} OBVIOUS
<1>3. \A s : /\ step(<<s, 1>>) = IF s \in syms /\ s \notin symbols[w] THEN 1 ELSE 0
             /\ step(<<s, -1>>) = IF s \in symbols[w] /\ s \notin syms THEN 1 ELSE 0
  OBVIOUS
<1> HIDE DEF step
<1>4. SymbolTypes'
  <2>1. deltas' \in [Symbols \X {1, -1} -> Nat] BY <1>1, <1>2 DEF SymbolInv, SymbolTypes
  <2> QED BY <1>1, <2>1 DEF SymbolInv, SymbolTypes
<1>5. ASSUME NEW s \in Symbols
      PROVE  symref'[s] + deltas'[<<s, 1>>] - deltas'[<<s, -1>>] = Cardinality(Watchers(s)') + leaked'[s]
  <2>1. deltas'[<<s, 1>>] = deltas[<<s, 1>>] + step(<<s, 1>>)
        /\ deltas'[<<s, -1>>] = deltas[<<s, -1>>] + step(<<s, -1>>)
    BY <1>1, SymbolBooks
  <2>2. /\ Cardinality(Watchers(s)) \in Nat /\ Cardinality(Watchers(s)') \in Nat
        /\ Cardinality(Watchers(s)') = Cardinality(Watchers(s))
              + (IF s \in syms /\ s \notin symbols[w] THEN 1
                 ELSE IF s \in symbols[w] /\ s \notin syms THEN -1 ELSE 0)
    BY <1>1, WatchersMove DEF SymbolInv
  <2>3. /\ deltas[<<s, 1>>] \in Nat /\ deltas[<<s, -1>>] \in Nat
        /\ symref[s] \in Int /\ leaked[s] \in Int
        /\ symref[s] + deltas[<<s, 1>>] - deltas[<<s, -1>>] = Cardinality(Watchers(s)) + leaked[s]
    BY SymbolBooks
  <2>4. CASE s \in syms /\ s \notin symbols[w] BY <1>1, <1>3, <2>1, <2>2, <2>3, <2>4
  <2>5. CASE s \in symbols[w] /\ s \notin syms BY <1>1, <1>3, <2>1, <2>2, <2>3, <2>5
  <2>6. CASE s \in syms <=> s \in symbols[w] BY <1>1, <1>3, <2>1, <2>2, <2>3, <2>6
  <2> QED BY <2>4, <2>5, <2>6
<1> QED BY <1>4, <1>5 DEF SymbolInv, SymbolReferencesAdd, Watchers

LEMMA CloseCounts ==
    ASSUME SymbolInv, NEW w \in Sockets, CloseEvent(w)
    PROVE  SymbolInv'
<1> DEFINE step(d) == IF d[2] = -1 /\ d[1] \in symbols[w] THEN 1 ELSE 0
<1>1. /\ symbols' = [symbols EXCEPT ![w] = {}]
      /\ deltas' = [d \in DOMAIN deltas |-> deltas[d] + step(d)]
      /\ symref' = symref /\ leaked' = leaked
  BY DEF CloseEvent
<1>2. \A d : step(d) \in {0, 1} OBVIOUS
<1>3. \A s : /\ step(<<s, 1>>) = 0
             /\ step(<<s, -1>>) = IF s \in symbols[w] THEN 1 ELSE 0
  OBVIOUS
<1> HIDE DEF step
<1>4. SymbolTypes'
  <2>1. deltas' \in [Symbols \X {1, -1} -> Nat] BY <1>1, <1>2 DEF SymbolInv, SymbolTypes
  <2> QED BY <1>1, <2>1 DEF SymbolInv, SymbolTypes
<1>5. ASSUME NEW s \in Symbols
      PROVE  symref'[s] + deltas'[<<s, 1>>] - deltas'[<<s, -1>>] = Cardinality(Watchers(s)') + leaked'[s]
  <2>1. deltas'[<<s, 1>>] = deltas[<<s, 1>>] + step(<<s, 1>>)
        /\ deltas'[<<s, -1>>] = deltas[<<s, -1>>] + step(<<s, -1>>)
    BY <1>1, SymbolBooks
  <2>2. /\ Cardinality(Watchers(s)) \in Nat /\ Cardinality(Watchers(s)') \in Nat
        /\ Cardinality(Watchers(s)') = Cardinality(Watchers(s))
              + (IF s \in {} /\ s \notin symbols[w] THEN 1
                 ELSE IF s \in symbols[w] /\ s \notin {} THEN -1 ELSE 0)
    <3>1. PICK syms \in SUBSET Symbols : syms = {} OBVIOUS
    <3>2. symbols' = [symbols EXCEPT ![w] = syms] BY <1>1, <3>1
    <3> QED BY <3>1, <3>2, WatchersMove DEF SymbolInv
  <2>3. /\ deltas[<<s, 1>>] \in Nat /\ deltas[<<s, -1>>] \in Nat
        /\ symref[s] \in Int /\ leaked[s] \in Int
        /\ symref[s] + deltas[<<s, 1>>] - deltas[<<s, -1>>] = Cardinality(Watchers(s)) + leaked[s]
    BY SymbolBooks
  <2> QED BY <1>1, <1>3, <2>1, <2>2, <2>3
<1> QED BY <1>4, <1>5 DEF SymbolInv, SymbolReferencesAdd, Watchers

LEMMA HIncrByCounts ==
    ASSUME SymbolInv, NEW t \in Symbols, NEW n \in {1, -1}, HIncrBy(t, n)
    PROVE  SymbolInv'
<1>0. <<t, n>> \in DOMAIN deltas /\ deltas[<<t, n>>] \in Nat BY SymbolBooks
<1>1. /\ deltas[<<t, n>>] > 0 /\ deltas' = [deltas EXCEPT ![<<t, n>>] = @ - 1]
      /\ symbols' = symbols
      /\ \/ symref' = [symref EXCEPT ![t] = @ + n] /\ leaked' = leaked
         \/ leaked' = [leaked EXCEPT ![t] = @ - n] /\ symref' = symref
  BY DEF HIncrBy
<1>2. SymbolTypes'
  <2>1. deltas' \in [Symbols \X {1, -1} -> Nat] BY <1>0, <1>1 DEF SymbolInv, SymbolTypes
  <2>2. symref' \in [Symbols -> Int] /\ leaked' \in [Symbols -> Int]
    BY <1>1 DEF SymbolInv, SymbolTypes
  <2> QED BY <1>1, <2>1, <2>2 DEF SymbolInv, SymbolTypes
<1>3. ASSUME NEW s \in Symbols
      PROVE  symref'[s] + deltas'[<<s, 1>>] - deltas'[<<s, -1>>] = Cardinality(Watchers(s)') + leaked'[s]
  <2>1. Watchers(s)' = Watchers(s) BY <1>1 DEF Watchers
  <2>2. /\ deltas'[<<s, 1>>] = IF s = t /\ n = 1 THEN deltas[<<s, 1>>] - 1 ELSE deltas[<<s, 1>>]
        /\ deltas'[<<s, -1>>] = IF s = t /\ n = -1 THEN deltas[<<s, -1>>] - 1 ELSE deltas[<<s, -1>>]
    BY <1>1, SymbolBooks
  <2>3. /\ deltas[<<s, 1>>] \in Nat /\ deltas[<<s, -1>>] \in Nat
        /\ symref[s] \in Int /\ leaked[s] \in Int /\ Cardinality(Watchers(s)) \in Nat
        /\ symref[s] + deltas[<<s, 1>>] - deltas[<<s, -1>>] = Cardinality(Watchers(s)) + leaked[s]
    BY SymbolBooks
  <2>4. DOMAIN symref = Symbols /\ DOMAIN leaked = Symbols BY DEF SymbolInv, SymbolTypes
  <2>5. CASE symref' = [symref EXCEPT ![t] = @ + n] /\ leaked' = leaked
    BY <2>1, <2>2, <2>3, <2>4, <2>5
  <2>6. CASE leaked' = [leaked EXCEPT ![t] = @ - n] /\ symref' = symref
    BY <2>1, <2>2, <2>3, <2>4, <2>6
  <2> QED BY <1>1, <2>5, <2>6
<1> QED BY <1>2, <1>3 DEF SymbolInv, SymbolReferencesAdd, Watchers

LEMMA CrashCounts ==
    ASSUME SymbolInv, RealtimeCrash
    PROVE  SymbolInv'
<1>1. /\ leaked' = [s \in Symbols |-> leaked[s] + Cardinality({w \in Sockets : s \in symbols[w]})
                      - deltas[<<s, 1>>] + deltas[<<s, -1>>]]
      /\ deltas' = [d \in DOMAIN deltas |-> 0]
      /\ symbols' = [w \in Sockets |-> {}] /\ symref' = symref
  BY DEF RealtimeCrash
<1>2. ASSUME NEW s \in Symbols
      PROVE  /\ leaked'[s] = leaked[s] + Cardinality(Watchers(s)) - deltas[<<s, 1>>] + deltas[<<s, -1>>]
             /\ leaked'[s] \in Int
  <2>1. leaked'[s] = leaked[s] + Cardinality(Watchers(s)) - deltas[<<s, 1>>] + deltas[<<s, -1>>]
    BY <1>1 DEF Watchers
  <2>2. /\ deltas[<<s, 1>>] \in Nat /\ deltas[<<s, -1>>] \in Nat
        /\ leaked[s] \in Int /\ Cardinality(Watchers(s)) \in Nat
    BY SymbolBooks
  <2> QED BY <2>1, <2>2
<1>3. SymbolTypes'
  <2>1. \A s \in Symbols : leaked'[s] \in Int BY <1>2
  <2>2. leaked' = [s \in Symbols |-> leaked'[s]] BY <1>1
  <2>3. leaked' \in [Symbols -> Int] BY <2>1, <2>2
  <2> QED BY <1>1, <2>3 DEF SymbolInv, SymbolTypes
<1>4. ASSUME NEW s \in Symbols
      PROVE  symref'[s] + deltas'[<<s, 1>>] - deltas'[<<s, -1>>] = Cardinality(Watchers(s)') + leaked'[s]
  <2>1. Watchers(s)' = {} BY <1>1 DEF Watchers
  <2>2. Cardinality(Watchers(s)') = 0 BY <2>1, FS_EmptySet
  <2>3. deltas'[<<s, 1>>] = 0 /\ deltas'[<<s, -1>>] = 0 BY <1>1, SymbolBooks
  <2>4. /\ deltas[<<s, 1>>] \in Nat /\ deltas[<<s, -1>>] \in Nat
        /\ symref[s] \in Int /\ leaked[s] \in Int /\ Cardinality(Watchers(s)) \in Nat
        /\ symref[s] + deltas[<<s, 1>>] - deltas[<<s, -1>>] = Cardinality(Watchers(s)) + leaked[s]
    BY SymbolBooks
  <2>5. leaked'[s] = leaked[s] + Cardinality(Watchers(s)) - deltas[<<s, 1>>] + deltas[<<s, -1>>]
    BY <1>2
  <2> QED BY <1>1, <2>2, <2>3, <2>4, <2>5
<1> QED BY <1>3, <1>4 DEF SymbolInv, SymbolReferencesAdd, Watchers

LEMMA SymbolFrame ==
    ASSUME SymbolInv, UNCHANGED pricing
    PROVE  SymbolInv'
<1>1. SymbolTypes' BY DEF SymbolInv, SymbolTypes
<1>2. ASSUME NEW s \in Symbols
      PROVE  symref'[s] + deltas'[<<s, 1>>] - deltas'[<<s, -1>>] = Cardinality(Watchers(s)') + leaked'[s]
  <2>1. Watchers(s)' = Watchers(s) BY DEF Watchers
  <2>2. symref[s] + deltas[<<s, 1>>] - deltas[<<s, -1>>] = Cardinality(Watchers(s)) + leaked[s]
    BY SymbolBooks
  <2> QED BY <2>1, <2>2
<1> QED BY <1>1, <1>2 DEF SymbolInv, SymbolReferencesAdd, Watchers

---------------------------------------------------------------------------
(* The whole of the WebSocket server.                                       *)

RealtimeInv == SocketInv /\ SymbolInv

LEMMA RealtimeFrame ==
    ASSUME RealtimeInv, UNCHANGED realtimeVars, stimuli' \in Nat
    PROVE  RealtimeInv'
  BY SocketFrame, SymbolFrame DEF RealtimeInv

LEMMA RealtimeSteps ==
    ASSUME RealtimeInv, RealtimeNext
    PROVE  RealtimeInv'
<1> USE DEF RealtimeInv
<1>1. ASSUME NEW w \in Sockets, NEW syms \in SUBSET Symbols, Subscribe(w, syms)
      PROVE  SocketInv'
  <2>1. stimuli' \in Nat BY <1>1, SpendNat DEF Subscribe, SocketInv, SocketTypes
  <2> QED BY <1>1, <2>1, SocketFrame DEF Subscribe
<1>2. ASSUME NEW s \in Symbols, NEW n \in {1, -1}, HIncrBy(s, n)
      PROVE  SocketInv'
  <2>1. stimuli' \in Nat BY <1>2, SpendNat DEF HIncrBy, SocketInv, SocketTypes
  <2> QED BY <1>2, <2>1, SocketFrame DEF HIncrBy
<1>3. SocketInv'
  BY <1>1, <1>2, ConnectKeeps, PortfolioUnsubscribeKeeps, CloseEventKeeps, IdleCloseKeeps,
     AuthenticateKeeps, PortfolioSubscribeKeeps, FinishBindKeeps, LoadKeeps, StoreKeeps,
     HandleSubscribeKeeps, RejectSubscribeKeeps, DisconnectKeeps, EntryExpiresKeeps,
     AddWalletKeeps, RemoveWalletKeeps, RealtimeCrashKeeps DEF RealtimeNext
<1>4. SymbolInv'
  <2>1. ASSUME NEW w \in Sockets, Connect(w) \/ PortfolioUnsubscribe(w) \/ IdleClose(w)
        PROVE  SymbolInv'
    BY <2>1, SymbolFrame DEF Connect, PortfolioUnsubscribe, IdleClose
  <2>2. ASSUME NEW w \in Sockets, NEW u \in Owners, Authenticate(w, u) PROVE SymbolInv'
    BY <2>2, SymbolFrame DEF Authenticate
  <2>3. ASSUME NEW w \in Sockets, NEW req \in SUBSET Addresses, PortfolioSubscribe(w, req)
        PROVE  SymbolInv'
    BY <2>3, SymbolFrame DEF PortfolioSubscribe
  <2>4. ASSUME NEW t \in tasks, FinishBind(t) \/ Load(t) \/ Store(t) PROVE SymbolInv'
    BY <2>4, SymbolFrame DEF FinishBind, Load, Store
  <2>5. ASSUME NEW t \in tasks, HandleSubscribe(t) \/ RejectSubscribe(t) PROVE SymbolInv'
    <3>1. UNCHANGED pricing BY <2>5 DEF HandleSubscribe, RejectSubscribe
    <3> QED BY <3>1, SymbolFrame
  <2>6. ASSUME NEW u \in Owners, Disconnect(u) \/ EntryExpires(u) PROVE SymbolInv'
    BY <2>6, SymbolFrame DEF Disconnect, EntryExpires
  <2>7. ASSUME NEW u \in Owners, NEW a \in Addresses, AddWallet(u, a) \/ RemoveWallet(u, a)
        PROVE  SymbolInv'
    BY <2>7, SymbolFrame DEF AddWallet, RemoveWallet
  <2> QED BY <2>1, <2>2, <2>3, <2>4, <2>5, <2>6, <2>7, SubscribeCounts, CloseCounts,
             HIncrByCounts, CrashCounts DEF RealtimeNext
<1> QED BY <1>3, <1>4

LEMMA RealtimeStart ==
    ASSUME RealtimeInit, stimuli = 0
    PROVE  RealtimeInv
<1>1. SocketTypes BY DEF RealtimeInit, SocketTypes
<1>2. Wired BY DEF RealtimeInit, Wired, Fresh, Matched, Claimed, Awaited, Listed, Live
<1>3. Owned BY DEF RealtimeInit, Owned
<1>4. SymbolTypes BY DEF RealtimeInit, SymbolTypes
<1>5. ASSUME NEW s \in Symbols
      PROVE  symref[s] + deltas[<<s, 1>>] - deltas[<<s, -1>>]
                = Cardinality({w \in Sockets : s \in symbols[w]}) + leaked[s]
  <2>1. {w \in Sockets : s \in symbols[w]} = {} BY DEF RealtimeInit
  <2>2. Cardinality({w \in Sockets : s \in symbols[w]}) = 0 BY <2>1, FS_EmptySet
  <2>3. <<s, 1>> \in Symbols \X {1, -1} /\ <<s, -1>> \in Symbols \X {1, -1} OBVIOUS
  <2>4. deltas[<<s, 1>>] = 0 /\ deltas[<<s, -1>>] = 0 BY <2>3 DEF RealtimeInit
  <2> QED BY <2>2, <2>4 DEF RealtimeInit
<1> QED BY <1>1, <1>2, <1>3, <1>4, <1>5 DEF RealtimeInv, SocketInv, SymbolInv, SymbolReferencesAdd

LEMMA RealtimeMeaning ==
    ASSUME RealtimeInv
    PROVE  SubscriptionsAreSound /\ RealtimeTypeOK
<1> USE DEF RealtimeInv, SocketInv, SymbolInv
<1>1. NoticesReachTheirUser
  BY DEF NoticesReachTheirUser, Wired, Listed, Matched, Claimed, SocketTypes
<1>2. WatchedWereOwned
  BY DEF WatchedWereOwned, Receivers, Owned, Rightful
<1>3. RealtimeTypeOK
  <2>1. ASSUME NEW w \in Sockets PROVE Cardinality(bound[w]) <= 1
    <3>1. CASE bound[w] = {} BY <3>1, FS_EmptySet
    <3>2. CASE \E u \in Owners : bound[w] = {u}
      <4>1. PICK u \in Owners : bound[w] = {u} BY <3>2
      <4>2. Cardinality({u}) = 1 BY FS_Singleton
      <4> QED BY <4>1, <4>2
    <3> QED BY <3>1, <3>2 DEF SocketTypes
  <2> QED BY <2>1 DEF RealtimeTypeOK, SocketTypes, SymbolTypes
<1> QED BY <1>1, <1>2, <1>3 DEF SubscriptionsAreSound

---------------------------------------------------------------------------
(* The social features.                                                     *)

Actions == {"DAILY_LOGIN", "READ_NEWS", "REACT"}
Kinds == ReactionTypes \cup {"none"}
Posts == [id : Nat, parent : Nat, by : Users, replies : Int, deleted : BOOLEAN]

\* What handlers keep, by what they are about.
Resters == [pc : {"idle"}]
Writers == [pc : {"create", "shown", "reply"}, by : Users, id : Nat, parent : Nat]
Deleters == [pc : {"remove", "unreply", "unshow"}, id : Nat, parent : Nat, soft : BOOLEAN]
Switchers == [pc : {"react", "unreact", "retype", "adjust"}, by : Users, old : Kinds, new : Kinds]
Rewarders == [pc : {"enter", "points"}, by : Users, action : Actions]
Followers == [pc : {"follow"}, by : Users, whom : Users]
Handlers == Resters \cup Writers \cup Deleters \cup Switchers \cup Rewarders \cup Followers

\* What a handler read, as long as it acts on it: parents are older than their replies,
\* and a comment keeps its parent.
Sane(h) ==
    /\ h.pc \in {"create", "shown", "reply", "remove", "unreply", "unshow"} => h.parent <= lastId
    /\ h.pc = "remove" => /\ h.id \in 1 .. lastId
                          /\ \A c \in comments : c.id = h.id => c.parent = h.parent
    /\ h.pc = "react" => h.new \in ReactionTypes
    /\ h.pc \in {"unreact", "retype"} => h.old \in ReactionTypes /\ h.new \in ReactionTypes

SocialTypes ==
    /\ lastId \in Nat /\ shown \in Int /\ told \in Nat /\ stray \in BOOLEAN /\ total \in Int
    /\ comments \in SUBSET Posts /\ IsFiniteSet(comments)
    /\ \A c \in comments : c.id \in 1 .. lastId /\ c.parent < c.id
    /\ \A c, d \in comments : c.id = d.id => c = d
    /\ reaction \in [Users -> Kinds] /\ tally \in [ReactionTypes -> Int]
    /\ follows \in SUBSET (Users \X Users)
    /\ diary \in [Users -> Seq(Actions)] /\ points \in [Users -> Int]
    /\ social \in [Reactors -> Handlers] /\ \A r \in Reactors : Sane(social[r])

\* What the handlers in flight have still to add or take away.
Posting == {r \in Reactors : social[r].pc = "shown"}
Hiding == {r \in Reactors : social[r].pc \in {"unreply", "unshow"}}
Answering(p) == {r \in Reactors : social[r].pc \in {"shown", "reply"} /\ social[r].parent = p}
Retracting(p) == {r \in Reactors : social[r].pc = "unreply" /\ social[r].parent = p}
Gaining(t) == {r \in Reactors : social[r].pc = "adjust" /\ social[r].new = t}
Losing(t) == {r \in Reactors : social[r].pc = "adjust" /\ social[r].old = t}
Paying(u, a) == {r \in Reactors : social[r].pc = "points" /\ social[r].by = u /\ social[r].action = a}

Visible == {c \in comments : ~ c.deleted}
Replies(p) == {c \in comments : c.parent = p}
Chosen(t) == {u \in Users : reaction[u] = t}
Reacting == {u \in Users : reaction[u] # "none"}

N(S) == Cardinality(S)

\* The counters with what is under way equal the documents.
ShownBooks == shown + N(Posting) = N(Visible) + N(Hiding)
ReplyBooks == \A c \in comments :
                 c.replies + N(Answering(c.id)) = N(Replies(c.id)) + N(Retracting(c.id))
TallyBooks == \A t \in ReactionTypes : tally[t] + N(Gaining(t)) = N(Chosen(t)) + N(Losing(t))
TotalBooks == total + N(Losing("none")) = N(Reacting) + N(Gaining("none"))
Due(u) == 10 * N(Paying(u, "DAILY_LOGIN")) + 2 * N(Paying(u, "READ_NEWS")) + N(Paying(u, "REACT"))
PointBooks == \A u \in Users : points[u] + Due(u) = Earned(u)

SocialInv == SocialTypes /\ (~ stray => ShownBooks /\ ReplyBooks /\ TallyBooks /\ TotalBooks /\ PointBooks)

---------------------------------------------------------------------------
(* A handler moves on.                                                      *)

LEMMA HandlerGoes ==
    ASSUME SocialTypes, NEW r \in Reactors, NEW rec, Goes(r, rec)
    PROVE  \A q \in Reactors : social'[q] = IF q = r THEN rec ELSE social[q]
  BY DEF Goes, SocialTypes

\* What one handler counts for, before and after.
LEMMA CountMoves ==
    ASSUME NEW A \in SUBSET Reactors, NEW B \in SUBSET Reactors, NEW r, A \ {r} = B \ {r}
    PROVE  /\ N(A) \in Nat /\ N(B) \in Nat
           /\ (r \in A <=> r \in B) => N(B) = N(A)
           /\ r \in B /\ r \notin A => N(B) = N(A) + 1
           /\ r \in A /\ r \notin B => N(B) = N(A) - 1
<1>1. IsFiniteSet(Reactors) BY SocialAssumption
<1>2. /\ Cardinality(A) \in Nat /\ Cardinality(B) \in Nat
      /\ Cardinality(B) = Cardinality(A)
            + (IF r \in B /\ r \notin A THEN 1 ELSE IF r \in A /\ r \notin B THEN -1 ELSE 0)
  BY <1>1, OneChanges
<1> QED BY <1>2 DEF N

LEMMA ReactorNats ==
    ASSUME NEW A \in SUBSET Reactors PROVE N(A) \in Nat
  BY CountMoves

\* A handler that is not counted before nor after.
LEMMA CommentRest ==
    ASSUME SocialTypes, NEW r \in Reactors, NEW rec, Goes(r, rec),
           social[r].pc \notin {"shown", "reply", "unreply", "unshow"},
           rec.pc \notin {"shown", "reply", "unreply", "unshow"},
           UNCHANGED commentVars
    PROVE  (ShownBooks => ShownBooks') /\ (ReplyBooks => ReplyBooks')
<1>1. \A q \in Reactors : social'[q] = IF q = r THEN rec ELSE social[q] BY HandlerGoes
<1>2. Posting' = Posting /\ Hiding' = Hiding BY <1>1 DEF Posting, Hiding
<1>3. \A p : Answering(p)' = Answering(p) /\ Retracting(p)' = Retracting(p)
  BY <1>1 DEF Answering, Retracting
<1>4. Visible' = Visible /\ (\A p : Replies(p)' = Replies(p)) BY DEF commentVars, Visible, Replies
<1>5. ShownBooks => ShownBooks' BY <1>2, <1>4 DEF ShownBooks, commentVars
<1>6. ReplyBooks => ReplyBooks' BY <1>3, <1>4 DEF ReplyBooks, commentVars
<1> QED BY <1>5, <1>6

LEMMA TallyRest ==
    ASSUME SocialTypes, NEW r \in Reactors, NEW rec, Goes(r, rec),
           social[r].pc # "adjust", rec.pc # "adjust", UNCHANGED reactionVars
    PROVE  (TallyBooks => TallyBooks') /\ (TotalBooks => TotalBooks')
<1>1. \A q \in Reactors : social'[q] = IF q = r THEN rec ELSE social[q] BY HandlerGoes
<1>2. \A t : Gaining(t)' = Gaining(t) /\ Losing(t)' = Losing(t) BY <1>1 DEF Gaining, Losing
<1>3. Reacting' = Reacting /\ (\A t : Chosen(t)' = Chosen(t)) BY DEF reactionVars, Reacting, Chosen
<1>4. TallyBooks => TallyBooks' BY <1>2, <1>3 DEF TallyBooks, reactionVars
<1>5. TotalBooks => TotalBooks' BY <1>2, <1>3 DEF TotalBooks, reactionVars
<1> QED BY <1>4, <1>5

LEMMA PointRest ==
    ASSUME SocialTypes, NEW r \in Reactors, NEW rec, Goes(r, rec),
           social[r].pc # "points", rec.pc # "points", UNCHANGED rewardVars
    PROVE  PointBooks => PointBooks'
<1>1. \A q \in Reactors : social'[q] = IF q = r THEN rec ELSE social[q] BY HandlerGoes
<1>2. \A u, a : Paying(u, a)' = Paying(u, a) BY <1>1 DEF Paying
<1>3. \A u : Due(u)' = Due(u) BY <1>2 DEF Due
<1>4. \A u : Earned(u)' = Earned(u) BY DEF Earned, Times, rewardVars
<1> QED BY <1>3, <1>4 DEF PointBooks, rewardVars

\* The types, when a handler moves on.
LEMMA TypesKeep ==
    ASSUME SocialTypes, NEW r \in Reactors, NEW rec \in Handlers, Goes(r, rec), Sane(rec)',
           lastId' \in Nat, lastId <= lastId',
           shown' \in Int, told' \in Nat, stray' \in BOOLEAN, total' \in Int,
           comments' \in SUBSET Posts, IsFiniteSet(comments'),
           \A c \in comments' : c.id \in 1 .. lastId' /\ c.parent < c.id,
           \A c, d \in comments' : c.id = d.id => c = d,
           \A c \in comments' : c.id > lastId \/ \E d \in comments : d.id = c.id /\ d.parent = c.parent,
           reaction' \in [Users -> Kinds], tally' \in [ReactionTypes -> Int],
           follows' \in SUBSET (Users \X Users),
           diary' \in [Users -> Seq(Actions)], points' \in [Users -> Int]
    PROVE  SocialTypes'
<1>1. \A q \in Reactors : social'[q] = IF q = r THEN rec ELSE social[q] BY HandlerGoes
<1>2. social' \in [Reactors -> Handlers] BY DEF Goes, SocialTypes
<1>3. ASSUME NEW q \in Reactors PROVE Sane(social[q])'
  <2>1. CASE q = r BY <1>1, <2>1 DEF Sane
  <2>2. CASE q # r
    <3>1. social'[q] = social[q] BY <1>1, <2>2
    <3>2. PICK h \in Handlers : h = social[q] BY DEF SocialTypes
    <3>3. Sane(h) BY <3>2 DEF SocialTypes
    <3>4. h.pc \in {"create", "shown", "reply", "remove", "unreply", "unshow"} => h.parent \in Nat
      BY DEF Handlers, Resters, Writers, Deleters, Switchers, Rewarders, Followers
    <3>5. lastId \in Nat BY DEF SocialTypes
    <3>6. h.pc \in {"create", "shown", "reply", "remove", "unreply", "unshow"} => h.parent <= lastId'
      BY <3>3, <3>4, <3>5 DEF Sane
    <3>7. h.pc = "remove" => h.id \in 1 .. lastId /\ h.id \in 1 .. lastId'
      BY <3>3, <3>5 DEF Sane
    <3>8. h.pc = "remove" => \A c \in comments' : c.id = h.id => c.parent = h.parent
      BY <3>3, <3>5, <3>7 DEF Sane
    <3>9. /\ h.pc = "react" => h.new \in ReactionTypes
          /\ h.pc \in {"unreact", "retype"} => h.old \in ReactionTypes /\ h.new \in ReactionTypes
      BY <3>3 DEF Sane
    <3>10. Sane(h)' BY <3>6, <3>7, <3>8, <3>9 DEF Sane
    <3>11. h = social'[q] BY <3>1, <3>2
    <3> QED BY <3>10, <3>11 DEF Sane
  <2> QED BY <2>1, <2>2
<1> QED BY <1>2, <1>3 DEF SocialTypes

\* A handler of which nothing is counted begins, goes on or ends.
LEMMA HandlerRests ==
    ASSUME SocialInv, NEW r \in Reactors, NEW rec \in Handlers, Goes(r, rec), Sane(rec),
           UNCHANGED <<commentVars, reactionVars, rewardVars>>,
           follows' \in SUBSET (Users \X Users), told' \in Nat, stray' \in BOOLEAN,
           ~ stray' => /\ ~ stray
                       /\ {social[r].pc, rec.pc} \intersect
                             {"shown", "reply", "unreply", "unshow", "adjust", "points"} = {}
    PROVE  SocialInv'
<1>1. SocialTypes'
  <2>1. SocialTypes BY DEF SocialInv
  <2>2. Sane(rec)' BY DEF Sane, commentVars
  <2>3. \A c \in comments' : \E d \in comments : d.id = c.id /\ d.parent = c.parent
    BY DEF commentVars
  <2>4. /\ lastId' \in Nat /\ lastId <= lastId'
        /\ shown' \in Int /\ total' \in Int
        /\ comments' \in SUBSET Posts /\ IsFiniteSet(comments')
        /\ \A c \in comments' : c.id \in 1 .. lastId' /\ c.parent < c.id
        /\ \A c, d \in comments' : c.id = d.id => c = d
    BY <2>1 DEF SocialTypes, commentVars, reactionVars
  <2>5. /\ reaction' \in [Users -> Kinds] /\ tally' \in [ReactionTypes -> Int]
        /\ diary' \in [Users -> Seq(Actions)] /\ points' \in [Users -> Int]
    BY <2>1 DEF SocialTypes, reactionVars, rewardVars
  <2> QED BY <2>1, <2>2, <2>3, <2>4, <2>5, TypesKeep
<1>2. ASSUME ~ stray' PROVE (ShownBooks /\ ReplyBooks /\ TallyBooks /\ TotalBooks /\ PointBooks)'
  <2>1. ShownBooks /\ ReplyBooks /\ TallyBooks /\ TotalBooks /\ PointBooks /\ SocialTypes
    BY <1>2 DEF SocialInv
  <2>2. /\ social[r].pc \notin {"shown", "reply", "unreply", "unshow"}
        /\ rec.pc \notin {"shown", "reply", "unreply", "unshow"}
        /\ social[r].pc # "adjust" /\ rec.pc # "adjust"
        /\ social[r].pc # "points" /\ rec.pc # "points"
    BY <1>2
  <2> QED BY <2>1, <2>2, CommentRest, TallyRest, PointRest
<1> QED BY <1>1, <1>2 DEF SocialInv

LEMMA RestIs == \E rec \in Handlers : rec = Rest /\ rec.pc = "idle"
<1>1. Rest \in Resters /\ Rest.pc = "idle" BY DEF Rest, Resters
<1> QED BY <1>1 DEF Handlers

LEMMA WritingIs ==
    ASSUME NEW pc \in {"create", "shown", "reply"}, NEW u \in Users, NEW i \in Nat, NEW p \in Nat
    PROVE  \E rec \in Handlers : /\ rec = Writing(pc, u, i, p)
                                 /\ rec.pc = pc /\ rec.by = u /\ rec.id = i /\ rec.parent = p
<1> DEFINE rec == [pc |-> pc, by |-> u, id |-> i, parent |-> p]
<1>1. rec \in Writers BY DEF Writers
<1> QED BY <1>1 DEF Handlers, Writing

LEMMA DeletingIs ==
    ASSUME NEW pc \in {"remove", "unreply", "unshow"}, NEW i \in Nat, NEW p \in Nat, NEW soft \in BOOLEAN
    PROVE  \E rec \in Handlers : /\ rec = Deleting(pc, i, p, soft)
                                 /\ rec.pc = pc /\ rec.id = i /\ rec.parent = p /\ rec.soft = soft
<1> DEFINE rec == [pc |-> pc, id |-> i, parent |-> p, soft |-> soft]
<1>1. rec \in Deleters BY DEF Deleters
<1> QED BY <1>1 DEF Handlers, Deleting

LEMMA SwitchingIs ==
    ASSUME NEW pc \in {"react", "unreact", "retype", "adjust"}, NEW u \in Users,
           NEW old \in Kinds, NEW new \in Kinds
    PROVE  \E rec \in Handlers : /\ rec = Switching(pc, u, old, new)
                                 /\ rec.pc = pc /\ rec.by = u /\ rec.old = old /\ rec.new = new
<1> DEFINE rec == [pc |-> pc, by |-> u, old |-> old, new |-> new]
<1>1. rec \in Switchers BY DEF Switchers
<1> QED BY <1>1 DEF Handlers, Switching

LEMMA RewardingIs ==
    ASSUME NEW pc \in {"enter", "points"}, NEW u \in Users, NEW a \in Actions
    PROVE  \E rec \in Handlers : /\ rec = Rewarding(pc, u, a)
                                 /\ rec.pc = pc /\ rec.by = u /\ rec.action = a
<1> DEFINE rec == [pc |-> pc, by |-> u, action |-> a]
<1>1. rec \in Rewarders BY DEF Rewarders
<1> QED BY <1>1 DEF Handlers, Rewarding

LEMMA CommentIs ==
    ASSUME SocialTypes, NEW i, Known(i)
    PROVE  /\ Comment(i) \in comments /\ Comment(i).id = i
           /\ \A c \in comments : c.id = i => c = Comment(i)
<1>1. \E c \in comments : c.id = i BY DEF Known
<1>2. Comment(i) \in comments /\ Comment(i).id = i BY <1>1 DEF Comment
<1> QED BY <1>2 DEF SocialTypes

LEMMA SocialNats ==
    ASSUME SocialInv
    PROVE  /\ SocialTypes /\ lastId \in Nat /\ shown \in Int /\ told \in Nat /\ stray \in BOOLEAN
           /\ total \in Int /\ follows \in SUBSET (Users \X Users)
  BY DEF SocialInv, SocialTypes

---------------------------------------------------------------------------
(* One lemma per step of a handler.                                         *)

LEMMA AddCommentKeeps ==
    ASSUME SocialInv, NEW r \in Reactors, NEW u \in Users, NEW p \in 0 .. lastId, AddComment(r, u, p)
    PROVE  SocialInv'
<1>1. social[r].pc = "idle" /\ Goes(r, Writing("create", u, 0, p))
      /\ UNCHANGED <<commentVars, reactionVars, follows, rewardVars, told, stray>>
  BY DEF AddComment, Ready
<1>2. p \in Nat /\ p <= lastId BY SocialNats
<1>3. PICK rec \in Handlers : /\ rec = Writing("create", u, 0, p)
                              /\ rec.pc = "create" /\ rec.parent = p
  BY <1>2, WritingIs
<1>4. Goes(r, rec) BY <1>1, <1>3
<1>5. Sane(rec) BY <1>2, <1>3 DEF Sane
<1> QED BY <1>1, <1>3, <1>4, <1>5, HandlerRests, SocialNats

LEMMA ClaimKeeps ==
    ASSUME SocialInv, NEW r \in Reactors, NEW u \in Users, NEW a \in {"DAILY_LOGIN", "READ_NEWS"},
           Claim(r, u, a)
    PROVE  SocialInv'
<1>1. social[r].pc = "idle" /\ Goes(r, Rewarding("enter", u, a))
      /\ UNCHANGED <<commentVars, reactionVars, follows, rewardVars, told, stray>>
  BY DEF Claim, Ready
<1>2. PICK rec \in Handlers : rec = Rewarding("enter", u, a) /\ rec.pc = "enter"
  BY RewardingIs DEF Actions
<1>3. Goes(r, rec) BY <1>1, <1>2
<1>4. Sane(rec) BY <1>2 DEF Sane
<1> QED BY <1>1, <1>2, <1>3, <1>4, HandlerRests, SocialNats

LEMMA FollowUserKeeps ==
    ASSUME SocialInv, NEW r \in Reactors, NEW u \in Users, NEW v \in Users, FollowUser(r, u, v)
    PROVE  SocialInv'
<1>1. social[r].pc = "idle" /\ Goes(r, [pc |-> "follow", by |-> u, whom |-> v])
      /\ UNCHANGED <<commentVars, reactionVars, follows, rewardVars, told, stray>>
  BY DEF FollowUser, Ready
<1>2. PICK rec \in Handlers : rec = [pc |-> "follow", by |-> u, whom |-> v] /\ rec.pc = "follow"
  <2>1. [pc |-> "follow", by |-> u, whom |-> v] \in Followers BY DEF Followers
  <2> QED BY <2>1 DEF Handlers
<1>3. Goes(r, rec) BY <1>1, <1>2
<1>4. Sane(rec) BY <1>2 DEF Sane
<1> QED BY <1>1, <1>2, <1>3, <1>4, HandlerRests, SocialNats

LEMMA DeleteCommentKeeps ==
    ASSUME SocialInv, NEW r \in Reactors, NEW i \in 1 .. lastId, DeleteComment(r, i)
    PROVE  SocialInv'
<1>1. social[r].pc = "idle" /\ Known(i)
      /\ Goes(r, Deleting("remove", i, Comment(i).parent, Comment(i).replies > 0))
      /\ UNCHANGED <<commentVars, reactionVars, follows, rewardVars, told, stray>>
  BY DEF DeleteComment, Ready
<1>2. PICK c \in comments : c = Comment(i) /\ c.id = i /\ \A d \in comments : d.id = i => d = c
  BY <1>1, CommentIs, SocialNats
<1>3. c \in Posts /\ c.parent < c.id /\ i \in Nat /\ lastId \in Nat BY <1>2 DEF SocialInv, SocialTypes
<1>4. PICK p \in Nat, soft \in BOOLEAN : p = Comment(i).parent /\ soft = (Comment(i).replies > 0)
  <2>1. PICK soft : soft = (Comment(i).replies > 0) OBVIOUS
  <2>2. soft \in BOOLEAN BY <2>1
  <2>3. Comment(i).parent \in Nat BY <1>2, <1>3 DEF Posts
  <2> QED BY <2>1, <2>2, <2>3
<1>5. PICK rec \in Handlers : /\ rec = Deleting("remove", i, p, soft)
                              /\ rec.pc = "remove" /\ rec.id = i /\ rec.parent = p
  BY <1>3, DeletingIs
<1>6. Goes(r, rec) BY <1>1, <1>4, <1>5
<1>7. Sane(rec)
  <2>1. p <= lastId BY <1>2, <1>3, <1>4
  <2> QED BY <1>2, <1>4, <1>5, <2>1 DEF Sane
<1> QED BY <1>1, <1>5, <1>6, <1>7, HandlerRests, SocialNats

LEMMA ToggleKeeps ==
    ASSUME SocialInv, NEW r \in Reactors, NEW u \in Users, NEW t \in ReactionTypes, Toggle(r, u, t)
    PROVE  SocialInv'
<1>1. social[r].pc = "idle"
      /\ Goes(r, Switching(IF reaction[u] = "none" THEN "react"
                           ELSE IF reaction[u] = t THEN "unreact" ELSE "retype", u, reaction[u], t))
      /\ UNCHANGED <<commentVars, reactionVars, follows, rewardVars, told, stray>>
  BY DEF Toggle, Ready
<1>2. PICK old \in Kinds, pc \in {"react", "unreact", "retype"} :
         /\ old = reaction[u]
         /\ pc = IF reaction[u] = "none" THEN "react"
                 ELSE IF reaction[u] = t THEN "unreact" ELSE "retype"
  BY DEF SocialInv, SocialTypes
<1>3. PICK rec \in Handlers : /\ rec = Switching(pc, u, old, t)
                              /\ rec.pc = pc /\ rec.old = old /\ rec.new = t
  BY SwitchingIs DEF Kinds
<1>4. Goes(r, rec) BY <1>1, <1>2, <1>3
<1>5. Sane(rec) BY <1>2, <1>3 DEF Sane, Kinds
<1> QED BY <1>1, <1>3, <1>4, <1>5, HandlerRests, SocialNats

LEMMA HandlerDiesKeeps ==
    ASSUME SocialInv, NEW r \in Reactors, HandlerDies(r) PROVE SocialInv'
<1>1. Goes(r, Rest)
      /\ stray' = (stray \/ social[r].pc \in {"shown", "reply", "unreply", "unshow",
                                              "adjust", "enter", "points"})
      /\ UNCHANGED <<commentVars, reactionVars, follows, rewardVars, told>>
  BY DEF HandlerDies
<1>2. PICK rec \in Handlers : rec = Rest /\ rec.pc = "idle" BY RestIs
<1>3. Goes(r, rec) BY <1>1, <1>2
<1>4. Sane(rec) BY <1>2 DEF Sane
<1>5. stray' \in BOOLEAN BY <1>1, SocialNats
<1> QED BY <1>1, <1>2, <1>3, <1>4, <1>5, HandlerRests, SocialNats

LEMMA UpsertKeeps ==
    ASSUME SocialInv, NEW r \in Reactors, Upsert(r) PROVE SocialInv'
<1>1. social[r].pc = "follow" /\ follows' = follows \cup {<<social[r].by, social[r].whom>>}
      /\ told' = told + 1 /\ Goes(r, Rest)
      /\ UNCHANGED <<commentVars, reactionVars, rewardVars, stray>>
  BY DEF Upsert, On
<1>2. PICK rec \in Handlers : rec = Rest /\ rec.pc = "idle" BY RestIs
<1>3. Goes(r, rec) BY <1>1, <1>2
<1>4. Sane(rec) BY <1>2 DEF Sane
<1>5. follows' \in SUBSET (Users \X Users)
  <2>1. social[r] \in Handlers BY DEF SocialInv, SocialTypes
  <2>2. social[r].by \in Users /\ social[r].whom \in Users
    BY <1>1, <2>1 DEF Handlers, Resters, Writers, Deleters, Switchers, Rewarders, Followers
  <2> QED BY <1>1, <2>2, SocialNats
<1> QED BY <1>1, <1>2, <1>3, <1>4, <1>5, HandlerRests, SocialNats

\* No handler moves: an unfollow, or another component steps.
LEMMA FollowsChange ==
    ASSUME SocialInv, follows' \in SUBSET (Users \X Users),
           UNCHANGED <<commentVars, reactionVars, rewardVars, social, told, stray>>
    PROVE  SocialInv'
<1>1. SocialTypes'
  <2>1. \A q \in Reactors : Sane(social[q])'
    BY DEF SocialInv, SocialTypes, Sane, commentVars
  <2> QED BY <2>1 DEF SocialInv, SocialTypes, commentVars, reactionVars, rewardVars
<1>2. /\ ShownBooks' = ShownBooks /\ ReplyBooks' = ReplyBooks /\ TallyBooks' = TallyBooks
      /\ TotalBooks' = TotalBooks
  BY DEF ShownBooks, ReplyBooks, TallyBooks, TotalBooks, Posting, Hiding, Answering, Retracting,
         Gaining, Losing, Visible, Replies, Chosen, Reacting, commentVars, reactionVars
<1>3. PointBooks' = PointBooks BY DEF PointBooks, Due, Paying, Earned, Times, rewardVars
<1> QED BY <1>1, <1>2, <1>3 DEF SocialInv

\* What a step of one handler adds to the counts.
LEMMA CountGoes ==
    ASSUME NEW A \in SUBSET Reactors, NEW B \in SUBSET Reactors, NEW r, A \ {r} = B \ {r}
    PROVE  /\ N(A) \in Nat /\ N(B) \in Nat
           /\ N(B) = N(A) + (IF r \in B THEN 1 ELSE 0) - (IF r \in A THEN 1 ELSE 0)
  BY CountMoves

LEMMA CommentCounts ==
    ASSUME SocialTypes, NEW r \in Reactors, NEW rec, Goes(r, rec)
    PROVE  /\ N(Posting) \in Nat /\ N(Hiding) \in Nat
           /\ N(Posting)' = N(Posting) + (IF rec.pc = "shown" THEN 1 ELSE 0)
                                       - (IF social[r].pc = "shown" THEN 1 ELSE 0)
           /\ N(Hiding)' = N(Hiding) + (IF rec.pc \in {"unreply", "unshow"} THEN 1 ELSE 0)
                                     - (IF social[r].pc \in {"unreply", "unshow"} THEN 1 ELSE 0)
<1>1. \A q \in Reactors : social'[q] = IF q = r THEN rec ELSE social[q] BY HandlerGoes
<1>2. /\ Posting \in SUBSET Reactors /\ Posting' \in SUBSET Reactors /\ Posting \ {r} = Posting' \ {r}
      /\ r \in Posting <=> social[r].pc = "shown"
      /\ r \in Posting' <=> rec.pc = "shown"
  BY <1>1 DEF Posting
<1>3. /\ Hiding \in SUBSET Reactors /\ Hiding' \in SUBSET Reactors /\ Hiding \ {r} = Hiding' \ {r}
      /\ r \in Hiding <=> social[r].pc \in {"unreply", "unshow"}
      /\ r \in Hiding' <=> rec.pc \in {"unreply", "unshow"}
  BY <1>1 DEF Hiding
<1>4. N(Posting)' = N(Posting') /\ N(Hiding)' = N(Hiding') BY DEF N
<1>5. /\ N(Posting) \in Nat
      /\ N(Posting') = N(Posting) + (IF r \in Posting' THEN 1 ELSE 0) - (IF r \in Posting THEN 1 ELSE 0)
  BY <1>2, CountGoes
<1>6. /\ N(Hiding) \in Nat
      /\ N(Hiding') = N(Hiding) + (IF r \in Hiding' THEN 1 ELSE 0) - (IF r \in Hiding THEN 1 ELSE 0)
  BY <1>3, CountGoes
<1> QED BY <1>2, <1>3, <1>4, <1>5, <1>6

LEMMA ReplyCounts ==
    ASSUME SocialTypes, NEW r \in Reactors, NEW rec, Goes(r, rec), NEW p
    PROVE  /\ N(Answering(p)) \in Nat /\ N(Retracting(p)) \in Nat
           /\ N(Answering(p))' = N(Answering(p))
                + (IF rec.pc \in {"shown", "reply"} /\ rec.parent = p THEN 1 ELSE 0)
                - (IF social[r].pc \in {"shown", "reply"} /\ social[r].parent = p THEN 1 ELSE 0)
           /\ N(Retracting(p))' = N(Retracting(p))
                + (IF rec.pc = "unreply" /\ rec.parent = p THEN 1 ELSE 0)
                - (IF social[r].pc = "unreply" /\ social[r].parent = p THEN 1 ELSE 0)
<1>1. \A q \in Reactors : social'[q] = IF q = r THEN rec ELSE social[q] BY HandlerGoes
<1> DEFINE A == Answering(p)
           R == Retracting(p)
<1>2. /\ A \in SUBSET Reactors /\ A' \in SUBSET Reactors /\ A \ {r} = A' \ {r}
      /\ r \in A <=> social[r].pc \in {"shown", "reply"} /\ social[r].parent = p
      /\ r \in A' <=> rec.pc \in {"shown", "reply"} /\ rec.parent = p
  BY <1>1 DEF Answering
<1>3. /\ R \in SUBSET Reactors /\ R' \in SUBSET Reactors /\ R \ {r} = R' \ {r}
      /\ r \in R <=> social[r].pc = "unreply" /\ social[r].parent = p
      /\ r \in R' <=> rec.pc = "unreply" /\ rec.parent = p
  BY <1>1 DEF Retracting
<1>4. N(A)' = N(A') /\ N(R)' = N(R') BY DEF N
<1> HIDE DEF A, R
<1>5. /\ N(A) \in Nat
      /\ N(A') = N(A) + (IF r \in A' THEN 1 ELSE 0) - (IF r \in A THEN 1 ELSE 0)
  BY <1>2, CountGoes
<1>6. /\ N(R) \in Nat
      /\ N(R') = N(R) + (IF r \in R' THEN 1 ELSE 0) - (IF r \in R THEN 1 ELSE 0)
  BY <1>3, CountGoes
<1>7. /\ N(A) \in Nat
      /\ N(A') = N(A) + (IF rec.pc \in {"shown", "reply"} /\ rec.parent = p THEN 1 ELSE 0)
                      - (IF social[r].pc \in {"shown", "reply"} /\ social[r].parent = p THEN 1 ELSE 0)
  BY <1>2, <1>5
<1>8. /\ N(R) \in Nat
      /\ N(R') = N(R) + (IF rec.pc = "unreply" /\ rec.parent = p THEN 1 ELSE 0)
                      - (IF social[r].pc = "unreply" /\ social[r].parent = p THEN 1 ELSE 0)
  BY <1>3, <1>6
<1> QED BY <1>4, <1>7, <1>8 DEF A, R

LEMMA TallyCounts ==
    ASSUME SocialTypes, NEW r \in Reactors, NEW rec, Goes(r, rec), NEW t
    PROVE  /\ N(Gaining(t)) \in Nat /\ N(Losing(t)) \in Nat
           /\ N(Gaining(t))' = N(Gaining(t))
                + (IF rec.pc = "adjust" /\ rec.new = t THEN 1 ELSE 0)
                - (IF social[r].pc = "adjust" /\ social[r].new = t THEN 1 ELSE 0)
           /\ N(Losing(t))' = N(Losing(t))
                + (IF rec.pc = "adjust" /\ rec.old = t THEN 1 ELSE 0)
                - (IF social[r].pc = "adjust" /\ social[r].old = t THEN 1 ELSE 0)
<1>1. \A q \in Reactors : social'[q] = IF q = r THEN rec ELSE social[q] BY HandlerGoes
<1> DEFINE G == Gaining(t)
           L == Losing(t)
<1>2. /\ G \in SUBSET Reactors /\ G' \in SUBSET Reactors /\ G \ {r} = G' \ {r}
      /\ r \in G <=> social[r].pc = "adjust" /\ social[r].new = t
      /\ r \in G' <=> rec.pc = "adjust" /\ rec.new = t
  BY <1>1 DEF Gaining
<1>3. /\ L \in SUBSET Reactors /\ L' \in SUBSET Reactors /\ L \ {r} = L' \ {r}
      /\ r \in L <=> social[r].pc = "adjust" /\ social[r].old = t
      /\ r \in L' <=> rec.pc = "adjust" /\ rec.old = t
  BY <1>1 DEF Losing
<1>4. N(G)' = N(G') /\ N(L)' = N(L') BY DEF N
<1> HIDE DEF G, L
<1>5. /\ N(G) \in Nat
      /\ N(G') = N(G) + (IF r \in G' THEN 1 ELSE 0) - (IF r \in G THEN 1 ELSE 0)
  BY <1>2, CountGoes
<1>6. /\ N(L) \in Nat
      /\ N(L') = N(L) + (IF r \in L' THEN 1 ELSE 0) - (IF r \in L THEN 1 ELSE 0)
  BY <1>3, CountGoes
<1>7. /\ N(G) \in Nat
      /\ N(G') = N(G) + (IF rec.pc = "adjust" /\ rec.new = t THEN 1 ELSE 0)
                      - (IF social[r].pc = "adjust" /\ social[r].new = t THEN 1 ELSE 0)
  BY <1>2, <1>5
<1>8. /\ N(L) \in Nat
      /\ N(L') = N(L) + (IF rec.pc = "adjust" /\ rec.old = t THEN 1 ELSE 0)
                      - (IF social[r].pc = "adjust" /\ social[r].old = t THEN 1 ELSE 0)
  BY <1>3, <1>6
<1> QED BY <1>4, <1>7, <1>8 DEF G, L

LEMMA PointCounts ==
    ASSUME SocialTypes, NEW r \in Reactors, NEW rec, Goes(r, rec), NEW u, NEW a
    PROVE  /\ N(Paying(u, a)) \in Nat
           /\ N(Paying(u, a))' = N(Paying(u, a))
                + (IF rec.pc = "points" /\ rec.by = u /\ rec.action = a THEN 1 ELSE 0)
                - (IF social[r].pc = "points" /\ social[r].by = u /\ social[r].action = a THEN 1 ELSE 0)
<1>1. \A q \in Reactors : social'[q] = IF q = r THEN rec ELSE social[q] BY HandlerGoes
<1> DEFINE P == Paying(u, a)
<1>2. /\ P \in SUBSET Reactors /\ P' \in SUBSET Reactors /\ P \ {r} = P' \ {r}
      /\ r \in P <=> social[r].pc = "points" /\ social[r].by = u /\ social[r].action = a
      /\ r \in P' <=> rec.pc = "points" /\ rec.by = u /\ rec.action = a
  BY <1>1 DEF Paying
<1>3. N(P)' = N(P') BY DEF N
<1> HIDE DEF P
<1>4. /\ N(P) \in Nat
      /\ N(P') = N(P) + (IF r \in P' THEN 1 ELSE 0) - (IF r \in P THEN 1 ELSE 0)
  BY <1>2, CountGoes
<1>5. /\ N(P) \in Nat
      /\ N(P') = N(P) + (IF rec.pc = "points" /\ rec.by = u /\ rec.action = a THEN 1 ELSE 0)
                - (IF social[r].pc = "points" /\ social[r].by = u /\ social[r].action = a THEN 1 ELSE 0)
  BY <1>2, <1>4
<1> QED BY <1>3, <1>5 DEF P

LEMMA DocumentNats ==
    ASSUME SocialTypes
    PROVE  /\ N(Visible) \in Nat /\ (\A p : N(Replies(p)) \in Nat)
           /\ (\A t : N(Chosen(t)) \in Nat) /\ N(Reacting) \in Nat
<1>1. IsFiniteSet(comments) /\ IsFiniteSet(Users) BY SocialAssumption DEF SocialTypes
<1>2. Visible \in SUBSET comments /\ \A p : Replies(p) \in SUBSET comments BY DEF Visible, Replies
<1>3. Reacting \in SUBSET Users /\ \A t : Chosen(t) \in SUBSET Users BY DEF Reacting, Chosen
<1>4. \A S \in SUBSET comments : Cardinality(S) \in Nat BY <1>1, FS_Subset, FS_CardinalityType
<1>5. \A S \in SUBSET Users : Cardinality(S) \in Nat BY <1>1, FS_Subset, FS_CardinalityType
<1> QED BY <1>2, <1>3, <1>4, <1>5 DEF N

---------------------------------------------------------------------------
(* Steps on the comments.                                                   *)

LEMMA Replaced ==
    ASSUME NEW S, IsFiniteSet(S), NEW c \in S, NEW d, d \notin S \ {c}
    PROVE  /\ IsFiniteSet((S \ {c}) \cup {d})
           /\ Cardinality((S \ {c}) \cup {d}) = Cardinality(S)
<1>1. /\ IsFiniteSet(S \ {c}) /\ Cardinality(S \ {c}) = Cardinality(S) - 1
      /\ Cardinality(S) \in Nat /\ Cardinality(S \ {c}) \in Nat
  BY FS_RemoveElement, FS_CardinalityType
<1>2. /\ IsFiniteSet((S \ {c}) \cup {d})
      /\ Cardinality((S \ {c}) \cup {d}) = Cardinality(S \ {c}) + 1
  BY <1>1, FS_AddElement
<1> QED BY <1>1, <1>2

\* Which ids and parents the comments have is what every step must keep.
CommentTypes == /\ comments \in SUBSET Posts /\ IsFiniteSet(comments)
                /\ \A c \in comments : c.id \in 1 .. lastId /\ c.parent < c.id
                /\ \A c, d \in comments : c.id = d.id => c = d

\* A comment is written over by one with the same id and parent.
LEMMA AlterIs ==
    ASSUME SocialTypes, NEW c \in comments, NEW d \in Posts, d.id = c.id, d.parent = c.parent,
           comments' = Alter(c.id, d), UNCHANGED lastId
    PROVE  /\ CommentTypes'
           /\ \A e \in comments' : \E f \in comments : f.id = e.id /\ f.parent = e.parent
           /\ \A e \in comments' : e = d \/ (e \in comments /\ e.id # d.id)
           /\ \A p : N(Replies(p))' = N(Replies(p))
           /\ d.deleted = c.deleted => N(Visible)' = N(Visible)
           /\ d.deleted /\ ~ c.deleted => N(Visible)' = N(Visible) - 1
<1>1. /\ IsFiniteSet(comments) /\ comments \in SUBSET Posts
      /\ \A e \in comments : e.id = c.id => e = c
      /\ \A e \in comments : e.id \in 1 .. lastId /\ e.parent < e.id
  BY DEF SocialTypes
<1>2. comments' = (comments \ {c}) \cup {d} /\ d \notin comments \ {c}
  BY <1>1 DEF Alter
<1>3. CommentTypes'
  <2>1. IsFiniteSet(comments') BY <1>1, <1>2, Replaced
  <2>2. \A e, f \in comments' : e.id = f.id => e = f BY <1>1, <1>2 DEF SocialTypes
  <2>3. \A e \in comments' : e.id \in 1 .. lastId /\ e.parent < e.id BY <1>1, <1>2
  <2>4. comments' \in SUBSET Posts BY <1>1, <1>2
  <2> QED BY <2>1, <2>2, <2>3, <2>4 DEF CommentTypes
<1>4. ASSUME NEW p PROVE N(Replies(p))' = N(Replies(p))
  <2>1. Replies(p) \in SUBSET comments BY DEF Replies
  <2>2. IsFiniteSet(Replies(p)) BY <1>1, <2>1, FS_Subset
  <2>3. CASE c.parent = p
    <3>1. c \in Replies(p) /\ d \notin Replies(p) \ {c} BY <1>2, <2>3 DEF Replies
    <3>2. Replies(p)' = (Replies(p) \ {c}) \cup {d} BY <1>2, <2>3 DEF Replies
    <3> QED BY <2>2, <3>1, <3>2, Replaced DEF N
  <2>4. CASE c.parent # p
    <3>1. Replies(p)' = Replies(p) BY <1>2, <2>4 DEF Replies
    <3> QED BY <3>1 DEF N
  <2> QED BY <2>3, <2>4
<1>5. Visible \in SUBSET comments /\ IsFiniteSet(Visible) BY <1>1, FS_Subset DEF Visible
<1>6. ASSUME d.deleted = c.deleted PROVE N(Visible)' = N(Visible)
  <2>1. CASE ~ c.deleted
    <3>1. c \in Visible /\ d \notin Visible \ {c} BY <1>2, <2>1 DEF Visible
    <3>2. Visible' = (Visible \ {c}) \cup {d} BY <1>2, <1>6, <2>1 DEF Visible
    <3> QED BY <1>5, <3>1, <3>2, Replaced DEF N
  <2>2. CASE c.deleted
    <3>1. Visible' = Visible BY <1>2, <1>6, <2>2 DEF Visible
    <3> QED BY <3>1 DEF N
  <2> QED BY <2>1, <2>2
<1>7. ASSUME d.deleted, ~ c.deleted PROVE N(Visible)' = N(Visible) - 1
  <2>1. c \in Visible /\ Visible' = Visible \ {c} BY <1>2, <1>7 DEF Visible
  <2> QED BY <1>5, <2>1, FS_RemoveElement DEF N
<1> QED BY <1>1, <1>2, <1>3, <1>4, <1>6, <1>7

\* A handler steps, and of the documents only the comments change.
LEMMA CommentsChange ==
    ASSUME SocialInv, NEW r \in Reactors, NEW rec \in Handlers, Goes(r, rec), Sane(rec)',
           {social[r].pc, rec.pc} \intersect {"adjust", "points"} = {},
           UNCHANGED <<reactionVars, rewardVars, follows>>,
           lastId' \in Nat, lastId <= lastId', shown' \in Int, told' \in Nat, stray' \in BOOLEAN,
           CommentTypes',
           \A c \in comments' : c.id > lastId \/ \E d \in comments : d.id = c.id /\ d.parent = c.parent,
           ~ stray' => ~ stray /\ ShownBooks' /\ ReplyBooks'
    PROVE  SocialInv'
<1>1. SocialTypes'
  <2>1. SocialTypes BY DEF SocialInv
  <2>2. /\ reaction' \in [Users -> Kinds] /\ tally' \in [ReactionTypes -> Int]
        /\ diary' \in [Users -> Seq(Actions)] /\ points' \in [Users -> Int]
        /\ total' \in Int /\ follows' \in SUBSET (Users \X Users)
    BY <2>1 DEF SocialTypes, reactionVars, rewardVars
  <2>3. /\ comments' \in SUBSET Posts /\ IsFiniteSet(comments')
        /\ \A c \in comments' : c.id \in 1 .. lastId' /\ c.parent < c.id
        /\ \A c, d \in comments' : c.id = d.id => c = d
    BY DEF CommentTypes
  <2> QED BY <2>1, <2>2, <2>3, TypesKeep
<1>2. ASSUME ~ stray' PROVE (ShownBooks /\ ReplyBooks /\ TallyBooks /\ TotalBooks /\ PointBooks)'
  <2>1. ShownBooks' /\ ReplyBooks' /\ TallyBooks /\ TotalBooks /\ PointBooks /\ SocialTypes
    BY <1>2 DEF SocialInv
  <2>2. /\ social[r].pc # "adjust" /\ rec.pc # "adjust"
        /\ social[r].pc # "points" /\ rec.pc # "points"
    OBVIOUS
  <2> QED BY <2>1, <2>2, TallyRest, PointRest
<1> QED BY <1>1, <1>2 DEF SocialInv

\* The values of what handlers keep.
LEMMA HandlerKeeps ==
    ASSUME SocialTypes, NEW r \in Reactors
    PROVE  /\ social[r] \in Handlers /\ Sane(social[r])
           /\ social[r].pc \in {"create", "shown", "reply"} =>
                social[r].by \in Users /\ social[r].id \in Nat /\ social[r].parent \in Nat
           /\ social[r].pc \in {"remove", "unreply", "unshow"} =>
                social[r].id \in Nat /\ social[r].parent \in Nat /\ social[r].soft \in BOOLEAN
           /\ social[r].pc \in {"react", "unreact", "retype", "adjust"} =>
                social[r].by \in Users /\ social[r].old \in Kinds /\ social[r].new \in Kinds
           /\ social[r].pc \in {"enter", "points"} =>
                social[r].by \in Users /\ social[r].action \in Actions
<1>1. social[r] \in Handlers /\ Sane(social[r]) BY DEF SocialTypes
<1> QED BY <1>1 DEF Handlers, Resters, Writers, Deleters, Switchers, Rewarders, Followers

\* Nobody answers a comment that is not there yet.
LEMMA NobodyAnswers ==
    ASSUME SocialTypes
    PROVE  /\ N(Answering(lastId + 1)) = 0 /\ N(Retracting(lastId + 1)) = 0
           /\ N(Replies(lastId + 1)) = 0
<1>1. lastId \in Nat BY DEF SocialTypes
<1>2. \A r \in Reactors : social[r].pc \in {"shown", "reply", "unreply"} =>
         social[r].parent # lastId + 1
  BY <1>1, HandlerKeeps DEF Sane
<1>3. \A c \in comments : c.parent # lastId + 1
  BY <1>1 DEF SocialTypes, Posts
<1>4. Answering(lastId + 1) = {} /\ Retracting(lastId + 1) = {} /\ Replies(lastId + 1) = {}
  BY <1>2, <1>3 DEF Answering, Retracting, Replies
<1> QED BY <1>4, FS_EmptySet DEF N

LEMMA CreateCommentKeeps ==
    ASSUME SocialInv, NEW r \in Reactors, CreateComment(r) PROVE SocialInv'
<1>1. /\ social[r].pc = "create" /\ lastId' = lastId + 1
      /\ comments' = comments \cup {[id |-> lastId + 1, parent |-> social[r].parent,
                                     by |-> social[r].by, replies |-> 0, deleted |-> FALSE]}
      /\ Goes(r, Writing("shown", social[r].by, lastId + 1, social[r].parent))
      /\ UNCHANGED <<shown, reactionVars, follows, rewardVars, told, stray>>
  BY DEF CreateComment, On
<1>2. SocialTypes /\ lastId \in Nat /\ told' \in Nat /\ shown' \in Int /\ stray' \in BOOLEAN
  BY <1>1, SocialNats
<1>3. PICK n \in Nat, p \in Nat, u \in Users :
         n = lastId + 1 /\ p = social[r].parent /\ p <= lastId /\ u = social[r].by
  BY <1>1, <1>2, HandlerKeeps DEF Sane
<1>4. PICK d \in Posts : /\ d.id = n /\ d.parent = p /\ d.replies = 0 /\ ~ d.deleted
                         /\ comments' = comments \cup {d}
  <2>1. [id |-> n, parent |-> p, by |-> u, replies |-> 0, deleted |-> FALSE] \in Posts BY DEF Posts
  <2> QED BY <1>1, <1>3, <2>1
<1>5. PICK rec \in Handlers : /\ Goes(r, rec) /\ rec.pc = "shown" /\ rec.parent = p
  BY <1>1, <1>3, WritingIs
<1>6. /\ IsFiniteSet(comments) /\ comments \in SUBSET Posts
      /\ \A c \in comments : c.id \in 1 .. lastId /\ c.parent < c.id
      /\ \A c, e \in comments : c.id = e.id => c = e
      /\ d \notin comments
  BY <1>2, <1>3, <1>4 DEF SocialTypes
<1>7. CommentTypes'
  <2>1. IsFiniteSet(comments') BY <1>4, <1>6, FS_AddElement
  <2>2. \A c \in comments' : c.id \in 1 .. lastId' /\ c.parent < c.id BY <1>1, <1>2, <1>3, <1>4, <1>6
  <2>3. \A c, e \in comments' : c.id = e.id => c = e BY <1>2, <1>3, <1>4, <1>6
  <2> QED BY <1>4, <1>6, <2>1, <2>2, <2>3 DEF CommentTypes
<1>8. \A c \in comments' : c.id > lastId \/ \E e \in comments : e.id = c.id /\ e.parent = c.parent
  BY <1>2, <1>3, <1>4
<1>9. N(Visible)' = N(Visible) + 1
  <2>1. Visible' = Visible \cup {d} /\ d \notin Visible /\ IsFiniteSet(Visible)
    BY <1>4, <1>6, FS_Subset DEF Visible
  <2> QED BY <2>1, FS_AddElement DEF N
<1>10. \A q : N(Replies(q))' = N(Replies(q)) + (IF q = p THEN 1 ELSE 0)
  <2>1. ASSUME NEW q PROVE N(Replies(q))' = N(Replies(q)) + (IF q = p THEN 1 ELSE 0)
    <3>1. IsFiniteSet(Replies(q)) /\ d \notin Replies(q) BY <1>6, FS_Subset DEF Replies
    <3>2. Replies(q)' = IF q = p THEN Replies(q) \cup {d} ELSE Replies(q) BY <1>4 DEF Replies
    <3>3. Cardinality(Replies(q)) \in Nat BY <3>1, FS_CardinalityType
    <3>4. CASE q = p
      <4>1. Cardinality(Replies(q) \cup {d}) = Cardinality(Replies(q)) + 1 BY <3>1, FS_AddElement
      <4> QED BY <3>2, <3>4, <4>1 DEF N
    <3>5. CASE q # p BY <3>2, <3>3, <3>5 DEF N
    <3> QED BY <3>4, <3>5
  <2> QED BY <2>1
<1>11. ASSUME ~ stray PROVE ShownBooks'
  <2>1. ShownBooks BY <1>11 DEF SocialInv
  <2>2. N(Posting)' = N(Posting) + 1 /\ N(Hiding)' = N(Hiding) /\ N(Posting) \in Nat /\ N(Hiding) \in Nat
    BY <1>1, <1>2, <1>5, CommentCounts
  <2>3. N(Visible) \in Nat BY <1>2, DocumentNats
  <2> QED BY <1>1, <1>2, <1>9, <2>1, <2>2, <2>3, SocialNats DEF ShownBooks
<1>12. ASSUME ~ stray, NEW c \in comments'
       PROVE  c.replies + N(Answering(c.id))' = N(Replies(c.id))' + N(Retracting(c.id))'
  <2>0. PICK q : q = c.id OBVIOUS
  <2>1. /\ N(Answering(q))' = N(Answering(q)) + (IF q = p THEN 1 ELSE 0)
        /\ N(Retracting(q))' = N(Retracting(q))
        /\ N(Answering(q)) \in Nat /\ N(Retracting(q)) \in Nat
    BY <1>1, <1>2, <1>5, ReplyCounts
  <2>2. N(Replies(q)) \in Nat BY <1>2, DocumentNats
  <2>3. c.replies + N(Answering(q)) = N(Replies(q)) + N(Retracting(q)) /\ c.replies \in Int
    <3>1. CASE c \in comments BY <1>12, <2>0, <3>1, <1>6 DEF SocialInv, ReplyBooks, Posts
    <3>2. CASE c = d BY <1>2, <1>3, <1>4, <2>0, <3>2, NobodyAnswers
    <3> QED BY <1>4, <3>1, <3>2
  <2> QED BY <1>10, <2>0, <2>1, <2>2, <2>3
<1>13. ~ stray' => ~ stray /\ ShownBooks' /\ ReplyBooks' BY <1>1, <1>11, <1>12 DEF ReplyBooks
<1>14. Sane(rec)' BY <1>1, <1>2, <1>3, <1>5 DEF Sane
<1> QED BY <1>1, <1>2, <1>5, <1>7, <1>8, <1>13, <1>14, CommentsChange

LEMMA CountCommentKeeps ==
    ASSUME SocialInv, NEW r \in Reactors, CountComment(r) PROVE SocialInv'
<1>1. /\ social[r].pc = "shown" /\ shown' = shown + 1
      /\ Goes(r, IF social[r].parent = 0 THEN Rest
                 ELSE Writing("reply", social[r].by, social[r].id, social[r].parent))
      /\ UNCHANGED <<comments, lastId, reactionVars, follows, rewardVars, told, stray>>
  BY DEF CountComment, On
<1>2. SocialTypes /\ lastId \in Nat /\ told \in Nat /\ shown \in Int /\ stray \in BOOLEAN
  BY SocialNats
<1>3. PICK p \in Nat : p = social[r].parent /\ p <= lastId
  BY <1>1, <1>2, HandlerKeeps DEF Sane
<1>4. PICK rec \in Handlers : /\ Goes(r, rec) /\ (p = 0 => rec.pc = "idle")
                              /\ p # 0 => rec.pc = "reply" /\ rec.parent = p
  <2>1. CASE p = 0 BY <1>1, <1>3, <2>1, RestIs
  <2>2. CASE p # 0 BY <1>1, <1>2, <1>3, <2>2, WritingIs, HandlerKeeps
  <2> QED BY <2>1, <2>2
<1>5. CommentTypes' BY <1>1, <1>2 DEF CommentTypes, SocialTypes
<1>6. ASSUME ~ stray PROVE ShownBooks'
  <2>1. ShownBooks BY <1>6 DEF SocialInv
  <2>2. N(Posting)' = N(Posting) - 1 /\ N(Hiding)' = N(Hiding) /\ N(Posting) \in Nat /\ N(Hiding) \in Nat
    BY <1>1, <1>2, <1>4, CommentCounts
  <2>3. N(Visible) \in Nat /\ N(Visible)' = N(Visible) BY <1>1, <1>2, DocumentNats DEF Visible
  <2> QED BY <1>1, <1>2, <2>1, <2>2, <2>3 DEF ShownBooks
<1>7. ASSUME ~ stray, NEW c \in comments
      PROVE  c.replies + N(Answering(c.id))' = N(Replies(c.id))' + N(Retracting(c.id))'
  <2>1. c.id # 0 BY <1>2 DEF SocialTypes
  <2>2. N(Answering(c.id))' = N(Answering(c.id)) /\ N(Retracting(c.id))' = N(Retracting(c.id))
    BY <1>1, <1>2, <1>3, <1>4, <2>1, ReplyCounts
  <2>3. N(Replies(c.id))' = N(Replies(c.id)) BY <1>1 DEF Replies
  <2> QED BY <1>7, <2>2, <2>3 DEF SocialInv, ReplyBooks
<1>8. ~ stray' => ~ stray /\ ShownBooks' /\ ReplyBooks' BY <1>1, <1>6, <1>7 DEF ReplyBooks
<1>9. Sane(rec)' BY <1>1, <1>2, <1>3, <1>4 DEF Sane
<1> QED BY <1>1, <1>2, <1>4, <1>5, <1>8, <1>9, CommentsChange

LEMMA CountReplyKeeps ==
    ASSUME SocialInv, NEW r \in Reactors, CountReply(r) PROVE SocialInv'
<1>1. /\ social[r].pc = "reply" /\ Goes(r, Rest)
      /\ UNCHANGED <<lastId, shown, reactionVars, follows, rewardVars, stray>>
  BY DEF CountReply, On
<1>2. SocialTypes /\ lastId \in Nat /\ told \in Nat /\ shown \in Int /\ stray \in BOOLEAN
  BY SocialNats
<1>3. PICK p \in Nat : p = social[r].parent BY <1>1, <1>2, HandlerKeeps
<1>4. PICK rec \in Handlers : Goes(r, rec) /\ rec.pc = "idle" BY <1>1, RestIs
<1>5. told' \in Nat
  <2>1. told' = told \/ told' = told + 1 \/ told' = told + 0 BY DEF CountReply
  <2> QED BY <1>2, <2>1
<1>6. /\ CommentTypes'
      /\ \A c \in comments' : \E d \in comments : d.id = c.id /\ d.parent = c.parent
      /\ N(Visible)' = N(Visible) /\ \A q : N(Replies(q))' = N(Replies(q))
      /\ \A c \in comments' : \E d \in comments :
           d.id = c.id /\ c.replies = d.replies + (IF c.id = p THEN 1 ELSE 0)
  <2>1. CASE ~ Known(p)
    <3>1. UNCHANGED comments BY <1>3, <2>1 DEF CountReply
    <3>2. CommentTypes' BY <1>1, <1>2, <3>1 DEF CommentTypes, SocialTypes
    <3>3. \A c \in comments : c.id # p /\ c.replies \in Int BY <1>2, <2>1 DEF Known, SocialTypes, Posts
    <3>4. N(Visible)' = N(Visible) /\ \A q : N(Replies(q))' = N(Replies(q))
      BY <3>1 DEF Visible, Replies
    <3> QED BY <3>1, <3>2, <3>3, <3>4
  <2>2. CASE Known(p)
    <3>1. comments' = Alter(p, [Comment(p) EXCEPT !.replies = @ + 1]) BY <1>3, <2>2 DEF CountReply
    <3>2. PICK c \in comments : c = Comment(p) /\ c.id = p BY <1>2, <2>2, CommentIs
    <3>3. c \in Posts /\ \A e \in comments : e.replies \in Int BY <1>2 DEF SocialTypes, Posts
    <3>4. PICK d \in Posts : /\ d = [c EXCEPT !.replies = @ + 1]
                             /\ d.id = p /\ d.parent = c.parent /\ d.deleted = c.deleted
                             /\ d.replies = c.replies + 1
      <4>1. c = [id |-> c.id, parent |-> c.parent, by |-> c.by, replies |-> c.replies,
                 deleted |-> c.deleted]
            /\ c.id \in Nat /\ c.parent \in Nat /\ c.by \in Users /\ c.replies \in Int
            /\ c.deleted \in BOOLEAN
        BY <3>3 DEF Posts
      <4>2. PICK d : d = [c EXCEPT !.replies = @ + 1] OBVIOUS
      <4>3. d = [id |-> c.id, parent |-> c.parent, by |-> c.by, replies |-> c.replies + 1,
                 deleted |-> c.deleted]
        BY <4>1, <4>2
      <4>4. d \in Posts BY <4>1, <4>3 DEF Posts
      <4> QED BY <3>2, <4>1, <4>2, <4>3, <4>4
    <3>5. comments' = Alter(c.id, d) BY <3>1, <3>2, <3>4
    <3>6. /\ CommentTypes'
          /\ \A e \in comments' : \E f \in comments : f.id = e.id /\ f.parent = e.parent
          /\ \A e \in comments' : e = d \/ (e \in comments /\ e.id # d.id)
          /\ N(Visible)' = N(Visible) /\ \A q : N(Replies(q))' = N(Replies(q))
      <4>1. d.id = c.id /\ d.parent = c.parent /\ d.deleted = c.deleted /\ UNCHANGED lastId
        BY <1>1, <3>2, <3>4
      <4> QED BY <1>2, <3>5, <4>1, AlterIs
    <3>7. ASSUME NEW e \in comments'
          PROVE  \E f \in comments : f.id = e.id /\ e.replies = f.replies + (IF e.id = p THEN 1 ELSE 0)
      <4>1. CASE e = d BY <3>2, <3>4, <4>1
      <4>2. CASE e # d BY <3>3, <3>4, <3>6, <4>2
      <4> QED BY <4>1, <4>2
    <3> QED BY <3>6, <3>7
  <2> QED BY <2>1, <2>2
<1>7. ASSUME ~ stray PROVE ShownBooks'
  <2>1. ShownBooks BY <1>7 DEF SocialInv
  <2>2. N(Posting)' = N(Posting) /\ N(Hiding)' = N(Hiding) /\ N(Posting) \in Nat /\ N(Hiding) \in Nat
    BY <1>1, <1>2, <1>4, CommentCounts
  <2> QED BY <1>1, <1>6, <2>1, <2>2 DEF ShownBooks
<1>8. ASSUME ~ stray, NEW c \in comments'
      PROVE  c.replies + N(Answering(c.id))' = N(Replies(c.id))' + N(Retracting(c.id))'
  <2>1. PICK d \in comments : d.id = c.id /\ c.replies = d.replies + (IF c.id = p THEN 1 ELSE 0)
    BY <1>6
  <2>2. PICK q : q = c.id OBVIOUS
  <2>3. /\ N(Answering(q))' = N(Answering(q)) - (IF q = p THEN 1 ELSE 0)
        /\ N(Retracting(q))' = N(Retracting(q))
        /\ N(Answering(q)) \in Nat /\ N(Retracting(q)) \in Nat
    BY <1>1, <1>2, <1>3, <1>4, ReplyCounts
  <2>4. N(Replies(q)) \in Nat /\ d.replies \in Int
    BY <1>2, DocumentNats DEF SocialTypes, Posts
  <2>5. d.replies + N(Answering(q)) = N(Replies(q)) + N(Retracting(q))
    BY <1>8, <2>1, <2>2 DEF SocialInv, ReplyBooks
  <2>6. N(Replies(q))' = N(Replies(q)) BY <1>6
  <2> QED BY <2>1, <2>2, <2>3, <2>4, <2>5, <2>6
<1>9. ~ stray' => ~ stray /\ ShownBooks' /\ ReplyBooks' BY <1>1, <1>7, <1>8 DEF ReplyBooks
<1>10. Sane(rec)' BY <1>4 DEF Sane
<1> QED BY <1>1, <1>2, <1>4, <1>5, <1>6, <1>9, <1>10, CommentsChange

LEMMA UncountReplyKeeps ==
    ASSUME SocialInv, NEW r \in Reactors, UncountReply(r) PROVE SocialInv'
<1>1. /\ social[r].pc = "unreply"
      /\ Goes(r, Deleting("unshow", social[r].id, social[r].parent, social[r].soft))
      /\ UNCHANGED <<lastId, shown, reactionVars, follows, rewardVars, told, stray>>
  BY DEF UncountReply, On
<1>2. SocialTypes /\ lastId \in Nat /\ told \in Nat /\ shown \in Int /\ stray \in BOOLEAN
  BY SocialNats
<1>3. PICK p \in Nat : p = social[r].parent /\ p <= lastId BY <1>1, <1>2, HandlerKeeps DEF Sane
<1>4. PICK rec \in Handlers : Goes(r, rec) /\ rec.pc = "unshow" /\ rec.parent = p
  BY <1>1, <1>2, <1>3, HandlerKeeps, DeletingIs
<1>5. /\ CommentTypes'
      /\ \A c \in comments' : \E d \in comments : d.id = c.id /\ d.parent = c.parent
      /\ N(Visible)' = N(Visible) /\ \A q : N(Replies(q))' = N(Replies(q))
      /\ \A c \in comments' : \E d \in comments :
           d.id = c.id /\ c.replies = d.replies - (IF c.id = p THEN 1 ELSE 0)
  <2>1. CASE ~ Known(p)
    <3>1. UNCHANGED comments BY <1>3, <2>1 DEF UncountReply
    <3>2. CommentTypes' BY <1>1, <1>2, <3>1 DEF CommentTypes, SocialTypes
    <3>3. \A c \in comments : c.id # p /\ c.replies \in Int BY <1>2, <2>1 DEF Known, SocialTypes, Posts
    <3>4. N(Visible)' = N(Visible) /\ \A q : N(Replies(q))' = N(Replies(q))
      BY <3>1 DEF Visible, Replies
    <3> QED BY <3>1, <3>2, <3>3, <3>4
  <2>2. CASE Known(p)
    <3>1. comments' = Alter(p, [Comment(p) EXCEPT !.replies = @ - 1]) BY <1>3, <2>2 DEF UncountReply
    <3>2. PICK c \in comments : c = Comment(p) /\ c.id = p BY <1>2, <2>2, CommentIs
    <3>3. c \in Posts /\ \A e \in comments : e.replies \in Int BY <1>2 DEF SocialTypes, Posts
    <3>4. PICK d \in Posts : /\ d = [c EXCEPT !.replies = @ - 1]
                             /\ d.id = p /\ d.parent = c.parent /\ d.deleted = c.deleted
                             /\ d.replies = c.replies - 1
      <4>1. c = [id |-> c.id, parent |-> c.parent, by |-> c.by, replies |-> c.replies,
                 deleted |-> c.deleted]
            /\ c.id \in Nat /\ c.parent \in Nat /\ c.by \in Users /\ c.replies \in Int
            /\ c.deleted \in BOOLEAN
        BY <3>3 DEF Posts
      <4>2. PICK d : d = [c EXCEPT !.replies = @ - 1] OBVIOUS
      <4>3. d = [id |-> c.id, parent |-> c.parent, by |-> c.by, replies |-> c.replies - 1,
                 deleted |-> c.deleted]
        BY <4>1, <4>2
      <4>4. d \in Posts BY <4>1, <4>3 DEF Posts
      <4> QED BY <3>2, <4>1, <4>2, <4>3, <4>4
    <3>5. comments' = Alter(c.id, d) BY <3>1, <3>2, <3>4
    <3>6. /\ CommentTypes'
          /\ \A e \in comments' : \E f \in comments : f.id = e.id /\ f.parent = e.parent
          /\ \A e \in comments' : e = d \/ (e \in comments /\ e.id # d.id)
          /\ N(Visible)' = N(Visible) /\ \A q : N(Replies(q))' = N(Replies(q))
      <4>1. d.id = c.id /\ d.parent = c.parent /\ d.deleted = c.deleted /\ UNCHANGED lastId
        BY <1>1, <3>2, <3>4
      <4> QED BY <1>2, <3>5, <4>1, AlterIs
    <3>7. ASSUME NEW e \in comments'
          PROVE  \E f \in comments : f.id = e.id /\ e.replies = f.replies - (IF e.id = p THEN 1 ELSE 0)
      <4>1. CASE e = d BY <3>2, <3>4, <4>1
      <4>2. CASE e # d BY <3>3, <3>4, <3>6, <4>2
      <4> QED BY <4>1, <4>2
    <3> QED BY <3>6, <3>7
  <2> QED BY <2>1, <2>2
<1>6. ASSUME ~ stray PROVE ShownBooks'
  <2>1. ShownBooks BY <1>6 DEF SocialInv
  <2>2. N(Posting)' = N(Posting) /\ N(Hiding)' = N(Hiding) /\ N(Posting) \in Nat /\ N(Hiding) \in Nat
    BY <1>1, <1>2, <1>4, CommentCounts
  <2> QED BY <1>1, <1>5, <2>1, <2>2 DEF ShownBooks
<1>7. ASSUME ~ stray, NEW c \in comments'
      PROVE  c.replies + N(Answering(c.id))' = N(Replies(c.id))' + N(Retracting(c.id))'
  <2>1. PICK d \in comments : d.id = c.id /\ c.replies = d.replies - (IF c.id = p THEN 1 ELSE 0)
    BY <1>5
  <2>2. PICK q : q = c.id OBVIOUS
  <2>3. /\ N(Answering(q))' = N(Answering(q))
        /\ N(Retracting(q))' = N(Retracting(q)) - (IF q = p THEN 1 ELSE 0)
        /\ N(Answering(q)) \in Nat /\ N(Retracting(q)) \in Nat
    BY <1>1, <1>2, <1>3, <1>4, ReplyCounts
  <2>4. N(Replies(q)) \in Nat /\ d.replies \in Int
    BY <1>2, DocumentNats DEF SocialTypes, Posts
  <2>5. d.replies + N(Answering(q)) = N(Replies(q)) + N(Retracting(q))
    BY <1>7, <2>1, <2>2 DEF SocialInv, ReplyBooks
  <2>6. N(Replies(q))' = N(Replies(q)) BY <1>5
  <2> QED BY <2>1, <2>2, <2>3, <2>4, <2>5, <2>6
<1>8. ~ stray' => ~ stray /\ ShownBooks' /\ ReplyBooks' BY <1>1, <1>6, <1>7 DEF ReplyBooks
<1>9. Sane(rec)' BY <1>1, <1>3, <1>4 DEF Sane
<1> QED BY <1>1, <1>2, <1>4, <1>5, <1>8, <1>9, CommentsChange

LEMMA UncountCommentKeeps ==
    ASSUME SocialInv, NEW r \in Reactors, UncountComment(r) PROVE SocialInv'
<1>1. /\ social[r].pc = "unshow" /\ shown' = shown - 1 /\ Goes(r, Rest)
      /\ UNCHANGED <<comments, lastId, reactionVars, follows, rewardVars, told, stray>>
  BY DEF UncountComment, On
<1>2. SocialTypes /\ lastId \in Nat /\ told \in Nat /\ shown \in Int /\ stray \in BOOLEAN
  BY SocialNats
<1>3. PICK rec \in Handlers : Goes(r, rec) /\ rec.pc = "idle" BY <1>1, RestIs
<1>4. CommentTypes' BY <1>1, <1>2 DEF CommentTypes, SocialTypes
<1>5. ASSUME ~ stray PROVE ShownBooks'
  <2>1. ShownBooks BY <1>5 DEF SocialInv
  <2>2. N(Posting)' = N(Posting) /\ N(Hiding)' = N(Hiding) - 1 /\ N(Posting) \in Nat /\ N(Hiding) \in Nat
    BY <1>1, <1>2, <1>3, CommentCounts
  <2>3. N(Visible) \in Nat /\ N(Visible)' = N(Visible) BY <1>1, <1>2, DocumentNats DEF Visible
  <2> QED BY <1>1, <1>2, <2>1, <2>2, <2>3 DEF ShownBooks
<1>6. ASSUME ~ stray, NEW c \in comments
      PROVE  c.replies + N(Answering(c.id))' = N(Replies(c.id))' + N(Retracting(c.id))'
  <2>1. N(Answering(c.id))' = N(Answering(c.id)) /\ N(Retracting(c.id))' = N(Retracting(c.id))
    BY <1>1, <1>2, <1>3, ReplyCounts
  <2>2. N(Replies(c.id))' = N(Replies(c.id)) BY <1>1 DEF Replies
  <2> QED BY <1>6, <2>1, <2>2 DEF SocialInv, ReplyBooks
<1>7. ~ stray' => ~ stray /\ ShownBooks' /\ ReplyBooks' BY <1>1, <1>5, <1>6 DEF ReplyBooks
<1>8. Sane(rec)' BY <1>3 DEF Sane
<1> QED BY <1>1, <1>2, <1>3, <1>4, <1>7, <1>8, CommentsChange

LEMMA RemoveCommentKeeps ==
    ASSUME SocialInv, NEW r \in Reactors, RemoveComment(r) PROVE SocialInv'
<1>1. /\ social[r].pc = "remove"
      /\ stray' = (stray \/ ~ Known(social[r].id) \/ (Known(social[r].id) /\ Comment(social[r].id).deleted))
      /\ Goes(r, Deleting(IF ~ social[r].soft /\ social[r].parent # 0 THEN "unreply" ELSE "unshow",
                          social[r].id, social[r].parent, social[r].soft))
      /\ UNCHANGED <<lastId, shown, reactionVars, follows, rewardVars, told>>
  BY DEF RemoveComment, On
<1>2. SocialTypes /\ lastId \in Nat /\ told \in Nat /\ shown \in Int /\ stray \in BOOLEAN
  BY SocialNats
<1>3. PICK i \in Nat, p \in Nat, soft \in BOOLEAN :
         /\ i = social[r].id /\ p = social[r].parent /\ soft = social[r].soft
         /\ p <= lastId /\ \A c \in comments : c.id = i => c.parent = p
  BY <1>1, <1>2, HandlerKeeps DEF Sane
<1>4. /\ ~ stray' => ~ stray /\ Known(i) /\ ~ Comment(i).deleted
      /\ stray' \in BOOLEAN
  BY <1>1, <1>2, <1>3
<1>5. PICK rec \in Handlers : /\ Goes(r, rec) /\ rec.parent = p
                              /\ rec.pc = IF ~ soft /\ p # 0 THEN "unreply" ELSE "unshow"
  <2>1. CASE ~ soft /\ p # 0 BY <1>1, <1>3, <2>1, DeletingIs
  <2>2. CASE ~ (~ soft /\ p # 0) BY <1>1, <1>3, <2>2, DeletingIs
  <2> QED BY <2>1, <2>2
<1>6. /\ IsFiniteSet(comments) /\ comments \in SUBSET Posts
      /\ \A c \in comments : c.id \in 1 .. lastId /\ c.parent < c.id
      /\ \A c, e \in comments : c.id = e.id => c = e
  BY <1>2 DEF SocialTypes
<1>7. /\ CommentTypes'
      /\ \A c \in comments' : \E d \in comments : d.id = c.id /\ d.parent = c.parent /\ d.replies = c.replies
      /\ ~ stray' => /\ N(Visible)' = N(Visible) - 1
                     /\ \A q : N(Replies(q))' = N(Replies(q)) - (IF ~ soft /\ q = p THEN 1 ELSE 0)
  <2>1. CASE soft /\ Known(i)
    <3>1. comments' = Alter(i, [Comment(i) EXCEPT !.deleted = TRUE]) BY <1>3, <2>1 DEF RemoveComment
    <3>2. PICK c \in comments : c = Comment(i) /\ c.id = i BY <1>2, <2>1, CommentIs
    <3>3. c \in Posts BY <1>6
    <3>4. PICK d \in Posts : /\ d = [c EXCEPT !.deleted = TRUE]
                             /\ d.id = i /\ d.parent = c.parent /\ d.deleted
                             /\ d.replies = c.replies
      <4>1. c = [id |-> c.id, parent |-> c.parent, by |-> c.by, replies |-> c.replies,
                 deleted |-> c.deleted]
            /\ c.id \in Nat /\ c.parent \in Nat /\ c.by \in Users /\ c.replies \in Int
        BY <3>3 DEF Posts
      <4>2. PICK d : d = [c EXCEPT !.deleted = TRUE] OBVIOUS
      <4>3. d = [id |-> c.id, parent |-> c.parent, by |-> c.by, replies |-> c.replies,
                 deleted |-> TRUE]
        BY <4>1, <4>2
      <4>4. d \in Posts BY <4>1, <4>3 DEF Posts
      <4> QED BY <3>2, <4>1, <4>2, <4>3, <4>4
    <3>5. comments' = Alter(c.id, d) BY <3>1, <3>2, <3>4
    <3>6. d.id = c.id /\ d.parent = c.parent /\ UNCHANGED lastId BY <1>1, <3>2, <3>4
    <3>7. /\ CommentTypes'
          /\ \A e \in comments' : e = d \/ (e \in comments /\ e.id # d.id)
          /\ \A q : N(Replies(q))' = N(Replies(q))
          /\ d.deleted /\ ~ c.deleted => N(Visible)' = N(Visible) - 1
      BY <1>2, <3>5, <3>6, AlterIs
    <3>8. \A e \in comments' : \E f \in comments : f.id = e.id /\ f.parent = e.parent /\ f.replies = e.replies
      BY <3>4, <3>6, <3>7
    <3>9. \A q : N(Replies(q)) \in Nat BY <1>2, DocumentNats
    <3>10. ~ stray' => ~ c.deleted BY <1>4, <3>2
    <3>11. ~ stray' => N(Visible)' = N(Visible) - 1 BY <3>4, <3>7, <3>10
    <3>12. \A q : N(Replies(q))' = N(Replies(q)) - (IF ~ soft /\ q = p THEN 1 ELSE 0)
      BY <2>1, <3>7, <3>9
    <3> QED BY <3>7, <3>8, <3>11, <3>12
  <2>2. CASE ~ (soft /\ Known(i))
    <3>1. comments' = {c \in comments : c.id # i} BY <1>3, <2>2 DEF RemoveComment
    <3>2. CommentTypes'
      <4>1. IsFiniteSet(comments') BY <1>6, <3>1, FS_Subset
      <4> QED BY <1>1, <1>6, <3>1, <4>1 DEF CommentTypes
    <3>3. \A c \in comments' : \E d \in comments : d.id = c.id /\ d.parent = c.parent /\ d.replies = c.replies
      BY <3>1
    <3>4. ASSUME ~ stray'
          PROVE  /\ N(Visible)' = N(Visible) - 1
                 /\ \A q : N(Replies(q))' = N(Replies(q)) - (IF ~ soft /\ q = p THEN 1 ELSE 0)
      <4>1. Known(i) /\ ~ soft /\ ~ Comment(i).deleted BY <1>4, <2>2, <3>4
      <4>2. PICK c \in comments : c = Comment(i) /\ c.id = i /\ ~ c.deleted /\ c.parent = p
        BY <1>2, <1>3, <4>1, CommentIs
      <4>3. comments' = comments \ {c} BY <1>6, <3>1, <4>2
      <4>4. N(Visible)' = N(Visible) - 1
        <5>1. c \in Visible /\ Visible' = Visible \ {c} BY <4>2, <4>3 DEF Visible
        <5>2. IsFiniteSet(Visible) BY <1>6, FS_Subset DEF Visible
        <5> QED BY <5>1, <5>2, FS_RemoveElement DEF N
      <4>5. ASSUME NEW q PROVE N(Replies(q))' = N(Replies(q)) - (IF ~ soft /\ q = p THEN 1 ELSE 0)
        <5>1. CASE q = p
          <6>1. c \in Replies(q) /\ Replies(q)' = Replies(q) \ {c} BY <4>2, <4>3, <5>1 DEF Replies
          <6>2. IsFiniteSet(Replies(q)) BY <1>6, FS_Subset DEF Replies
          <6>3. Cardinality(Replies(q) \ {c}) = Cardinality(Replies(q)) - 1
            BY <6>1, <6>2, FS_RemoveElement
          <6> QED BY <4>1, <5>1, <6>1, <6>3 DEF N
        <5>2. CASE q # p
          <6>1. Replies(q)' = Replies(q) BY <4>2, <4>3, <5>2 DEF Replies
          <6>2. N(Replies(q)) \in Nat BY <1>2, DocumentNats
          <6> QED BY <5>2, <6>1, <6>2 DEF N
        <5> QED BY <5>1, <5>2
      <4> QED BY <4>4, <4>5
    <3> QED BY <3>2, <3>3, <3>4
  <2> QED BY <2>1, <2>2
<1>8. ASSUME ~ stray' PROVE ShownBooks'
  <2>1. ShownBooks BY <1>4, <1>8 DEF SocialInv
  <2>2. N(Posting)' = N(Posting) /\ N(Hiding)' = N(Hiding) + 1 /\ N(Posting) \in Nat /\ N(Hiding) \in Nat
    BY <1>1, <1>2, <1>5, CommentCounts
  <2>3. N(Visible) \in Nat BY <1>2, DocumentNats
  <2>4. N(Visible)' = N(Visible) - 1 BY <1>7, <1>8
  <2> QED BY <1>1, <1>2, <2>1, <2>2, <2>3, <2>4 DEF ShownBooks
<1>9. ASSUME ~ stray', NEW c \in comments'
      PROVE  c.replies + N(Answering(c.id))' = N(Replies(c.id))' + N(Retracting(c.id))'
  <2>1. PICK d \in comments : d.id = c.id /\ c.replies = d.replies BY <1>7
  <2>2. PICK q : q = c.id OBVIOUS
  <2>3. q # 0 BY <1>6, <2>1, <2>2
  <2>4. /\ N(Answering(q))' = N(Answering(q))
        /\ N(Retracting(q))' = N(Retracting(q)) + (IF ~ soft /\ q = p THEN 1 ELSE 0)
        /\ N(Answering(q)) \in Nat /\ N(Retracting(q)) \in Nat
    BY <1>1, <1>2, <1>5, <2>3, ReplyCounts
  <2>5. N(Replies(q)) \in Nat /\ d.replies \in Int
    BY <1>2, DocumentNats DEF SocialTypes, Posts
  <2>6. d.replies + N(Answering(q)) = N(Replies(q)) + N(Retracting(q))
    BY <1>4, <1>9, <2>1, <2>2 DEF SocialInv, ReplyBooks
  <2>7. N(Replies(q))' = N(Replies(q)) - (IF ~ soft /\ q = p THEN 1 ELSE 0) BY <1>7, <1>9
  <2> QED BY <2>1, <2>2, <2>4, <2>5, <2>6, <2>7
<1>10. ~ stray' => ~ stray /\ ShownBooks' /\ ReplyBooks' BY <1>4, <1>8, <1>9 DEF ReplyBooks
<1>11. Sane(rec)' BY <1>1, <1>3, <1>5 DEF Sane
<1>12. \A c \in comments' : \E d \in comments : d.id = c.id /\ d.parent = c.parent BY <1>7
<1> QED BY <1>1, <1>2, <1>4, <1>5, <1>7, <1>10, <1>11, <1>12, CommentsChange

---------------------------------------------------------------------------
(* Steps on the reactions.                                                  *)

LEMMA ReactionsChange ==
    ASSUME SocialInv, NEW r \in Reactors, NEW rec \in Handlers, Goes(r, rec), Sane(rec),
           {social[r].pc, rec.pc} \intersect {"shown", "reply", "unreply", "unshow", "points"} = {},
           UNCHANGED <<commentVars, rewardVars, follows, told>>, stray' \in BOOLEAN,
           reaction' \in [Users -> Kinds], tally' \in [ReactionTypes -> Int], total' \in Int,
           ~ stray' => ~ stray /\ TallyBooks' /\ TotalBooks'
    PROVE  SocialInv'
<1>1. SocialTypes'
  <2>1. SocialTypes BY DEF SocialInv
  <2>2. Sane(rec)' BY DEF Sane, commentVars
  <2>3. \A c \in comments' : \E d \in comments : d.id = c.id /\ d.parent = c.parent
    BY DEF commentVars
  <2>4. /\ lastId' \in Nat /\ lastId <= lastId'
        /\ shown' \in Int /\ told' \in Nat
        /\ comments' \in SUBSET Posts /\ IsFiniteSet(comments')
        /\ \A c \in comments' : c.id \in 1 .. lastId' /\ c.parent < c.id
        /\ \A c, d \in comments' : c.id = d.id => c = d
    BY <2>1 DEF SocialTypes, commentVars
  <2>5. /\ diary' \in [Users -> Seq(Actions)] /\ points' \in [Users -> Int]
        /\ follows' \in SUBSET (Users \X Users)
    BY <2>1 DEF SocialTypes, rewardVars
  <2> QED BY <2>1, <2>2, <2>3, <2>4, <2>5, TypesKeep
<1>2. ASSUME ~ stray' PROVE (ShownBooks /\ ReplyBooks /\ TallyBooks /\ TotalBooks /\ PointBooks)'
  <2>1. ShownBooks /\ ReplyBooks /\ TallyBooks' /\ TotalBooks' /\ PointBooks /\ SocialTypes
    BY <1>2 DEF SocialInv
  <2>2. /\ social[r].pc \notin {"shown", "reply", "unreply", "unshow"}
        /\ rec.pc \notin {"shown", "reply", "unreply", "unshow"}
        /\ social[r].pc # "points" /\ rec.pc # "points"
    OBVIOUS
  <2> QED BY <2>1, <2>2, CommentRest, PointRest
<1> QED BY <1>1, <1>2 DEF SocialInv

\* One user's document changes.
LEMMA ReactionIs ==
    ASSUME SocialTypes, NEW u \in Users, NEW old \in Kinds, NEW new \in Kinds, old = reaction[u],
           reaction' = [reaction EXCEPT ![u] = new]
    PROVE  /\ reaction' \in [Users -> Kinds]
           /\ \A t : N(Chosen(t))' = N(Chosen(t)) + (IF new = t THEN 1 ELSE 0) - (IF old = t THEN 1 ELSE 0)
           /\ N(Reacting)' = N(Reacting) + (IF new # "none" THEN 1 ELSE 0) - (IF old # "none" THEN 1 ELSE 0)
<1>1. /\ reaction' \in [Users -> Kinds]
      /\ \A v \in Users : reaction'[v] = IF v = u THEN new ELSE reaction[v]
  BY DEF SocialTypes
<1>2. IsFiniteSet(Users) BY SocialAssumption
<1>3. ASSUME NEW A \in SUBSET Users, NEW B \in SUBSET Users, A \ {u} = B \ {u}
      PROVE  N(B) = N(A) + (IF u \in B THEN 1 ELSE 0) - (IF u \in A THEN 1 ELSE 0)
  <2>1. /\ Cardinality(A) \in Nat /\ Cardinality(B) \in Nat
        /\ Cardinality(B) = Cardinality(A)
              + (IF u \in B /\ u \notin A THEN 1 ELSE IF u \in A /\ u \notin B THEN -1 ELSE 0)
    BY <1>2, <1>3, OneChanges
  <2> QED BY <2>1 DEF N
<1>4. ASSUME NEW t
      PROVE  N(Chosen(t))' = N(Chosen(t)) + (IF new = t THEN 1 ELSE 0) - (IF old = t THEN 1 ELSE 0)
  <2> DEFINE C == Chosen(t)
  <2>1. /\ C \in SUBSET Users /\ C' \in SUBSET Users /\ C \ {u} = C' \ {u}
        /\ u \in C <=> old = t
        /\ u \in C' <=> new = t
    BY <1>1 DEF Chosen
  <2>2. N(C)' = N(C') BY DEF N
  <2> HIDE DEF C
  <2>3. N(C') = N(C) + (IF u \in C' THEN 1 ELSE 0) - (IF u \in C THEN 1 ELSE 0) BY <1>3, <2>1
  <2>4. N(C') = N(C) + (IF new = t THEN 1 ELSE 0) - (IF old = t THEN 1 ELSE 0) BY <2>1, <2>3
  <2> QED BY <2>2, <2>4 DEF C
<1>5. /\ Reacting \in SUBSET Users /\ Reacting' \in SUBSET Users /\ Reacting \ {u} = Reacting' \ {u}
      /\ u \in Reacting <=> old # "none"
      /\ u \in Reacting' <=> new # "none"
  BY <1>1 DEF Reacting
<1>6. N(Reacting)' = N(Reacting') BY DEF N
<1>7. N(Reacting') = N(Reacting) + (IF u \in Reacting' THEN 1 ELSE 0) - (IF u \in Reacting THEN 1 ELSE 0)
  BY <1>3, <1>5
<1> QED BY <1>1, <1>4, <1>5, <1>6, <1>7

\* A document changes and the handler knows what it was and what it is now.
LEMMA Reacts ==
    ASSUME SocialInv, NEW r \in Reactors, NEW u \in Users, NEW old \in Kinds, NEW new \in Kinds,
           social[r].pc \in {"idle", "react", "unreact", "retype"},
           Goes(r, Switching("adjust", u, old, new)),
           UNCHANGED <<commentVars, tally, total, rewardVars, follows, told>>, stray' \in BOOLEAN,
           \/ stray' /\ reaction' \in [Users -> Kinds]
           \/ ~ stray' /\ ~ stray /\ old = reaction[u] /\ reaction' = [reaction EXCEPT ![u] = new]
    PROVE  SocialInv'
<1>1. PICK rec \in Handlers : /\ rec = Switching("adjust", u, old, new)
                              /\ rec.pc = "adjust" /\ rec.old = old /\ rec.new = new
  BY SwitchingIs
<1>2. Goes(r, rec) /\ Sane(rec) BY <1>1 DEF Sane
<1>3. SocialTypes /\ tally \in [ReactionTypes -> Int] /\ total \in Int BY DEF SocialInv, SocialTypes
<1>4. reaction' \in [Users -> Kinds] BY <1>3 DEF SocialTypes
<1>5. ASSUME ~ stray' PROVE TallyBooks' /\ TotalBooks'
  <2>1. TallyBooks /\ TotalBooks BY <1>5 DEF SocialInv
  <2>2. /\ \A t : N(Chosen(t))' = N(Chosen(t)) + (IF new = t THEN 1 ELSE 0) - (IF old = t THEN 1 ELSE 0)
        /\ N(Reacting)' = N(Reacting) + (IF new # "none" THEN 1 ELSE 0) - (IF old # "none" THEN 1 ELSE 0)
    BY <1>3, <1>5, ReactionIs
  <2>3. ASSUME NEW t
        PROVE  /\ N(Gaining(t)) \in Nat /\ N(Losing(t)) \in Nat
               /\ N(Gaining(t))' = N(Gaining(t)) + (IF new = t THEN 1 ELSE 0)
               /\ N(Losing(t))' = N(Losing(t)) + (IF old = t THEN 1 ELSE 0)
    BY <1>1, <1>2, <1>3, TallyCounts
  <2>4. (\A t : N(Chosen(t)) \in Nat) /\ N(Reacting) \in Nat BY <1>3, DocumentNats
  <2>5. ASSUME NEW t \in ReactionTypes
        PROVE  tally'[t] + N(Gaining(t))' = N(Chosen(t))' + N(Losing(t))'
    <3>1. tally'[t] = tally[t] /\ tally[t] \in Int BY <1>3
    <3>2. tally[t] + N(Gaining(t)) = N(Chosen(t)) + N(Losing(t)) BY <2>1 DEF TallyBooks
    <3>3. N(Chosen(t))' = N(Chosen(t)) + (IF new = t THEN 1 ELSE 0) - (IF old = t THEN 1 ELSE 0)
      BY <2>2
    <3>4. N(Chosen(t)) \in Nat BY <2>4
    <3> QED BY <2>3, <3>1, <3>2, <3>3, <3>4
  <2>6. TotalBooks'
    <3>1. total + N(Losing("none")) = N(Reacting) + N(Gaining("none")) BY <2>1 DEF TotalBooks
    <3>2. total' = total OBVIOUS
    <3>3. total' + N(Losing("none"))' = N(Reacting)' + N(Gaining("none"))'
      BY <1>3, <2>2, <2>3, <2>4, <3>1, <3>2
    <3> QED BY <3>3 DEF TotalBooks
  <2> QED BY <2>5, <2>6 DEF TallyBooks
<1>6. tally' \in [ReactionTypes -> Int] /\ total' \in Int BY <1>3
<1> QED BY <1>1, <1>2, <1>4, <1>5, <1>6, ReactionsChange

LEMMA RemoveReactionKeeps ==
    ASSUME SocialInv, NEW r \in Reactors, NEW u \in Users, RemoveReaction(r, u) PROVE SocialInv'
<1>1. /\ social[r].pc = "idle" /\ reaction' = [reaction EXCEPT ![u] = "none"]
      /\ Goes(r, Switching("adjust", u, reaction[u], "none"))
      /\ UNCHANGED <<commentVars, tally, total, follows, rewardVars, told, stray>>
  BY DEF RemoveReaction, Ready
<1>2. PICK old \in Kinds : old = reaction[u] BY DEF SocialInv, SocialTypes
<1>3. "none" \in Kinds BY DEF Kinds
<1>4. reaction' \in [Users -> Kinds] /\ stray' \in BOOLEAN
  BY <1>1, <1>3 DEF SocialInv, SocialTypes
<1> QED BY <1>1, <1>2, <1>3, <1>4, Reacts

LEMMA UnreactKeeps ==
    ASSUME SocialInv, NEW r \in Reactors, Unreact(r) PROVE SocialInv'
<1>1. /\ social[r].pc = "unreact"
      /\ stray' = (stray \/ reaction[social[r].by] # social[r].old)
      /\ reaction' = [reaction EXCEPT ![social[r].by] = "none"]
      /\ Goes(r, Switching("adjust", social[r].by, social[r].old, "none"))
      /\ UNCHANGED <<commentVars, tally, total, follows, rewardVars, told>>
  BY DEF Unreact, On
<1>2. PICK u \in Users, old \in Kinds : u = social[r].by /\ old = social[r].old
  BY <1>1, HandlerKeeps DEF SocialInv
<1>3. "none" \in Kinds BY DEF Kinds
<1>4. reaction' \in [Users -> Kinds] /\ stray' \in BOOLEAN
  BY <1>1, <1>3 DEF SocialInv, SocialTypes
<1>5. \/ stray' /\ reaction' \in [Users -> Kinds]
      \/ ~ stray' /\ ~ stray /\ old = reaction[u] /\ reaction' = [reaction EXCEPT ![u] = "none"]
  BY <1>1, <1>2, <1>4
<1> QED BY <1>1, <1>2, <1>3, <1>4, <1>5, Reacts

LEMMA RetypeKeeps ==
    ASSUME SocialInv, NEW r \in Reactors, Retype(r) PROVE SocialInv'
<1>1. /\ social[r].pc = "retype"
      /\ stray' = (stray \/ reaction[social[r].by] # social[r].old)
      /\ reaction' = [reaction EXCEPT ![social[r].by] = IF @ = "none" THEN "none" ELSE social[r].new]
      /\ Goes(r, Switching("adjust", social[r].by, social[r].old, social[r].new))
      /\ UNCHANGED <<commentVars, tally, total, follows, rewardVars, told>>
  BY DEF Retype, On
<1>2. PICK u \in Users, old \in Kinds, new \in Kinds :
         /\ u = social[r].by /\ old = social[r].old /\ new = social[r].new
         /\ old # "none"
  BY <1>1, HandlerKeeps, SocialAssumption DEF SocialInv, Sane
<1>3. "none" \in Kinds BY DEF Kinds
<1>4. reaction' \in [Users -> Kinds] /\ stray' \in BOOLEAN
  BY <1>1, <1>2, <1>3 DEF SocialInv, SocialTypes
<1>5. \/ stray' /\ reaction' \in [Users -> Kinds]
      \/ ~ stray' /\ ~ stray /\ old = reaction[u] /\ reaction' = [reaction EXCEPT ![u] = new]
  BY <1>1, <1>2, <1>4
<1> QED BY <1>1, <1>2, <1>4, <1>5, Reacts

LEMMA ReactKeeps ==
    ASSUME SocialInv, NEW r \in Reactors, React(r) PROVE SocialInv'
<1>1. /\ social[r].pc = "react"
      /\ UNCHANGED <<commentVars, tally, total, follows, rewardVars, told, stray>>
  BY DEF React, On
<1>2. SocialTypes /\ stray \in BOOLEAN /\ told \in Nat /\ follows \in SUBSET (Users \X Users)
  BY SocialNats
<1>3. PICK u \in Users, new \in Kinds : u = social[r].by /\ new = social[r].new
  BY <1>1, <1>2, HandlerKeeps
<1>4. CASE reaction[u] # "none"
  <2>1. Goes(r, Rest) /\ UNCHANGED reaction BY <1>3, <1>4 DEF React
  <2>2. PICK rec \in Handlers : rec = Rest /\ rec.pc = "idle" BY RestIs
  <2>3. Goes(r, rec) /\ Sane(rec) BY <2>1, <2>2 DEF Sane
  <2>4. UNCHANGED reactionVars BY <1>1, <2>1 DEF reactionVars
  <2> QED BY <1>1, <1>2, <2>2, <2>3, <2>4, HandlerRests
<1>5. CASE reaction[u] = "none"
  <2>1. /\ reaction' = [reaction EXCEPT ![u] = new]
        /\ Goes(r, Switching("adjust", u, "none", new))
    BY <1>3, <1>5 DEF React
  <2>2. "none" \in Kinds BY DEF Kinds
  <2>3. reaction' \in [Users -> Kinds] BY <1>2, <2>1 DEF SocialTypes
  <2> QED BY <1>1, <1>2, <1>5, <2>1, <2>2, <2>3, Reacts
<1> QED BY <1>4, <1>5

LEMMA AdjustTallyKeeps ==
    ASSUME SocialInv, NEW r \in Reactors, AdjustTally(r) PROVE SocialInv'
<1>1. SocialTypes /\ stray \in BOOLEAN /\ told \in Nat /\ total \in Int
      /\ tally \in [ReactionTypes -> Int] /\ reaction \in [Users -> Kinds]
  BY DEF SocialInv, SocialTypes
<1>2. social[r].pc = "adjust" /\ UNCHANGED <<commentVars, reaction, follows, rewardVars, told, stray>>
  BY DEF AdjustTally, On
<1>3. PICK u \in Users, old \in Kinds, new \in Kinds :
         u = social[r].by /\ old = social[r].old /\ new = social[r].new
  BY <1>1, <1>2, HandlerKeeps
<1>4. /\ tally' = [t \in ReactionTypes |->
                      tally[t] + ((IF t = new THEN 1 ELSE 0) - (IF t = old THEN 1 ELSE 0))]
      /\ total' = total - ((IF "none" = new THEN 1 ELSE 0) - (IF "none" = old THEN 1 ELSE 0))
      /\ Goes(r, IF old = "none" THEN Rewarding("enter", u, "REACT") ELSE Rest)
  BY <1>3 DEF AdjustTally
<1>5. PICK rec \in Handlers : Goes(r, rec) /\ rec.pc \in {"enter", "idle"}
  <2>1. "REACT" \in Actions BY DEF Actions
  <2>2. CASE old = "none" BY <1>4, <2>1, <2>2, RewardingIs
  <2>3. CASE old # "none" BY <1>4, <2>3, RestIs
  <2> QED BY <2>2, <2>3
<1>6. Sane(rec) BY <1>5 DEF Sane
<1>7. tally' \in [ReactionTypes -> Int] /\ total' \in Int BY <1>1, <1>4
<1>8. ASSUME ~ stray PROVE TallyBooks' /\ TotalBooks'
  <2>1. TallyBooks /\ TotalBooks BY <1>8 DEF SocialInv
  <2>2. ASSUME NEW t
        PROVE  /\ N(Gaining(t)) \in Nat /\ N(Losing(t)) \in Nat
               /\ N(Gaining(t))' = N(Gaining(t)) - (IF new = t THEN 1 ELSE 0)
               /\ N(Losing(t))' = N(Losing(t)) - (IF old = t THEN 1 ELSE 0)
    BY <1>1, <1>2, <1>3, <1>5, TallyCounts
  <2>3. N(Reacting)' = N(Reacting) /\ \A t : N(Chosen(t))' = N(Chosen(t))
    BY <1>2 DEF Reacting, Chosen
  <2>4. (\A t : N(Chosen(t)) \in Nat) /\ N(Reacting) \in Nat BY <1>1, DocumentNats
  <2>5. ASSUME NEW t \in ReactionTypes
        PROVE  tally'[t] + N(Gaining(t))' = N(Chosen(t))' + N(Losing(t))'
    <3>1. /\ tally'[t] = tally[t] + ((IF t = new THEN 1 ELSE 0) - (IF t = old THEN 1 ELSE 0))
          /\ tally[t] \in Int
      BY <1>1, <1>4
    <3>2. tally[t] + N(Gaining(t)) = N(Chosen(t)) + N(Losing(t)) BY <2>1 DEF TallyBooks
    <3>3. N(Chosen(t))' = N(Chosen(t)) BY <2>3
    <3>4. N(Chosen(t)) \in Nat BY <2>4
    <3> QED BY <2>2, <3>1, <3>2, <3>3, <3>4
  <2>6. TotalBooks'
    <3>1. total + N(Losing("none")) = N(Reacting) + N(Gaining("none")) BY <2>1 DEF TotalBooks
    <3>2. total' + N(Losing("none"))' = N(Reacting)' + N(Gaining("none"))'
      BY <1>1, <1>4, <2>2, <2>3, <2>4, <3>1
    <3> QED BY <3>2 DEF TotalBooks
  <2> QED BY <2>5, <2>6 DEF TallyBooks
<1>9. reaction' \in [Users -> Kinds] /\ stray' \in BOOLEAN BY <1>1, <1>2
<1> QED BY <1>2, <1>5, <1>6, <1>7, <1>8, <1>9, ReactionsChange

---------------------------------------------------------------------------
(* Steps on the rewards.                                                    *)

LEMMA RewardsChange ==
    ASSUME SocialInv, NEW r \in Reactors, NEW rec \in Handlers, Goes(r, rec), Sane(rec),
           {social[r].pc, rec.pc} \intersect {"shown", "reply", "unreply", "unshow", "adjust"} = {},
           UNCHANGED <<commentVars, reactionVars, follows, told, stray>>,
           diary' \in [Users -> Seq(Actions)], points' \in [Users -> Int],
           ~ stray => PointBooks'
    PROVE  SocialInv'
<1>1. SocialTypes'
  <2>1. SocialTypes BY DEF SocialInv
  <2>2. Sane(rec)' BY DEF Sane, commentVars
  <2>3. \A c \in comments' : \E d \in comments : d.id = c.id /\ d.parent = c.parent
    BY DEF commentVars
  <2>4. /\ lastId' \in Nat /\ lastId <= lastId'
        /\ shown' \in Int /\ told' \in Nat /\ total' \in Int /\ stray' \in BOOLEAN
        /\ comments' \in SUBSET Posts /\ IsFiniteSet(comments')
        /\ \A c \in comments' : c.id \in 1 .. lastId' /\ c.parent < c.id
        /\ \A c, d \in comments' : c.id = d.id => c = d
    BY <2>1 DEF SocialTypes, commentVars, reactionVars
  <2>5. /\ reaction' \in [Users -> Kinds] /\ tally' \in [ReactionTypes -> Int]
        /\ follows' \in SUBSET (Users \X Users)
    BY <2>1 DEF SocialTypes, reactionVars
  <2> QED BY <2>1, <2>2, <2>3, <2>4, <2>5, TypesKeep
<1>2. ASSUME ~ stray' PROVE (ShownBooks /\ ReplyBooks /\ TallyBooks /\ TotalBooks /\ PointBooks)'
  <2>1. ShownBooks /\ ReplyBooks /\ TallyBooks /\ TotalBooks /\ PointBooks' /\ SocialTypes
    BY <1>2 DEF SocialInv
  <2>2. /\ social[r].pc \notin {"shown", "reply", "unreply", "unshow"}
        /\ rec.pc \notin {"shown", "reply", "unreply", "unshow"}
        /\ social[r].pc # "adjust" /\ rec.pc # "adjust"
    OBVIOUS
  <2> QED BY <2>1, <2>2, CommentRest, TallyRest
<1> QED BY <1>1, <1>2 DEF SocialInv

LEMMA EarnedIs ==
    \A u : Earned(u) = 10 * Times(u, "DAILY_LOGIN") + 2 * Times(u, "READ_NEWS") + 1 * Times(u, "REACT")
<1>1. RewardPoints.DAILY_LOGIN = 10 /\ RewardPoints.READ_NEWS = 2 /\ RewardPoints.REACT = 1
  BY DEF RewardPoints
<1> QED BY <1>1 DEF Earned

LEMMA EnterRewardKeeps ==
    ASSUME SocialInv, NEW r \in Reactors, EnterReward(r) PROVE SocialInv'
<1>1. /\ social[r].pc = "enter"
      /\ diary' = [diary EXCEPT ![social[r].by] = Append(@, social[r].action)]
      /\ Goes(r, Rewarding("points", social[r].by, social[r].action))
      /\ UNCHANGED <<commentVars, reactionVars, follows, points, told, stray>>
  BY DEF EnterReward, On
<1>2. SocialTypes /\ diary \in [Users -> Seq(Actions)] /\ points \in [Users -> Int]
  BY DEF SocialInv, SocialTypes
<1>3. PICK u \in Users, a \in Actions : u = social[r].by /\ a = social[r].action
  BY <1>1, <1>2, HandlerKeeps
<1>4. PICK rec \in Handlers : /\ rec = Rewarding("points", u, a)
                              /\ rec.pc = "points" /\ rec.by = u /\ rec.action = a
  BY RewardingIs
<1>5. Goes(r, rec) /\ Sane(rec) BY <1>1, <1>3, <1>4 DEF Sane
<1>6. diary' = [diary EXCEPT ![u] = Append(diary[u], a)] BY <1>1, <1>3
<1> DEFINE S == Seq(Actions)
<1>7. Append(diary[u], a) \in S BY <1>2, AppendProperties
<1>8. diary \in [Users -> S] BY <1>2
<1> HIDE DEF S
<1>9. /\ diary' \in [Users -> S]
      /\ \A v \in Users : diary'[v] = IF v = u THEN Append(diary[u], a) ELSE diary[v]
  BY <1>6, <1>7, <1>8
<1> USE DEF S
<1>10. ASSUME NEW v \in Users, NEW b
       PROVE  /\ Times(v, b) \in Nat
              /\ Times(v, b)' = Times(v, b) + (IF v = u /\ b = a THEN 1 ELSE 0)
  <2>1. diary[v] \in Seq(Actions) BY <1>2
  <2>2. Times(v, b) = Occurs(diary[v], b) /\ Occurs(diary[v], b) \in Nat
    BY <2>1, OccursNat DEF Times, Occurs
  <2>3. Times(v, b)' = Occurs(diary'[v], b) BY DEF Times, Occurs
  <2>4. CASE v = u
    <3>1. diary'[v] = Append(diary[v], a) BY <1>9, <2>4
    <3>2. Occurs(Append(diary[v], a), b) = Occurs(diary[v], b) + One(a, b)
      <4> HIDE DEF S
      <4> QED BY <2>1, OccursAppend
    <3> QED BY <2>2, <2>3, <2>4, <3>1, <3>2 DEF One
  <2>5. CASE v # u BY <1>9, <2>2, <2>3, <2>5
  <2> QED BY <2>4, <2>5
<1>11. ASSUME ~ stray, NEW v \in Users PROVE points'[v] + Due(v)' = Earned(v)'
  <2>1. points[v] + Due(v) = Earned(v) /\ points'[v] = points[v] /\ points[v] \in Int
    BY <1>1, <1>2, <1>11 DEF SocialInv, PointBooks
  <2>2. ASSUME NEW b
        PROVE  /\ N(Paying(v, b)) \in Nat
               /\ N(Paying(v, b))' = N(Paying(v, b)) + (IF v = u /\ b = a THEN 1 ELSE 0)
    BY <1>1, <1>2, <1>4, <1>5, PointCounts
  <2>3. Due(v)' = 10 * N(Paying(v, "DAILY_LOGIN"))' + 2 * N(Paying(v, "READ_NEWS"))'
                     + N(Paying(v, "REACT"))'
    BY DEF Due
  <2>4. Earned(v)' = 10 * Times(v, "DAILY_LOGIN")' + 2 * Times(v, "READ_NEWS")'
                        + 1 * Times(v, "REACT")'
    <3>1. RewardPoints.DAILY_LOGIN = 10 /\ RewardPoints.READ_NEWS = 2 /\ RewardPoints.REACT = 1
      BY DEF RewardPoints
    <3> QED BY <3>1 DEF Earned
  <2>5. a \in {"DAILY_LOGIN", "READ_NEWS", "REACT"} BY DEF Actions
  <2> QED BY <1>10, <2>1, <2>2, <2>3, <2>4, <2>5, EarnedIs DEF Due
<1> QED BY <1>1, <1>2, <1>4, <1>5, <1>9, <1>11, RewardsChange DEF PointBooks

LEMMA AddPointsKeeps ==
    ASSUME SocialInv, NEW r \in Reactors, AddPoints(r) PROVE SocialInv'
<1>1. /\ social[r].pc = "points" /\ Goes(r, Rest)
      /\ points' = [points EXCEPT ![social[r].by] = @ + RewardPoints[social[r].action]]
      /\ UNCHANGED <<commentVars, reactionVars, follows, diary, told, stray>>
  BY DEF AddPoints, On
<1>2. SocialTypes /\ diary \in [Users -> Seq(Actions)] /\ points \in [Users -> Int]
  BY DEF SocialInv, SocialTypes
<1>3. PICK u \in Users, a \in Actions : u = social[r].by /\ a = social[r].action
  BY <1>1, <1>2, HandlerKeeps
<1>4. PICK rec \in Handlers : rec = Rest /\ rec.pc = "idle" BY RestIs
<1>5. Goes(r, rec) /\ Sane(rec) BY <1>1, <1>4 DEF Sane
<1>6. PICK gain \in Int : /\ gain = RewardPoints[a]
                          /\ a = "DAILY_LOGIN" => gain = 10
                          /\ a = "READ_NEWS" => gain = 2
                          /\ a = "REACT" => gain = 1
  BY DEF RewardPoints, Actions
<1>7. /\ points' \in [Users -> Int]
      /\ \A v \in Users : points'[v] = IF v = u THEN points[v] + gain ELSE points[v]
  BY <1>1, <1>2, <1>3, <1>6
<1>8. ASSUME ~ stray, NEW v \in Users PROVE points'[v] + Due(v)' = Earned(v)'
  <2>1. points[v] + Due(v) = Earned(v) /\ points[v] \in Int
    BY <1>1, <1>2, <1>8 DEF SocialInv, PointBooks
  <2>2. ASSUME NEW b
        PROVE  /\ N(Paying(v, b)) \in Nat
               /\ N(Paying(v, b))' = N(Paying(v, b)) - (IF v = u /\ b = a THEN 1 ELSE 0)
    BY <1>1, <1>2, <1>3, <1>4, <1>5, PointCounts
  <2>3. Due(v)' = 10 * N(Paying(v, "DAILY_LOGIN"))' + 2 * N(Paying(v, "READ_NEWS"))'
                     + N(Paying(v, "REACT"))'
    BY DEF Due
  <2>4. Earned(v)' = Earned(v) BY <1>1 DEF Earned, Times
  <2>5. a \in {"DAILY_LOGIN", "READ_NEWS", "REACT"} BY DEF Actions
  <2>6. Due(v)' = Due(v) - (IF v = u THEN gain ELSE 0) /\ Due(v) \in Int
    BY <1>6, <2>2, <2>3, <2>5 DEF Due
  <2>7. points'[v] = points[v] + (IF v = u THEN gain ELSE 0) BY <1>7, <2>1
  <2> QED BY <1>6, <2>1, <2>4, <2>6, <2>7
<1> QED BY <1>1, <1>2, <1>4, <1>5, <1>7, <1>8, RewardsChange DEF PointBooks

LEMMA UnfollowKeeps ==
    ASSUME SocialInv, NEW u \in Users, NEW v \in Users, Unfollow(u, v) PROVE SocialInv'
<1>1. /\ follows' = follows \ {<<u, v>>}
      /\ UNCHANGED <<commentVars, reactionVars, social, rewardVars, told, stray>>
  BY DEF Unfollow
<1> QED BY <1>1, SocialNats, FollowsChange

---------------------------------------------------------------------------
(* Every state.                                                             *)

LEMMA SocialFrame == ASSUME SocialInv, UNCHANGED socialVars PROVE SocialInv'
  BY SocialNats, FollowsChange DEF socialVars, commentVars, reactionVars, rewardVars

LEMMA SocialSteps == ASSUME SocialInv, SocialNext PROVE SocialInv'
<1>1. ASSUME NEW r \in Reactors,
             \/ \E u \in Users : \/ \E p \in 0 .. lastId : AddComment(r, u, p)
                                 \/ \E t \in ReactionTypes : Toggle(r, u, t)
                                 \/ RemoveReaction(r, u)
                                 \/ \E a \in {"DAILY_LOGIN", "READ_NEWS"} : Claim(r, u, a)
                                 \/ \E v \in Users : FollowUser(r, u, v)
             \/ \E id \in 1 .. lastId : DeleteComment(r, id)
             \/ CreateComment(r) \/ CountComment(r) \/ CountReply(r) \/ RemoveComment(r)
             \/ UncountReply(r) \/ UncountComment(r)
      PROVE  SocialInv'
  BY <1>1, AddCommentKeeps, ToggleKeeps, RemoveReactionKeeps, ClaimKeeps, FollowUserKeeps,
     DeleteCommentKeeps, CreateCommentKeeps, CountCommentKeeps, CountReplyKeeps,
     RemoveCommentKeeps, UncountReplyKeeps, UncountCommentKeeps
<1>2. ASSUME NEW r \in Reactors,
             \/ React(r) \/ Unreact(r) \/ Retype(r) \/ AdjustTally(r)
             \/ EnterReward(r) \/ AddPoints(r) \/ Upsert(r) \/ HandlerDies(r)
      PROVE  SocialInv'
  BY <1>2, ReactKeeps, UnreactKeeps, RetypeKeeps, AdjustTallyKeeps, EnterRewardKeeps,
     AddPointsKeeps, UpsertKeeps, HandlerDiesKeeps
<1>3. ASSUME NEW u \in Users, NEW v \in Users, Unfollow(u, v) PROVE SocialInv'
  BY <1>3, UnfollowKeeps
<1> HIDE DEF SocialInv
<1> QED BY <1>1, <1>2, <1>3 DEF SocialNext

LEMMA SocialStart == ASSUME SocialInit PROVE SocialInv
<1>1. /\ comments = {} /\ lastId = 0 /\ shown = 0 /\ total = 0 /\ follows = {} /\ told = 0
      /\ stray = FALSE /\ reaction = [u \in Users |-> "none"]
      /\ tally = [t \in ReactionTypes |-> 0] /\ social = [r \in Reactors |-> Rest]
      /\ diary = [u \in Users |-> <<>>] /\ points = [u \in Users |-> 0]
  BY DEF SocialInit
<1>2. PICK rec \in Handlers : rec = Rest /\ rec.pc = "idle" BY RestIs
<1>3. \A r \in Reactors : social[r] = rec BY <1>1, <1>2
<1>4. SocialTypes
  <2>1. social \in [Reactors -> Handlers] BY <1>1, <1>2
  <2>2. \A r \in Reactors : Sane(social[r]) BY <1>2, <1>3 DEF Sane
  <2>3. diary \in [Users -> Seq(Actions)]
    <3>1. <<>> \in Seq(Actions) OBVIOUS
    <3> QED BY <1>1, <3>1
  <2>4. reaction \in [Users -> Kinds] /\ tally \in [ReactionTypes -> Int] /\ points \in [Users -> Int]
    BY <1>1 DEF Kinds
  <2>5. /\ IsFiniteSet(comments) /\ comments \in SUBSET Posts
        /\ \A c \in comments : c.id \in 1 .. lastId /\ c.parent < c.id
        /\ \A c, d \in comments : c.id = d.id => c = d
    BY <1>1, FS_EmptySet
  <2>6. /\ lastId \in Nat /\ shown \in Int /\ told \in Nat /\ stray \in BOOLEAN /\ total \in Int
        /\ follows \subseteq (Users \X Users)
    <3>1. lastId \in Nat /\ shown \in Int /\ told \in Nat /\ total \in Int BY <1>1
    <3>2. stray \in BOOLEAN BY <1>1
    <3>3. follows \subseteq (Users \X Users) BY <1>1
    <3> QED BY <3>1, <3>2, <3>3
  <2> QED BY <2>1, <2>2, <2>3, <2>4, <2>5, <2>6 DEF SocialTypes
<1>5. N({}) = 0 BY FS_EmptySet DEF N
<1>6. /\ Posting = {} /\ Hiding = {} /\ \A t : Gaining(t) = {} /\ Losing(t) = {}
  BY <1>2, <1>3 DEF Posting, Hiding, Gaining, Losing
<1>7. \A u, a : Paying(u, a) = {} BY <1>2, <1>3 DEF Paying
<1>8. Visible = {} /\ Reacting = {} BY <1>1 DEF Visible, Reacting
<1>9. ShownBooks /\ TotalBooks BY <1>1, <1>5, <1>6, <1>8 DEF ShownBooks, TotalBooks
<1>10. ReplyBooks BY <1>1 DEF ReplyBooks
<1>11. \A t \in ReactionTypes : Chosen(t) = {} BY <1>1, SocialAssumption DEF Chosen
<1>12. TallyBooks BY <1>1, <1>5, <1>6, <1>11 DEF TallyBooks
<1>13. ASSUME NEW u \in Users PROVE points[u] + Due(u) = Earned(u)
  <2>1. Due(u) = 0
    <3>1. \A a : N(Paying(u, a)) = 0 BY <1>5, <1>7
    <3> QED BY <3>1 DEF Due
  <2>2. diary[u] = <<>> BY <1>1
  <2>3. \A a : Times(u, a) = Occurs(<<>>, a) BY <2>2 DEF Times, Occurs
  <2>4. \A a : Times(u, a) = 0 BY <2>3, OccursNowhere
  <2>5. Earned(u) = 0 BY <2>4, EarnedIs
  <2> QED BY <1>1, <2>1, <2>5
<1> QED BY <1>4, <1>9, <1>10, <1>12, <1>13 DEF SocialInv, PointBooks

LEMMA SocialMeaning == ASSUME SocialInv PROVE CountersMatchDocuments /\ SocialTypeOK
<1>1. ASSUME \A r \in Reactors : Ready(r), ~ stray
      PROVE  /\ shown = Cardinality({c \in comments : ~ c.deleted})
             /\ \A c \in comments : c.replies = Cardinality({d \in comments : d.parent = c.id})
             /\ \A t \in ReactionTypes : tally[t] = Cardinality({u \in Users : reaction[u] = t})
             /\ total = Cardinality({u \in Users : reaction[u] # "none"})
             /\ \A u \in Users : points[u] = Earned(u)
  <2>1. \A r \in Reactors : social[r].pc = "idle" BY <1>1 DEF Ready
  <2>2. N({}) = 0 BY FS_EmptySet DEF N
  <2>3. /\ Posting = {} /\ Hiding = {} /\ \A t : Gaining(t) = {} /\ Losing(t) = {}
    BY <2>1 DEF Posting, Hiding, Gaining, Losing
  <2>14. \A t : N(Gaining(t)) = 0 /\ N(Losing(t)) = 0 BY <2>2, <2>3
  <2>4. \A p : Answering(p) = {} /\ Retracting(p) = {} BY <2>1 DEF Answering, Retracting
  <2>5. \A u, a : Paying(u, a) = {} BY <2>1 DEF Paying
  <2>6. SocialTypes /\ ShownBooks /\ ReplyBooks /\ TallyBooks /\ TotalBooks /\ PointBooks
    BY <1>1 DEF SocialInv
  <2>7. /\ shown \in Int /\ total \in Int /\ tally \in [ReactionTypes -> Int]
        /\ points \in [Users -> Int] /\ \A c \in comments : c.replies \in Int
    BY <2>6 DEF SocialTypes, Posts
  <2>8. /\ N(Visible) \in Nat /\ (\A p : N(Replies(p)) \in Nat)
        /\ (\A t : N(Chosen(t)) \in Nat) /\ N(Reacting) \in Nat
    BY <2>6, DocumentNats
  <2>9. shown = N(Visible) BY <2>2, <2>3, <2>6, <2>7, <2>8 DEF ShownBooks
  <2>10. \A c \in comments : c.replies = N(Replies(c.id))
    BY <2>2, <2>4, <2>6, <2>7, <2>8 DEF ReplyBooks
  <2>11. \A t \in ReactionTypes : tally[t] = N(Chosen(t))
    BY <2>6, <2>7, <2>8, <2>14 DEF TallyBooks
  <2>12. total = N(Reacting) BY <2>6, <2>7, <2>8, <2>14 DEF TotalBooks
  <2>13. \A u \in Users : points[u] = Earned(u)
    <3>1. \A u \in Users : Due(u) = 0
      <4>1. \A u, a : N(Paying(u, a)) = 0 BY <2>2, <2>5
      <4> QED BY <4>1 DEF Due
    <3> QED BY <2>6, <2>7, <3>1 DEF PointBooks
  <2> QED BY <2>9, <2>10, <2>11, <2>12, <2>13 DEF N, Visible, Replies, Chosen, Reacting
<1>2. CountersMatchDocuments BY <1>1 DEF CountersMatchDocuments
<1>3. SocialTypeOK
  <2>1. \A c \in comments : c.id \in 1 .. lastId /\ c.parent \in 0 .. lastId /\ c.replies \in Int
    BY DEF SocialInv, SocialTypes, Posts
  <2> QED BY <2>1 DEF SocialTypeOK, SocialInv, SocialTypes, Kinds
<1> QED BY <1>2, <1>3

---------------------------------------------------------------------------
(* The budget of stimuli the components share.                              *)

Thrifty == stimuli' = stimuli \/ Spend(1)

LEMMA BudgetKept == ASSUME BudgetOK, Thrifty PROVE BudgetOK'
  BY BudgetAssumption DEF BudgetOK, Thrifty, Spend

LEMMA StreamSpends == ASSUME StreamNext PROVE Thrifty
<1> USE DEF Thrifty
<1>1. ASSUME NEW w \in StreamWorkers, WorkerStep(w) PROVE Thrifty
  <2>1. CASE Read(w) \/ \E ids \in SUBSET pending : Reclaim(w, ids) BY <2>1 DEF Read, Reclaim
  <2>2. CASE CheckFeature(w) \/ DeadLetter(w) \/ DeadLetterFails(w)
    BY <2>2 DEF CheckFeature, DeadLetter, DeadLetterFails
  <2>3. CASE FindPrefs(w) \/ MakePrefs(w) \/ Throttle(w) \/ SetWindow(w) \/ Dedupe(w)
    BY <2>3 DEF FindPrefs, MakePrefs, Throttle, SetWindow, Dedupe, Swallow
  <2>4. CASE NextSeq(w) \/ Create(w) \/ CountUnread(w)
    BY <2>4 DEF NextSeq, Create, CountUnread, Swallow
  <2>5. CASE Ack(w) \/ StreamCrash(w) BY <2>5 DEF Ack, StreamCrash
  <2> QED BY <1>1, <2>1, <2>2, <2>3, <2>4, <2>5 DEF WorkerStep
<1>2. ASSUME NEW c \in Calls, CallStep(c) PROVE Thrifty
  <2>1. CASE MarkRead(c) \/ MarkAllRead(c) \/ SoftDelete(c) \/ List(c) \/ CallDies(c)
    BY <2>1 DEF MarkRead, MarkAllRead, SoftDelete, List, CallDies
  <2>2. CASE DeleteIt(c) \/ Decrement(c) \/ Zero(c) \/ Compare(c) \/ CountDocs(c) \/ SetUnread(c)
    BY <2>2 DEF DeleteIt, Decrement, Zero, Compare, CountDocs, SetUnread
  <2> QED BY <1>2, <2>1, <2>2 DEF CallStep
<1> QED BY <1>1, <1>2 DEF StreamNext, Publish, PatchPrefs, WindowEnds

LEMMA EventSpends == ASSUME EventNext PROVE Thrifty
<1> USE DEF Thrifty
<1>1. ASSUME NEW a \in Actors, Exists(a) \/ Refuse(a) \/ Persist(a) \/ Die(a) PROVE Thrifty
  BY <1>1 DEF Exists, Refuse, Persist, Die
<1>2. ASSUME NEW a \in Actors, NEW applied \in BOOLEAN, PersistFails(a, applied) PROVE Thrifty
  BY <1>2 DEF PersistFails
<1>3. ASSUME NEW r \in Requests, NEW e \in Events, Track(r, e) \/ Emit(r, e) PROVE Thrifty
  BY <1>3 DEF Track, Emit
<1>4. ASSUME NEW r \in Requests, Push(r) PROVE Thrifty
  BY <1>4 DEF Push
<1>5. ASSUME NEW w \in EventWorkers, Pop(w) \/ DeadLetterEvent(w) PROVE Thrifty
  BY <1>5 DEF Pop, DeadLetterEvent
<1>6. ASSUME NEW e \in Events, Bridge(e) PROVE Thrifty
  BY <1>6 DEF Bridge
<1>7. ASSUME NEW dry \in BOOLEAN, NEW dies \in BOOLEAN, ReplayPop(dry, dies) PROVE Thrifty
  BY <1>7 DEF ReplayPop
<1>8. ASSUME ReplayPush PROVE Thrifty
  BY <1>8 DEF ReplayPush
<1>9. ASSUME NEW name, FlipSwitch(name) PROVE Thrifty
  BY <1>9 DEF FlipSwitch
<1> QED BY <1>1, <1>2, <1>3, <1>4, <1>5, <1>6, <1>7, <1>8, <1>9 DEF EventNext

LEMMA SocialSpends == ASSUME SocialNext PROVE Thrifty
<1> USE DEF Thrifty
<1>1. ASSUME NEW r \in Reactors, NEW u \in Users,
             \/ \E p \in 0 .. lastId : AddComment(r, u, p)
             \/ \E t \in ReactionTypes : Toggle(r, u, t)
             \/ RemoveReaction(r, u)
             \/ \E a \in {"DAILY_LOGIN", "READ_NEWS"} : Claim(r, u, a)
             \/ \E v \in Users : FollowUser(r, u, v)
      PROVE  Thrifty
  BY <1>1 DEF AddComment, Toggle, RemoveReaction, Claim, FollowUser
<1>2. ASSUME NEW r \in Reactors, \/ \E id \in 1 .. lastId : DeleteComment(r, id)
                                 \/ HandlerDies(r)
      PROVE  Thrifty
  BY <1>2 DEF DeleteComment, HandlerDies
<1>3. ASSUME NEW r \in Reactors,
             CreateComment(r) \/ CountComment(r) \/ CountReply(r) \/ RemoveComment(r)
             \/ UncountReply(r) \/ UncountComment(r)
      PROVE  Thrifty
  BY <1>3 DEF CreateComment, CountComment, CountReply, RemoveComment, UncountReply, UncountComment
<1>4. ASSUME NEW r \in Reactors,
             React(r) \/ Unreact(r) \/ Retype(r) \/ AdjustTally(r)
             \/ EnterReward(r) \/ AddPoints(r) \/ Upsert(r)
      PROVE  Thrifty
  BY <1>4 DEF React, Unreact, Retype, AdjustTally, EnterReward, AddPoints, Upsert
<1>5. ASSUME NEW u \in Users, NEW v \in Users, Unfollow(u, v) PROVE Thrifty
  BY <1>5 DEF Unfollow
<1> QED BY <1>1, <1>2, <1>3, <1>4, <1>5 DEF SocialNext

LEMMA RealtimeSpends == ASSUME RealtimeNext PROVE Thrifty
<1> USE DEF Thrifty
<1>1. ASSUME NEW w \in Sockets, Connect(w) \/ PortfolioUnsubscribe(w) \/ CloseEvent(w) \/ IdleClose(w)
      PROVE  Thrifty
  BY <1>1 DEF Connect, PortfolioUnsubscribe, CloseEvent, IdleClose, Live
<1>2. ASSUME NEW w \in Sockets, NEW u \in Owners, Authenticate(w, u) PROVE Thrifty
  BY <1>2 DEF Authenticate
<1>3. ASSUME NEW w \in Sockets, NEW req, PortfolioSubscribe(w, req) PROVE Thrifty
  BY <1>3 DEF PortfolioSubscribe
<1>4. ASSUME NEW w \in Sockets, NEW syms, Subscribe(w, syms) PROVE Thrifty
  BY <1>4 DEF Subscribe
<1>5. ASSUME NEW t \in tasks, FinishBind(t) \/ Load(t) \/ Store(t) \/ HandleSubscribe(t) \/ RejectSubscribe(t)
      PROVE  Thrifty
  BY <1>5 DEF FinishBind, Load, Store, HandleSubscribe, RejectSubscribe
<1>6. ASSUME NEW s \in Symbols, NEW n \in {1, -1}, HIncrBy(s, n) PROVE Thrifty
  BY <1>6 DEF HIncrBy
<1>7. ASSUME NEW u \in Owners, \/ Disconnect(u) \/ EntryExpires(u)
                               \/ \E a \in Addresses : AddWallet(u, a) \/ RemoveWallet(u, a)
      PROVE  Thrifty
  BY <1>7 DEF Disconnect, EntryExpires, AddWallet, RemoveWallet
<1> QED BY <1>1, <1>2, <1>3, <1>4, <1>5, <1>6, <1>7 DEF RealtimeNext, RealtimeCrash

---------------------------------------------------------------------------
(* The whole: one component steps, the others rest.                         *)

Engaged == BudgetOK /\ StreamInv /\ EventsInv /\ SocialInv /\ RealtimeInv

LEMMA EngagedStarts == Init => Engaged
<1> SUFFICES ASSUME Init PROVE Engaged
  OBVIOUS
<1>1. BudgetOK BY BudgetAssumption DEF Init, BudgetOK
<1> QED BY <1>1, StreamStart, EventsStart, SocialStart, RealtimeStart DEF Init, Engaged

LEMMA EngagedSteps == Engaged /\ [Next]_vars => Engaged'
<1> SUFFICES ASSUME Engaged, [Next]_vars PROVE Engaged'
  OBVIOUS
<1>0. BudgetOK /\ StreamInv /\ EventsInv /\ SocialInv /\ RealtimeInv BY DEF Engaged
<1>1. Thrifty
  BY StreamSpends, EventSpends, SocialSpends, RealtimeSpends DEF Next, vars, Thrifty
<1>2. BudgetOK' BY <1>0, <1>1, BudgetKept
<1>3. stimuli' \in Nat BY <1>2, BudgetAssumption DEF BudgetOK
<1>4. StreamInv'
  <2>1. CASE UNCHANGED streamVars BY <1>0, <1>3, <2>1, StreamFrame
  <2>2. CASE StreamNext BY <1>0, <2>2, StreamSteps
  <2> QED BY <2>1, <2>2 DEF Next, vars
<1>5. EventsInv'
  <2>1. CASE UNCHANGED queueVars BY <1>0, <2>1, EventsFrame
  <2>2. CASE EventNext BY <1>0, <2>2, EventsSteps
  <2> QED BY <2>1, <2>2 DEF Next, vars
<1>6. RealtimeInv'
  <2>1. CASE UNCHANGED realtimeVars BY <1>0, <1>3, <2>1, RealtimeFrame
  <2>2. CASE RealtimeNext BY <1>0, <2>2, RealtimeSteps
  <2> QED BY <2>1, <2>2 DEF Next, vars
<1>7. SocialInv'
  <2>1. CASE UNCHANGED socialVars BY <1>0, <2>1, SocialFrame
  <2>2. CASE SocialNext BY <1>0, <2>2, SocialSteps
  <2> QED BY <2>1, <2>2 DEF Next, vars
<1> QED BY <1>2, <1>4, <1>5, <1>6, <1>7 DEF Engaged

LEMMA AlwaysEngaged == Spec => []Engaged
  BY EngagedStarts, EngagedSteps, PTL DEF Spec

\* Every value the components keep stays within its type.
THEOREM EngagementTypes == Spec => []TypeOK
<1>1. Engaged => TypeOK
  BY StreamMeaning, EventsMeaning, SocialMeaning, RealtimeMeaning DEF Engaged, TypeOK
<1> QED BY <1>1, AlwaysEngaged, PTL

\* Every copy of an analytics event is queued, held, dead-lettered or recorded, unless a
\* fault destroyed it, and there is more than one only where a failed call took effect.
THEOREM EventsStayConserved == Spec => []EventsAreConserved
<1>1. Engaged => EventsAreConserved BY EventsMeaning DEF Engaged
<1> QED BY <1>1, AlwaysEngaged, PTL

\* However many workers process an entry of the notification stream and its duplicates,
\* one dedupe hash has one notification.
THEOREM NoticesAreSingle == Spec => []OneNoticePerHash
<1>1. Engaged => OneNoticePerHash BY StreamMeaning DEF Engaged
<1> QED BY <1>1, AlwaysEngaged, PTL

\* An entry the consumer group acknowledged became a notification or a duplicate of one,
\* was declined or dead-lettered, or is paid for by a fault of a worker.
THEOREM LossesHaveFaults == Spec => []LossesArePaidFor
<1>1. Engaged => LossesArePaidFor BY StreamMeaning DEF Engaged
<1> QED BY <1>1, AlwaysEngaged, PTL

\* The unread counter is the number of unread documents whenever nothing counts and no two
\* counting operations have overlapped or been cut short.
THEOREM BadgeStaysRight == Spec => []BadgeAgrees
<1>1. Engaged => BadgeAgrees BY StreamMeaning DEF Engaged
<1> QED BY <1>1, AlwaysEngaged, PTL

\* Notices and portfolio messages reach only sockets bound to their user, wallets are shown
\* only to sockets of a user who owned them, and symbol references add up.
THEOREM SocketsAreSound == Spec => []SubscriptionsAreSound
<1>1. Engaged => SubscriptionsAreSound BY RealtimeMeaning DEF Engaged
<1> QED BY <1>1, AlwaysEngaged, PTL

\* Whatever the order in which handlers write documents and adjust counters, once none is
\* in flight every counter is what the documents add up to - unless a handler died halfway
\* or its write missed what it had read.
THEOREM CountersStayTrue == Spec => []CountersMatchDocuments
<1>1. Engaged => CountersMatchDocuments BY SocialMeaning DEF Engaged
<1> QED BY <1>1, AlwaysEngaged, PTL
=============================================================================
