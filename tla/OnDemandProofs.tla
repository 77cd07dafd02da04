--------------------------- MODULE OnDemandProofs ---------------------------
(***************************************************************************)
(* The parts of OnDemand, proved for any number of tabs, requests, events, *)
(* relays' answers and attestations: one inductive invariant for each part *)
(* and the properties that follow from it.                                 *)
(***************************************************************************)
EXTENDS OnDemand, CatalogLemmas

\* A step of the whole is one of a part, and leaves every other part alone.
LEMMA PartsStep ==
  ASSUME [Next]_vars
  PROVE  /\ SessionNext \/ UNCHANGED sessionVars
         /\ EndorsementNext \/ UNCHANGED endorsementVars
         /\ ProfileNext \/ UNCHANGED profileVars
         /\ CheckNext \/ UNCHANGED checkVars
         /\ CommandNext \/ UNCHANGED commandVars
BY DEF Next, vars

-----------------------------------------------------------------------------
(* The session *)

LoaderStates == [pc : {"idle", "sent", "answered"}, token : {NoToken, 1}]

TabStates == [open : BOOLEAN, token : {NoToken, 1}, loader : [Loaders -> LoaderStates]]

\* A browser that has the cookie keeps it: every request carries it, every answer
\* gives it back, so that a page whose loader is done has no other token.
SessionInvariant ==
  /\ cookie = 1 /\ minted = 1
  /\ tab \in [Tabs -> TabStates]
  /\ \A t \in Tabs, l \in Loaders :
       tab[t].loader[l].pc # "idle" => tab[t].loader[l].token = 1

\* A loader of a tab goes on, and the tab has the token it had, or the cookie's.
LEMMA LoaderMoves ==
  ASSUME SessionInvariant, NEW t \in Tabs, NEW l \in Loaders,
         NEW state \in LoaderStates, NEW token,
         GoesOn(t, l, state, token),
         cookie' = cookie, minted' = minted,
         state.pc = "idle" \/ state.token = 1,
         token \in {tab[t].token, 1}
  PROVE  SessionInvariant'
<1> DEFINE loader == [tab[t].loader EXCEPT ![l] = state]
           s == [open |-> tab[t].open, token |-> token, loader |-> loader]
<1>1. tab[t] \in TabStates
  BY DEF SessionInvariant
<1>2. /\ loader \in [Loaders -> LoaderStates]
      /\ loader[l] = state /\ \A k \in Loaders : k # l => loader[k] = tab[t].loader[k]
  BY <1>1 DEF TabStates
<1> HIDE DEF loader
<1>3. s \in TabStates
  BY <1>1, <1>2 DEF TabStates
<1>4. \A k \in Loaders : s.loader[k].pc # "idle" => s.loader[k].token = 1
  <2> SUFFICES ASSUME NEW k \in Loaders, loader[k].pc # "idle" PROVE loader[k].token = 1
    OBVIOUS
  <2>1. CASE k = l
    BY <1>2, <2>1
  <2>2. CASE k # l
    BY <1>2, <2>2 DEF SessionInvariant
  <2> QED
    BY <2>1, <2>2
<1>5. tab' = [tab EXCEPT ![t] = s]
  BY DEF loader, GoesOn
<1> HIDE DEF s
<1> QED
  BY <1>3, <1>4, <1>5 DEF SessionInvariant

LEMMA SessionStep ==
  ASSUME SessionInvariant, SessionNext \/ UNCHANGED sessionVars
  PROVE  SessionInvariant'
<1>1. CASE UNCHANGED sessionVars
  BY <1>1 DEF SessionInvariant, sessionVars
<1>2. ASSUME NEW t \in Tabs, OpenPage(t) PROVE SessionInvariant'
  <2> DEFINE s == [open |-> TRUE, token |-> NoToken, loader |-> [l \in Loaders |-> Sent]]
  <2>1. Sent = [pc |-> "sent", token |-> 1]
    BY DEF Sent, SessionInvariant
  <2>2. s \in TabStates /\ \A l \in Loaders : s.loader[l] = Sent
    BY <2>1 DEF TabStates, LoaderStates, NoToken
  <2>3. tab' = [tab EXCEPT ![t] = s] /\ cookie' = cookie /\ minted' = minted
    BY <1>2 DEF OpenPage
  <2> HIDE DEF s
  <2> QED
    BY <2>1, <2>2, <2>3 DEF SessionInvariant
<1>3. ASSUME NEW t \in Tabs, NEW l \in Loaders, Reload(t, l) PROVE SessionInvariant'
  <2>1. Sent \in LoaderStates /\ Sent.token = 1 /\ Sent.pc # "idle"
    BY DEF Sent, SessionInvariant, LoaderStates
  <2>2. GoesOn(t, l, Sent, tab[t].token) /\ cookie' = cookie /\ minted' = minted
    BY <1>3 DEF Reload
  <2> QED
    BY <2>1, <2>2, LoaderMoves
<1>4. ASSUME NEW t \in Tabs, NEW l \in Loaders, Answer(t, l) PROVE SessionInvariant'
  <2> DEFINE state == [pc |-> "answered", token |-> 1]
  <2>1. IssueCSRFToken(tab[t].loader[l].token) = 1
    BY <1>4 DEF Answer, IssueCSRFToken, SessionInvariant, NoToken
  <2>2. GoesOn(t, l, state, tab[t].token) /\ cookie' = cookie /\ minted' = minted
    BY <1>4, <2>1 DEF Answer, SessionInvariant
  <2>3. state \in LoaderStates /\ state.token = 1 /\ state.pc # "idle"
    BY DEF LoaderStates
  <2> HIDE DEF state
  <2> QED
    BY <2>2, <2>3, LoaderMoves
<1>5. ASSUME NEW t \in Tabs, NEW l \in Loaders, StoreToken(t, l) PROVE SessionInvariant'
  <2>1. tab[t].loader[l].token = 1
    BY <1>5 DEF StoreToken, SessionInvariant
  <2>2. GoesOn(t, l, IdleLoader, 1) /\ cookie' = cookie /\ minted' = minted
    BY <1>5, <2>1 DEF StoreToken
  <2>3. IdleLoader \in LoaderStates /\ IdleLoader.pc = "idle"
    BY DEF IdleLoader, LoaderStates
  <2> QED
    BY <2>2, <2>3, LoaderMoves
<1>6. ASSUME NEW t \in Tabs, NEW l \in Loaders, FailLoad(t, l) PROVE SessionInvariant'
  <2>1. IdleLoader \in LoaderStates /\ IdleLoader.pc = "idle"
    BY DEF IdleLoader, LoaderStates
  <2>2. GoesOn(t, l, IdleLoader, tab[t].token) /\ cookie' = cookie /\ minted' = minted
    BY <1>6 DEF FailLoad
  <2> QED
    BY <2>1, <2>2, LoaderMoves
<1> QED
  BY <1>1, <1>2, <1>3, <1>4, <1>5, <1>6 DEF SessionNext

\* In a browser that has visited the page before, every tab that has loaded it can
\* post, however many are open and in whatever order their responses come.
THEOREM TabsWorkOnReturn ==
  ASSUME ~FirstVisit
  PROVE  Spec => []LoadedTabsWork
<1>1. Init => SessionInvariant
  BY DEF Init, SessionInit, SessionInvariant, TabStates, LoaderStates, IdleLoader, NoToken
<1>2. SessionInvariant /\ [Next]_vars => SessionInvariant'
  BY PartsStep, SessionStep
<1>3. SessionInvariant => LoadedTabsWork
  BY DEF SessionInvariant, LoadedTabsWork, Loaded, CheckCSRF, TabStates
<1> QED
  BY <1>1, <1>2, <1>3, PTL DEF Spec

\* The requests whose answer is still to come.
Sending == {x \in Tabs \X Loaders : tab[x[1]].loader[x[2]].pc = "sent"}

TypedLoaders == [pc : {"idle", "sent", "answered"}, token : Nat]

\* Every answer mints one token at most, and every load brings two answers.
SessionTyped ==
  /\ loads \in 0 .. MaxLoads
  /\ minted \in Nat /\ cookie \in 0 .. minted
  /\ tab \in [Tabs -> [open : BOOLEAN, token : Nat, loader : [Loaders -> TypedLoaders]]]
  /\ \A t \in Tabs, l \in Loaders : tab[t].loader[l].token <= minted
  /\ IsFiniteSet(Sending)
  /\ minted + Cardinality(Sending) <= 2 * loads + 1

LEMMA SessionInitiallyTyped == SessionInit => SessionTyped
<1> SUFFICES ASSUME SessionInit PROVE SessionTyped
  OBVIOUS
<1>1. Sending = {}
  BY DEF SessionInit, Sending, IdleLoader
<1>2. IsFiniteSet(Sending) /\ Cardinality(Sending) = 0
  BY <1>1, FS_EmptySet
<1>3. cookie \in {0, 1} /\ minted = cookie /\ loads = 0
  BY DEF SessionInit, NoToken
<1>4. tab \in [Tabs -> [open : BOOLEAN, token : Nat, loader : [Loaders -> TypedLoaders]]]
  BY DEF SessionInit, IdleLoader, TypedLoaders, NoToken
<1>5. \A t \in Tabs, l \in Loaders : tab[t].loader[l].token = 0
  BY DEF SessionInit, IdleLoader, NoToken
<1> QED
  BY <1>2, <1>3, <1>4, <1>5, MaxLoadsAssumption DEF SessionTyped

\* One loader of a tab goes on as state.
LEMMA OneLoaderMoves ==
  ASSUME SessionTyped, NEW t \in Tabs, NEW l \in Loaders, NEW state \in TypedLoaders,
         NEW token \in Nat, GoesOn(t, l, state, token)
  PROVE  /\ tab' \in [Tabs -> [open : BOOLEAN, token : Nat, loader : [Loaders -> TypedLoaders]]]
         /\ tab'[t].loader[l] = state
         /\ \A u \in Tabs, k \in Loaders :
              u # t \/ k # l => tab'[u].loader[k] = tab[u].loader[k]
         /\ \A x : x # <<t, l>> => (x \in Sending <=> x \in Sending')
         /\ <<t, l>> \in Sending' <=> state.pc = "sent"
         /\ <<t, l>> \in Sending <=> tab[t].loader[l].pc = "sent"
<1> DEFINE loader == [tab[t].loader EXCEPT ![l] = state]
           s == [open |-> tab[t].open, token |-> token, loader |-> loader]
           Tab == [open : BOOLEAN, token : Nat, loader : [Loaders -> TypedLoaders]]
<1>1. tab[t] \in Tab
  BY DEF SessionTyped
<1>2. /\ loader \in [Loaders -> TypedLoaders] /\ loader[l] = state
      /\ \A k \in Loaders : k # l => loader[k] = tab[t].loader[k]
  BY <1>1
<1> HIDE DEF loader
<1>3. s \in Tab /\ s.loader = loader
  BY <1>1, <1>2
<1>4. tab' = [tab EXCEPT ![t] = s]
  BY DEF loader, GoesOn
<1> HIDE DEF s
<1>5. /\ tab' \in [Tabs -> Tab] /\ tab'[t] = s
      /\ \A u \in Tabs : u # t => tab'[u] = tab[u]
  BY <1>3, <1>4 DEF SessionTyped
<1>6. \A u \in Tabs, k \in Loaders :
        u # t \/ k # l => tab'[u].loader[k] = tab[u].loader[k]
  BY <1>2, <1>3, <1>5
<1>7. tab'[t].loader[l] = state
  BY <1>2, <1>3, <1>5
<1>8. ASSUME NEW x, x # <<t, l>> PROVE x \in Sending <=> x \in Sending'
  <2>1. CASE x \in Tabs \X Loaders
    <3>1. x[1] \in Tabs /\ x[2] \in Loaders /\ (x[1] # t \/ x[2] # l)
      BY <1>8, <2>1
    <3> QED
      BY <1>6, <2>1, <3>1 DEF Sending
  <2>2. CASE x \notin Tabs \X Loaders
    BY <2>2 DEF Sending
  <2> QED
    BY <2>1, <2>2
<1>9. /\ <<t, l>> \in Sending' <=> state.pc = "sent"
      /\ <<t, l>> \in Sending <=> tab[t].loader[l].pc = "sent"
  BY <1>7 DEF Sending
<1> HIDE DEF Tab
<1> QED
  BY <1>5, <1>6, <1>7, <1>8, <1>9 DEF Tab

\* What a page that is opened adds to the requests: two at most.
LEMMA PageSends ==
  ASSUME SessionTyped, NEW t \in Tabs,
         \A x : x[1] # t => (x \in Sending <=> x \in Sending'),
         Sending' \subseteq Tabs \X Loaders
  PROVE  /\ IsFiniteSet(Sending')
         /\ Cardinality(Sending') \in Nat
         /\ Cardinality(Sending') <= Cardinality(Sending) + 2
<1> DEFINE both == (Sending \cup {<<t, "candidates">>}) \cup {<<t, "announcements">>}
<1>1. /\ IsFiniteSet(both) /\ Cardinality(both) \in Nat
      /\ Cardinality(both) <= Cardinality(Sending) + 2
  <2>1. IsFiniteSet(Sending)
    BY DEF SessionTyped
  <2> DEFINE one == Sending \cup {<<t, "candidates">>}
             two == one \cup {<<t, "announcements">>}
  <2>2. /\ IsFiniteSet(one) /\ Cardinality(one) \in Nat
        /\ Cardinality(Sending) \in Nat /\ Cardinality(one) <= Cardinality(Sending) + 1
    BY <2>1, OneMore
  <2> HIDE DEF one
  <2>3. /\ IsFiniteSet(two) /\ Cardinality(two) \in Nat
        /\ Cardinality(two) <= Cardinality(one) + 1
    BY <2>2, OneMore
  <2> HIDE DEF two
  <2>4. both = two
    BY DEF one, two
  <2> HIDE DEF both
  <2> QED
    BY <2>2, <2>3, <2>4
<1>2. Sending' \subseteq both
  <2> SUFFICES ASSUME NEW x \in Sending', x \notin Sending PROVE x \in both
    OBVIOUS
  <2>1. x[1] = t /\ x \in Tabs \X Loaders
    OBVIOUS
  <2> QED
    BY <2>1 DEF Loaders
<1> HIDE DEF both
<1>3. Cardinality(Sending) \in Nat
  BY FS_CardinalityType DEF SessionTyped
<1> QED
  BY <1>1, <1>2, <1>3, FS_Subset, FS_CardinalityType

LEMMA SessionStaysTyped ==
  ASSUME SessionTyped, SessionNext \/ UNCHANGED sessionVars
  PROVE  SessionTyped'
<1>1. CASE UNCHANGED sessionVars
  BY <1>1 DEF SessionTyped, sessionVars, Sending
<1>2. Cardinality(Sending) \in Nat /\ loads \in Nat /\ minted \in Nat /\ cookie \in Nat
      /\ cookie <= minted
  BY FS_CardinalityType DEF SessionTyped
<1>3. Sent \in TypedLoaders /\ Sent.pc = "sent" /\ Sent.token = cookie
  BY <1>2 DEF Sent, TypedLoaders
<1>4. ASSUME NEW t \in Tabs, OpenPage(t) PROVE SessionTyped'
  <2> DEFINE s == [open |-> TRUE, token |-> NoToken, loader |-> [l \in Loaders |-> Sent]]
             Tab == [open : BOOLEAN, token : Nat, loader : [Loaders -> TypedLoaders]]
  <2>1. s \in Tab /\ \A l \in Loaders : s.loader[l] = Sent
    BY <1>3 DEF NoToken
  <2>2. /\ tab' = [tab EXCEPT ![t] = s] /\ cookie' = cookie /\ minted' = minted
        /\ loads < MaxLoads /\ loads' = loads + 1
    BY <1>4 DEF OpenPage
  <2> HIDE DEF s
  <2>3. /\ tab' \in [Tabs -> Tab] /\ tab'[t] = s
        /\ \A u \in Tabs : u # t => tab'[u] = tab[u]
    BY <2>1, <2>2 DEF SessionTyped
  <2>4. \A u \in Tabs, l \in Loaders : tab'[u].loader[l].token <= minted'
    BY <1>2, <1>3, <2>1, <2>2, <2>3 DEF SessionTyped
  <2>5. \A x : x[1] # t => (x \in Sending <=> x \in Sending')
    BY <2>3 DEF Sending
  <2>6. Sending' \subseteq Tabs \X Loaders
    BY DEF Sending
  <2>7. /\ IsFiniteSet(Sending') /\ Cardinality(Sending') \in Nat
        /\ Cardinality(Sending') <= Cardinality(Sending) + 2
    BY <2>5, <2>6, PageSends
  <2>8. loads' \in 0 .. MaxLoads /\ minted' + Cardinality(Sending') <= 2 * loads' + 1
    BY <1>2, <2>2, <2>7, MaxLoadsAssumption DEF SessionTyped
  <2> QED
    BY <2>2, <2>3, <2>4, <2>7, <2>8 DEF SessionTyped
<1>5. ASSUME NEW t \in Tabs, NEW l \in Loaders, Reload(t, l) PROVE SessionTyped'
  <2>1. /\ GoesOn(t, l, Sent, tab[t].token) /\ cookie' = cookie /\ minted' = minted
        /\ loads < MaxLoads /\ loads' = loads + 1
    BY <1>5 DEF Reload
  <2>2. tab[t].token \in Nat
    BY DEF SessionTyped
  <2>3. /\ tab' \in [Tabs -> [open : BOOLEAN, token : Nat, loader : [Loaders -> TypedLoaders]]]
        /\ tab'[t].loader[l] = Sent
        /\ \A u \in Tabs, k \in Loaders :
              u # t \/ k # l => tab'[u].loader[k] = tab[u].loader[k]
        /\ \A x : x # <<t, l>> => (x \in Sending <=> x \in Sending')
    BY <1>3, <2>1, <2>2, OneLoaderMoves
  <2>4. \A u \in Tabs, k \in Loaders : tab'[u].loader[k].token <= minted'
    BY <1>2, <1>3, <2>1, <2>3 DEF SessionTyped
  <2>5. /\ IsFiniteSet(Sending') /\ Cardinality(Sending') \in Nat
        /\ Cardinality(Sending') <= Cardinality(Sending) + 1
    <3> DEFINE T == Sending'
               x == <<t, l>>
    <3>1. IsFiniteSet(Sending) /\ \A y : y # x => (y \in Sending <=> y \in T)
      BY <2>3 DEF SessionTyped
    <3> HIDE DEF T, x
    <3>2. /\ Cardinality(T) \in Nat /\ IsFiniteSet(T)
          /\ (x \in Sending <=> x \in T) => Cardinality(T) = Cardinality(Sending)
          /\ x \in Sending /\ x \notin T => Cardinality(T) = Cardinality(Sending) - 1
          /\ x \notin Sending /\ x \in T => Cardinality(T) = Cardinality(Sending) + 1
      BY <3>1, OneDifference
    <3>3. Cardinality(T) <= Cardinality(Sending) + 1
      BY <1>2, <3>2
    <3> QED
      BY <3>2, <3>3 DEF T
  <2>6. loads' \in 0 .. MaxLoads /\ minted' + Cardinality(Sending') <= 2 * loads' + 1
    BY <1>2, <2>1, <2>5, MaxLoadsAssumption DEF SessionTyped
  <2> QED
    BY <2>1, <2>3, <2>4, <2>5, <2>6 DEF SessionTyped
<1>6. ASSUME NEW t \in Tabs, NEW l \in Loaders, Answer(t, l) PROVE SessionTyped'
  <2> DEFINE token == IssueCSRFToken(tab[t].loader[l].token)
             state == [pc |-> "answered", token |-> token]
  <2>1. tab[t].loader[l].token \in Nat /\ tab[t].loader[l].token <= minted
        /\ tab[t].token \in Nat
    BY DEF SessionTyped, TypedLoaders
  <2>2. token \in Nat /\ token <= minted + 1
    BY <1>2, <2>1 DEF IssueCSRFToken
  <2>3. /\ tab[t].loader[l].pc = "sent" /\ GoesOn(t, l, state, tab[t].token)
        /\ loads' = loads
        /\ IF token > minted THEN minted' = token /\ cookie' = token
                             ELSE UNCHANGED <<minted, cookie>>
    BY <1>6 DEF Answer
  <2>4. state \in TypedLoaders /\ state.pc # "sent" /\ state.token = token
    BY <2>2 DEF TypedLoaders
  <2> HIDE DEF token, state
  <2>5. /\ tab' \in [Tabs -> [open : BOOLEAN, token : Nat, loader : [Loaders -> TypedLoaders]]]
        /\ tab'[t].loader[l] = state
        /\ \A u \in Tabs, k \in Loaders :
              u # t \/ k # l => tab'[u].loader[k] = tab[u].loader[k]
        /\ \A x : x # <<t, l>> => (x \in Sending <=> x \in Sending')
        /\ <<t, l>> \notin Sending' /\ <<t, l>> \in Sending
    BY <2>1, <2>3, <2>4, OneLoaderMoves
  <2>6. /\ minted' \in Nat /\ cookie' \in 0 .. minted' /\ minted <= minted'
        /\ token <= minted' /\ minted' <= minted + 1
    BY <1>2, <2>2, <2>3
  <2>7. ASSUME NEW u \in Tabs, NEW k \in Loaders PROVE tab'[u].loader[k].token <= minted'
    <3>1. CASE u = t /\ k = l
      BY <2>4, <2>5, <2>6, <3>1
    <3>2. CASE u # t \/ k # l
      <4>1. tab[u].loader[k].token \in Nat /\ tab[u].loader[k].token <= minted
        BY DEF SessionTyped, TypedLoaders
      <4> QED
        BY <1>2, <2>5, <2>6, <3>2, <4>1
    <3> QED
      BY <3>1, <3>2
  <2>8. IsFiniteSet(Sending') /\ Cardinality(Sending') = Cardinality(Sending) - 1
    BY <2>5, OneDifference DEF SessionTyped
  <2>9. minted' + Cardinality(Sending') <= 2 * loads' + 1
    BY <1>2, <2>3, <2>6, <2>8 DEF SessionTyped
  <2> QED
    BY <2>3, <2>5, <2>6, <2>7, <2>8, <2>9 DEF SessionTyped
<1>7. ASSUME NEW t \in Tabs, NEW l \in Loaders, StoreToken(t, l) PROVE SessionTyped'
  <2>1. /\ tab[t].loader[l].pc = "answered"
        /\ GoesOn(t, l, IdleLoader, tab[t].loader[l].token)
        /\ UNCHANGED <<cookie, minted, loads>>
    BY <1>7 DEF StoreToken
  <2>2. tab[t].loader[l].token \in Nat
    BY DEF SessionTyped, TypedLoaders
  <2>3. IdleLoader \in TypedLoaders /\ IdleLoader.pc = "idle" /\ IdleLoader.token = 0
    BY DEF IdleLoader, TypedLoaders, NoToken
  <2>4. /\ tab' \in [Tabs -> [open : BOOLEAN, token : Nat, loader : [Loaders -> TypedLoaders]]]
        /\ tab'[t].loader[l] = IdleLoader
        /\ \A u \in Tabs, k \in Loaders :
              u # t \/ k # l => tab'[u].loader[k] = tab[u].loader[k]
        /\ \A x : x # <<t, l>> => (x \in Sending <=> x \in Sending')
        /\ <<t, l>> \notin Sending' /\ <<t, l>> \notin Sending
    BY <2>1, <2>2, <2>3, OneLoaderMoves
  <2>5. ASSUME NEW u \in Tabs, NEW k \in Loaders PROVE tab'[u].loader[k].token <= minted'
    <3>1. CASE u = t /\ k = l
      BY <1>2, <2>1, <2>3, <2>4, <3>1
    <3>2. CASE u # t \/ k # l
      BY <2>1, <2>4, <3>2 DEF SessionTyped
    <3> QED
      BY <3>1, <3>2
  <2>6. Sending' = Sending
    <3>1. \A x : x \in Sending <=> x \in Sending'
      BY <2>4, Zenon
    <3> QED
      BY <3>1, Zenon
  <2> QED
    BY <2>1, <2>4, <2>5, <2>6 DEF SessionTyped
<1>8. ASSUME NEW t \in Tabs, NEW l \in Loaders, FailLoad(t, l) PROVE SessionTyped'
  <2>1. /\ GoesOn(t, l, IdleLoader, tab[t].token)
        /\ UNCHANGED <<cookie, minted, loads>>
    BY <1>8 DEF FailLoad
  <2>2. tab[t].token \in Nat
    BY DEF SessionTyped
  <2>3. IdleLoader \in TypedLoaders /\ IdleLoader.pc = "idle" /\ IdleLoader.token = 0
    BY DEF IdleLoader, TypedLoaders, NoToken
  <2>4. /\ tab' \in [Tabs -> [open : BOOLEAN, token : Nat, loader : [Loaders -> TypedLoaders]]]
        /\ tab'[t].loader[l] = IdleLoader
        /\ \A u \in Tabs, k \in Loaders :
              u # t \/ k # l => tab'[u].loader[k] = tab[u].loader[k]
        /\ \A x : x # <<t, l>> => (x \in Sending <=> x \in Sending')
        /\ <<t, l>> \notin Sending'
    BY <2>1, <2>2, <2>3, OneLoaderMoves
  <2>5. ASSUME NEW u \in Tabs, NEW k \in Loaders PROVE tab'[u].loader[k].token <= minted'
    <3>1. CASE u = t /\ k = l
      BY <1>2, <2>1, <2>3, <2>4, <3>1
    <3>2. CASE u # t \/ k # l
      BY <2>1, <2>4, <3>2 DEF SessionTyped
    <3> QED
      BY <3>1, <3>2
  <2>6. Sending' \subseteq Sending
    BY <2>4, Zenon
  <2>7. /\ IsFiniteSet(Sending') /\ Cardinality(Sending') \in Nat
        /\ Cardinality(Sending') <= Cardinality(Sending)
    BY <2>6, FS_Subset, FS_CardinalityType DEF SessionTyped
  <2>8. minted' + Cardinality(Sending') <= 2 * loads' + 1
    BY <1>2, <2>1, <2>7 DEF SessionTyped
  <2> QED
    BY <2>1, <2>4, <2>5, <2>7, <2>8 DEF SessionTyped
<1> QED
  BY <1>1, <1>4, <1>5, <1>6, <1>7, <1>8 DEF SessionNext

LEMMA SessionTypes == SessionTyped => SessionTypeOK
<1> SUFFICES ASSUME SessionTyped PROVE SessionTypeOK
  OBVIOUS
<1>1. Cardinality(Sending) \in Nat
  BY FS_CardinalityType DEF SessionTyped
<1>2. minted <= 2 * MaxLoads + 1
  BY <1>1, MaxLoadsAssumption DEF SessionTyped
<1>3. cookie \in 0 .. 2 * MaxLoads + 1
  BY <1>2, MaxLoadsAssumption DEF SessionTyped
<1> QED
  BY <1>3 DEF SessionTyped, SessionTypeOK, TypedLoaders

-----------------------------------------------------------------------------
(* Endorsements *)

EndorsedVersions == {d.version : d \in Releases} \cup {Absent}

CallStates == [pc : {"idle", "publish", "record"}, pair : ReleasePairs \cup {Absent},
               claim : Claims \cup {Absent}, version : EndorsedVersions]

RecordsOf(versions) ==
  [pair : ReleasePairs \cup {Absent}, claim : Claims \cup {Absent}, version : versions,
   at : Nat]

EndorsementOf(r) == [pair |-> r.pair, claim |-> r.claim, version |-> r.version]

\* A call that is about to record has its endorsement out; the file holds only
\* what memory holds as well, so that a later record brings no other back.
EndorsementInvariant ==
  /\ now \in Nat
  /\ call \in [Calls -> CallStates]
  /\ records \in Seq(RecordsOf(EndorsedVersions))
  /\ recordsFile \in Seq(RecordsOf(EndorsedVersions))
  /\ \A h \in Calls : call[h].pc = "record" => Endorsement(h) \in endorsed
  /\ \A i \in DOMAIN records : EndorsementOf(records[i]) \in endorsed
  /\ \A i \in DOMAIN recordsFile : EndorsementOf(recordsFile[i]) \in endorsed
  /\ ToSet(recordsFile) \subseteq ToSet(records)

\* The ledger file keeps what it holds.
Grows == recordsFile' = recordsFile \/ ToSet(recordsFile) \subseteq ToSet(recordsFile')

LEMMA EndorsementInitially == EndorsementInit => EndorsementInvariant
<1> SUFFICES ASSUME EndorsementInit PROVE EndorsementInvariant
  OBVIOUS
<1>1. call \in [Calls -> CallStates]
  BY DEF EndorsementInit, IdleCall, CallStates, EndorsedVersions
<1> QED
  BY <1>1 DEF EndorsementInit, EndorsementInvariant, IdleCall, ToSet

\* The steps that leave the ledger and its file alone.
LEMMA LedgerUntouched ==
  ASSUME EndorsementInvariant, now' \in Nat, call' \in [Calls -> CallStates],
         UNCHANGED <<records, recordsFile>>, endorsed \subseteq endorsed',
         \A h \in Calls : call'[h].pc = "record" => Endorsement(h)' \in endorsed'
  PROVE  EndorsementInvariant' /\ Grows
BY DEF EndorsementInvariant, Grows, EndorsementOf

LEMMA RecordStep ==
  ASSUME EndorsementInvariant, NEW h \in Calls, RecordAttestation(h)
  PROVE  EndorsementInvariant' /\ Grows
<1> DEFINE r == [pair |-> call[h].pair, claim |-> call[h].claim,
                 version |-> call[h].version, at |-> now]
<1>1. /\ call[h].pc = "record" /\ call[h] \in CallStates
      /\ r \in RecordsOf(EndorsedVersions) /\ EndorsementOf(r) \in endorsed
      /\ endorsed' = endorsed /\ now' = now
  BY DEF RecordAttestation, EndorsementInvariant, CallStates, RecordsOf, EndorsementOf,
         Endorsement
<1>2. /\ call' \in [Calls -> CallStates]
      /\ \A g \in Calls : call'[g].pc = "record" => Endorsement(g)' \in endorsed'
  <2>1. call' = [call EXCEPT ![h] = IdleCall]
    BY DEF RecordAttestation
  <2>2. IdleCall \in CallStates /\ IdleCall.pc = "idle"
    BY DEF IdleCall, CallStates, EndorsedVersions
  <2>3. \A g \in Calls : g # h => call'[g] = call[g]
    BY <2>1 DEF EndorsementInvariant
  <2> QED
    BY <1>1, <2>1, <2>2, <2>3 DEF EndorsementInvariant, Endorsement
<1>3. CASE UNCHANGED <<records, recordsFile>>
  BY <1>1, <1>2, <1>3, LedgerUntouched DEF EndorsementInvariant
<1>4. CASE records' = Append(records, r) /\ recordsFile' \in {recordsFile, records'}
  <2> HIDE DEF r
  <2>1. /\ records' \in Seq(RecordsOf(EndorsedVersions))
        /\ DOMAIN records' = 1 .. Len(records) + 1
        /\ DOMAIN records = 1 .. Len(records)
        /\ \A i \in DOMAIN records : records'[i] = records[i]
        /\ records'[Len(records) + 1] = r
    BY <1>1, <1>4 DEF EndorsementInvariant
  <2>2. \A i \in DOMAIN records' : EndorsementOf(records'[i]) \in endorsed'
    BY <1>1, <2>1 DEF EndorsementInvariant, EndorsementOf
  <2>3. ToSet(records) \subseteq ToSet(records')
    BY <2>1 DEF ToSet, EndorsementInvariant
  <2>4. Grows
    BY <1>4, <2>3 DEF Grows, EndorsementInvariant
  <2>5. /\ recordsFile' \in Seq(RecordsOf(EndorsedVersions))
        /\ \A i \in DOMAIN recordsFile' : EndorsementOf(recordsFile'[i]) \in endorsed'
        /\ ToSet(recordsFile') \subseteq ToSet(records')
    BY <1>1, <1>4, <2>1, <2>2, <2>3 DEF EndorsementInvariant, EndorsementOf
  <2> QED
    BY <1>1, <1>2, <2>1, <2>2, <2>4, <2>5 DEF EndorsementInvariant
<1> QED
  BY <1>3, <1>4 DEF RecordAttestation, Appended

LEMMA EndorsementStep ==
  ASSUME EndorsementInvariant, EndorsementNext \/ UNCHANGED endorsementVars
  PROVE  EndorsementInvariant' /\ Grows
<1>1. CASE UNCHANGED endorsementVars
  BY <1>1 DEF endorsementVars, EndorsementInvariant, Grows, Endorsement, EndorsementOf
<1>2. ASSUME NEW d \in Releases, Declare(d) PROVE EndorsementInvariant' /\ Grows
  BY <1>2, LedgerUntouched DEF Declare, EndorsementInvariant, Endorsement
<1>3. ASSUME NEW s \in Snapshots, RefreshSnapshot(s) PROVE EndorsementInvariant' /\ Grows
  BY <1>3, LedgerUntouched DEF RefreshSnapshot, EndorsementInvariant, Endorsement
<1>4. CASE Tick
  BY <1>4, LedgerUntouched DEF Tick, EndorsementInvariant, Endorsement
<1>5. ASSUME NEW h \in Calls, NEW d \in Releases, NEW claim \in Claims,
             HandleAttest(h, d, claim)
      PROVE  EndorsementInvariant' /\ Grows
  <2> DEFINE s == [pc |-> "publish", pair |-> Pair(d), claim |-> claim,
                   version |-> d.version]
  <2>1. s \in CallStates /\ s.pc # "record"
    BY DEF CallStates, EndorsedVersions, ReleasePairs
  <2>2. call' = [call EXCEPT ![h] = s] /\ endorsed' = endorsed
    BY <1>5 DEF HandleAttest
  <2> HIDE DEF s
  <2>3. call' \in [Calls -> CallStates]
    BY <2>1, <2>2 DEF EndorsementInvariant
  <2>4. \A g \in Calls : call'[g].pc = "record" => Endorsement(g)' \in endorsed'
    BY <2>1, <2>2 DEF EndorsementInvariant, Endorsement
  <2> QED
    BY <1>5, <2>2, <2>3, <2>4, LedgerUntouched DEF HandleAttest, EndorsementInvariant
<1>6. ASSUME NEW h \in Calls, EndorsementAccepted(h) PROVE EndorsementInvariant' /\ Grows
  <2>1. /\ call' = [call EXCEPT ![h].pc = "record"]
        /\ endorsed' = endorsed \cup {Endorsement(h)}
    BY <1>6 DEF EndorsementAccepted
  <2>2. call' \in [Calls -> CallStates]
    BY <2>1 DEF EndorsementInvariant, CallStates
  <2>3. /\ Endorsement(h)' = Endorsement(h)
        /\ \A g \in Calls : g # h => call'[g] = call[g]
    BY <2>1 DEF EndorsementInvariant, CallStates, Endorsement
  <2>4. \A g \in Calls : call'[g].pc = "record" => Endorsement(g)' \in endorsed'
    BY <2>1, <2>3 DEF EndorsementInvariant, Endorsement
  <2> QED
    BY <1>6, <2>1, <2>2, <2>4, LedgerUntouched DEF EndorsementAccepted, EndorsementInvariant
<1>7. ASSUME NEW h \in Calls, EndorsementRefused(h) PROVE EndorsementInvariant' /\ Grows
  <2>1. call' = [call EXCEPT ![h] = IdleCall] /\ endorsed \subseteq endorsed'
    BY <1>7 DEF EndorsementRefused
  <2>2. IdleCall \in CallStates /\ IdleCall.pc = "idle"
    BY DEF IdleCall, CallStates, EndorsedVersions
  <2>3. call' \in [Calls -> CallStates]
    BY <2>1, <2>2 DEF EndorsementInvariant
  <2>4. \A g \in Calls : call'[g].pc = "record" => Endorsement(g)' \in endorsed'
    BY <2>1, <2>2 DEF EndorsementInvariant, Endorsement
  <2> QED
    BY <1>7, <2>1, <2>3, <2>4, LedgerUntouched DEF EndorsementRefused, EndorsementInvariant
<1>8. ASSUME NEW h \in Calls, RecordAttestation(h) PROVE EndorsementInvariant' /\ Grows
  BY <1>8, RecordStep
<1>9. CASE Restart
  <2>1. /\ call' = [h \in Calls |-> IdleCall] /\ records' = recordsFile
        /\ UNCHANGED <<recordsFile, endorsed, now>>
    BY <1>9 DEF Restart, LoadRecords
  <2>2. IdleCall \in CallStates /\ IdleCall.pc = "idle"
    BY DEF IdleCall, CallStates, EndorsedVersions
  <2>3. call' \in [Calls -> CallStates] /\ \A h \in Calls : call'[h].pc = "idle"
    BY <2>1, <2>2
  <2> QED
    BY <2>1, <2>3 DEF EndorsementInvariant, Grows, EndorsementOf
<1> QED
  BY <1>1, <1>2, <1>3, <1>4, <1>5, <1>6, <1>7, <1>8, <1>9 DEF EndorsementNext

\* What the ledger holds, in memory and on disk, was signed for the version that
\* was declared at the time, and a relay has it, whatever fails in between.
THEOREM OnlyEndorsedIsRecorded == Spec => []RecordedWasEndorsed
<1>1. Init => EndorsementInvariant
  BY EndorsementInitially DEF Init
<1>2. EndorsementInvariant /\ [Next]_vars => EndorsementInvariant'
  BY PartsStep, EndorsementStep
<1>3. EndorsementInvariant => RecordedWasEndorsed
  BY DEF EndorsementInvariant, RecordedWasEndorsed, EndorsementOf, ToSet
<1> QED
  BY <1>1, <1>2, <1>3, PTL DEF Spec

\* The ledger file loses no record, over failed writes and restarts.
THEOREM AuditTrailGrows == Spec => AuditTrailOnlyGrows
<1>1. Init => EndorsementInvariant
  BY EndorsementInitially DEF Init
<1>2. EndorsementInvariant /\ [Next]_vars => EndorsementInvariant' /\ Grows
  BY PartsStep, EndorsementStep
<1>3. Grows => [ToSet(recordsFile) \subseteq ToSet(recordsFile')]_recordsFile
  BY DEF Grows
<1> QED
  BY <1>1, <1>2, <1>3, PTL DEF Spec, AuditTrailOnlyGrows

\* The seconds of a list's records, in the order they were recorded.
InOrder(list, time) ==
  \A i, j \in DOMAIN list : list[i].at <= time /\ (i <= j => list[i].at <= list[j].at)

\* The lists have come from the clock, and what is declared is under its own pair.
PageInvariant ==
  /\ newest \in [ReleasePairs -> Releases \cup {Absent}]
  /\ \A k \in ReleasePairs : newest[k] # Absent => newest[k] \in Releases /\ Pair(newest[k]) = k
  /\ installed \in Snapshots \cup {<<>>}
  /\ \A h \in Calls : call[h].pc # "idle" => call[h].pair \in ReleasePairs
  /\ now \in 0 .. MaxSeconds
  /\ InOrder(records, now)
  /\ InOrder(recordsFile, now)

LEMMA PageInitially == EndorsementInit => PageInvariant
<1> SUFFICES ASSUME EndorsementInit PROVE PageInvariant
  OBVIOUS
<1>1. DOMAIN <<>> = {}
  OBVIOUS
<1> QED
  BY <1>1, MaxSecondsAssumption DEF EndorsementInit, PageInvariant, InOrder, IdleCall

\* A record made now comes after all the others.
LEMMA LaterRecord ==
  ASSUME EndorsementInvariant, InOrder(records, now),
         NEW r \in RecordsOf(EndorsedVersions), r.at = now
  PROVE  InOrder(Append(records, r), now)
<1> DEFINE n == Len(records)
           new == Append(records, r)
<1>1. /\ records \in Seq(RecordsOf(EndorsedVersions)) /\ now \in Nat
      /\ n \in Nat /\ DOMAIN records = 1 .. n /\ DOMAIN new = 1 .. n + 1
      /\ \A i \in 1 .. n : new[i] = records[i]
      /\ new[n + 1] = r
  BY DEF EndorsementInvariant
<1> HIDE DEF n, new
<1>2. ASSUME NEW i \in 1 .. n + 1, NEW j \in 1 .. n + 1
      PROVE  new[i].at <= now /\ (i <= j => new[i].at <= new[j].at)
  <2>1. i = n + 1 \/ (i \in 1 .. n /\ new[i] = records[i] /\ records[i].at <= now)
    BY <1>1 DEF InOrder
  <2>2. j = n + 1 \/ (j \in 1 .. n /\ new[j] = records[j] /\ records[j].at <= now)
    BY <1>1 DEF InOrder
  <2>3. i \in 1 .. n /\ j \in 1 .. n /\ i <= j => records[i].at <= records[j].at
    BY <1>1 DEF InOrder
  <2>4. now <= now
    BY <1>1
  <2> QED
    BY <1>1, <2>1, <2>2, <2>3, <2>4
<1> QED
  BY <1>1, <1>2 DEF InOrder, new

LEMMA PageStep ==
  ASSUME EndorsementInvariant, PageInvariant, EndorsementNext \/ UNCHANGED endorsementVars
  PROVE  PageInvariant'
<1>1. CASE UNCHANGED endorsementVars
  BY <1>1 DEF endorsementVars, PageInvariant, InOrder
<1>2. ASSUME NEW d \in Releases, Declare(d) PROVE PageInvariant'
  <2>1. newest' = [newest EXCEPT ![Pair(d)] = d] /\ Pair(d) \in ReleasePairs
    BY <1>2 DEF Declare, ReleasePairs
  <2>2. newest' \in [ReleasePairs -> Releases \cup {Absent}]
    BY <2>1 DEF PageInvariant
  <2>3. \A k \in ReleasePairs : newest'[k] # Absent =>
          newest'[k] \in Releases /\ Pair(newest'[k]) = k
    BY <2>1 DEF PageInvariant
  <2> QED
    BY <1>2, <2>2, <2>3 DEF Declare, PageInvariant, InOrder
<1>3. ASSUME NEW s \in Snapshots, RefreshSnapshot(s) PROVE PageInvariant'
  BY <1>3 DEF RefreshSnapshot, PageInvariant, InOrder
<1>4. CASE Tick
  <2>1. /\ now < MaxSeconds /\ now' = now + 1
        /\ UNCHANGED <<newest, installed, records, recordsFile, call>>
    BY <1>4 DEF Tick
  <2>2. now' \in 0 .. MaxSeconds
    BY <2>1, MaxSecondsAssumption DEF PageInvariant
  <2>3. ASSUME NEW list \in Seq(RecordsOf(EndorsedVersions)), InOrder(list, now)
        PROVE  InOrder(list, now')
    <3> SUFFICES ASSUME NEW i \in DOMAIN list PROVE list[i].at <= now'
      BY <2>3 DEF InOrder
    <3>1. list[i] \in RecordsOf(EndorsedVersions)
      OBVIOUS
    <3>2. list[i].at \in Nat /\ list[i].at <= now
      BY <2>3, <3>1 DEF InOrder, RecordsOf
    <3> QED
      BY <2>1, <3>2 DEF EndorsementInvariant
  <2> QED
    BY <2>1, <2>2, <2>3 DEF PageInvariant, EndorsementInvariant
<1>5. ASSUME NEW h \in Calls, NEW d \in Releases, NEW claim \in Claims,
             HandleAttest(h, d, claim)
      PROVE  PageInvariant'
  <2> DEFINE s == [pc |-> "publish", pair |-> Pair(d), claim |-> claim,
                   version |-> d.version]
  <2>1. /\ call' = [call EXCEPT ![h] = s] /\ s.pair \in ReleasePairs
        /\ UNCHANGED <<newest, installed, records, recordsFile, now>>
    BY <1>5 DEF HandleAttest, ReleasePairs
  <2> HIDE DEF s
  <2>2. \A g \in Calls : call'[g].pc # "idle" => call'[g].pair \in ReleasePairs
    BY <2>1 DEF PageInvariant, EndorsementInvariant
  <2> QED
    BY <2>1, <2>2 DEF PageInvariant, InOrder
<1>6. ASSUME NEW h \in Calls, EndorsementAccepted(h) PROVE PageInvariant'
  <2>1. /\ call[h].pc = "publish" /\ call' = [call EXCEPT ![h].pc = "record"]
        /\ UNCHANGED <<newest, installed, records, recordsFile, now>>
    BY <1>6 DEF EndorsementAccepted
  <2>2. \A g \in Calls : call'[g].pc # "idle" => call'[g].pair \in ReleasePairs
    BY <2>1 DEF PageInvariant, EndorsementInvariant, CallStates
  <2> QED
    BY <2>1, <2>2 DEF PageInvariant, InOrder
<1>7. ASSUME NEW h \in Calls, call' = [call EXCEPT ![h] = IdleCall]
      PROVE  \A g \in Calls : call'[g].pc # "idle" => call'[g].pair \in ReleasePairs
  BY <1>7 DEF PageInvariant, EndorsementInvariant, IdleCall
<1>8. ASSUME NEW h \in Calls, EndorsementRefused(h) PROVE PageInvariant'
  BY <1>7, <1>8 DEF EndorsementRefused, PageInvariant, InOrder
<1>9. ASSUME NEW h \in Calls, RecordAttestation(h) PROVE PageInvariant'
  <2> DEFINE r == [pair |-> call[h].pair, claim |-> call[h].claim,
                   version |-> call[h].version, at |-> now]
  <2>1. /\ call' = [call EXCEPT ![h] = IdleCall]
        /\ UNCHANGED <<newest, installed, now>>
        /\ \/ UNCHANGED <<records, recordsFile>>
           \/ records' = Append(records, r) /\ recordsFile' \in {recordsFile, records'}
    BY <1>9 DEF RecordAttestation, Appended
  <2>2. r \in RecordsOf(EndorsedVersions) /\ r.at = now
    BY DEF EndorsementInvariant, RecordsOf, CallStates
  <2> HIDE DEF r
  <2>3. InOrder(Append(records, r), now)
    BY <2>2, LaterRecord DEF PageInvariant
  <2>4. InOrder(records, now) /\ InOrder(recordsFile, now)
    BY DEF PageInvariant
  <2>5. InOrder(records', now') /\ InOrder(recordsFile', now')
    BY <2>1, <2>3, <2>4
  <2> QED
    BY <1>7, <2>1, <2>5 DEF PageInvariant
<1>10. CASE Restart
  <2>1. /\ call' = [h \in Calls |-> IdleCall] /\ records' = recordsFile
        /\ UNCHANGED <<newest, installed, recordsFile, now>>
    BY <1>10 DEF Restart, LoadRecords
  <2>2. InOrder(records', now') /\ InOrder(recordsFile', now')
    BY <2>1 DEF PageInvariant
  <2> QED
    BY <2>1, <2>2 DEF PageInvariant, IdleCall
<1> QED
  BY <1>1, <1>2, <1>3, <1>4, <1>5, <1>6, <1>8, <1>9, <1>10 DEF EndorsementNext

\* The last of the apps installed from one source is the one that is found there.
LEMMA ByRepoFindsTheLast ==
  ASSUME NEW n \in Nat, DOMAIN installed = 1 .. n, NEW source,
         \E i \in 1 .. n : NormalizeRepository(installed[i].repository) = source
  PROVE  \E i \in 1 .. n :
           /\ NormalizeRepository(installed[i].repository) = source
           /\ ByRepo(source) = {installed[i]}
<1> DEFINE found == {i \in DOMAIN installed :
                       NormalizeRepository(installed[i].repository) = source}
           last == CHOOSE i \in found : \A j \in found : j <= i
<1>1. found \in SUBSET (1 .. n) /\ found # {}
  OBVIOUS
<1>2. \E i \in found : \A j \in found : j <= i
  <2> HIDE DEF found
  <2>1. Max(found) \in found /\ \A j \in found : Max(found) >= j
    BY <1>1, MaxIsGreatest
  <2>2. \A j \in found : j <= Max(found)
    BY <1>1, <2>1
  <2> QED
    BY <2>1, <2>2
<1>3. last \in found
  BY <1>2
<1>4. ByRepo(source) = {installed[last]}
  BY <1>1 DEF ByRepo
<1> HIDE DEF last
<1> QED
  BY <1>3, <1>4

\* What can be endorsed is what another publisher declares and what is installed
\* from there, for any snapshot of the installed apps and any declarations.
THEOREM CandidatesMatchInstalledApps == Spec => []CandidatesAreInstalled
<1>1. Init => EndorsementInvariant /\ PageInvariant
  BY EndorsementInitially, PageInitially DEF Init
<1>2. EndorsementInvariant /\ PageInvariant /\ [Next]_vars
        => EndorsementInvariant' /\ PageInvariant'
  BY PartsStep, EndorsementStep, PageStep
<1>3. PageInvariant => CandidatesAreInstalled
  <2> SUFFICES ASSUME PageInvariant, NEW k \in ReleasePairs, newest[k] # Absent
               PROVE  LET d      == newest[k]
                          wanted == k[1] # Self /\ InstalledFromSource(d) # {}
                      IN  /\ d \in Attestable => wanted
                          /\ wanted /\ ~SharesItsSource(d) => d \in Attestable
    BY DEF CandidatesAreInstalled
  <2> DEFINE d == newest[k]
             source == NormalizeRepository(d.repository)
             At(i) == NormalizeRepository(installed[i].repository) = source
  <2>1. d.publisher = k[1] /\ d \in {newest[l] : l \in ReleasePairs} \ {Absent}
    BY DEF PageInvariant, Pair
  <2>2. PICK n \in Nat : DOMAIN installed = 1 .. n
    <3>1. installed = <<>> \/ installed \in Seq(ToSet(installed))
      BY SnapshotsAssumption DEF PageInvariant
    <3>2. DOMAIN <<>> = 1 .. 0
      OBVIOUS
    <3> QED
      BY <3>1, <3>2, LenProperties
  <2>3. d \in Attestable <=>
          d.publisher # Self /\ \E i \in ByRepo(source) : i.app = d.app
    BY <2>1 DEF Attestable
  <2>4. /\ InstalledFromSource(d) # {} <=>
             \E i \in 1 .. n : At(i) /\ installed[i].app = d.app
        /\ SharesItsSource(d) <=> \E i \in 1 .. n : At(i) /\ installed[i].app # d.app
    BY <2>2 DEF InstalledFromSource, SharesItsSource, ToSet
  <2>5. ByRepo(source) # {} => \E i \in 1 .. n : At(i)
    BY <2>2 DEF ByRepo
  <2>6. (\E i \in 1 .. n : At(i)) =>
          \E i \in 1 .. n : At(i) /\ ByRepo(source) = {installed[i]}
    BY <2>2, ByRepoFindsTheLast
  <2> HIDE DEF d, source, At
  <2>7. d \in Attestable => k[1] # Self /\ InstalledFromSource(d) # {}
    BY <2>1, <2>3, <2>4, <2>5, <2>6
  <2>8. k[1] # Self /\ InstalledFromSource(d) # {} /\ ~SharesItsSource(d) => d \in Attestable
    BY <2>1, <2>3, <2>4, <2>6
  <2> QED
    BY <2>7, <2>8 DEF d
<1> QED
  BY <1>1, <1>2, <1>3, PTL DEF Spec

\* The endorsement the page shows of an app is the one recorded last, or one of
\* the same second, over lost writes and restarts.
THEOREM PageShowsTheLastEndorsement == Spec => []LatestShownIsLast
<1>1. Init => EndorsementInvariant /\ PageInvariant
  BY EndorsementInitially, PageInitially DEF Init
<1>2. EndorsementInvariant /\ PageInvariant /\ [Next]_vars
        => EndorsementInvariant' /\ PageInvariant'
  BY PartsStep, EndorsementStep, PageStep
<1>3. EndorsementInvariant /\ PageInvariant => LatestShownIsLast
  <2> SUFFICES ASSUME EndorsementInvariant, PageInvariant, NEW k \in ReleasePairs,
                      OfPair(k) # {}
               PROVE  \E r \in LatestRecord(k) : \A i \in OfPair(k) :
                        (\A j \in OfPair(k) : j <= i) => r.at = records[i].at
    BY DEF LatestShownIsLast
  <2> DEFINE S == OfPair(k)
             n == Len(records)
             last == Max(S)
             T == {j \in S : records[j].at = records[last].at}
             first == Min(T)
  <2>1. n \in Nat /\ S \in SUBSET (1 .. n) /\ S # {} /\ \A i \in S : i \in DOMAIN records
    BY LenProperties DEF EndorsementInvariant, OfPair
  <2>2. \A i \in S : records[i].at \in Nat
    <3> HIDE DEF S
    <3>1. \A i \in S : records[i] \in RecordsOf(EndorsedVersions)
      BY <2>1 DEF EndorsementInvariant
    <3> QED
      BY <3>1 DEF RecordsOf
  <2> HIDE DEF n, S
  <2>3. last \in S /\ \A i \in S : last >= i
    BY <2>1, MaxIsGreatest
  <2> HIDE DEF last
  <2>4. T \in SUBSET Nat /\ T # {} /\ T \subseteq S
    <3>1. last \in T /\ T \subseteq S
      BY <2>3
    <3>2. S \subseteq Nat
      BY <2>1
    <3> HIDE DEF T
    <3> QED
      BY <3>1, <3>2
  <2>5. first \in T /\ \A j \in T : first <= j
    <3> HIDE DEF T
    <3> QED
      BY <2>4, MinIsLeast
  <2> HIDE DEF first
  <2>6. first \in S /\ records[first].at = records[last].at
    BY <2>5
  <2>7. ASSUME NEW i \in S
        PROVE  \/ records[first].at > records[i].at
               \/ records[first].at = records[i].at /\ first <= i
    <3>1. i <= last /\ i \in Int /\ last \in Int
      BY <2>1, <2>3
    <3>2. records[i].at <= records[last].at
      BY <2>1, <2>3, <3>1 DEF PageInvariant, InOrder
    <3>3. records[i].at = records[last].at => first <= i
      BY <2>5
    <3> QED
      BY <2>2, <2>3, <2>6, <3>2, <3>3
  <2>8. records[first] \in LatestRecord(k)
    BY <2>6, <2>7 DEF LatestRecord, S
  <2>9. ASSUME NEW i \in S, \A j \in S : j <= i PROVE i = last
    BY <2>1, <2>3, <2>9
  <2> QED
    BY <2>6, <2>8, <2>9 DEF S
<1> QED
  BY <1>1, <1>2, <1>3, PTL DEF Spec

-----------------------------------------------------------------------------
(* Re-verification *)

IsEvidence(m) ==
  /\ m.att.app = m.decl.app
  /\ AttestationsFor({m.att}, m.decl) = {m.att}
  /\ m.held = m.decl.hashes
  /\ \A d \in m.known : d.created <= m.decl.created

\* What is left of the deadline is a part of it; the declaration the command
\* checks is the newest of those it was answered with.
CheckInvariant ==
  /\ check = [pc |-> check.pc, decl |-> check.decl, todo |-> check.todo,
              left |-> check.left, known |-> check.known]
  /\ check.left \in 0 .. CheckTimeout
  /\ check.pc = "clone" =>
       /\ check.decl \in CheckedDecls
       /\ \A d \in check.known : d.created <= check.decl.created
  /\ \A m \in matches : IsEvidence(m)

\* A new check: what it has found before stays found.
LEMMA NewCheck ==
  ASSUME CheckInvariant, matches' = matches,
         NEW pc, NEW decl, NEW todo, NEW known, NEW left \in 0 .. CheckTimeout,
         check' = [pc |-> pc, decl |-> decl, todo |-> todo, left |-> left, known |-> known],
         pc = "clone" => decl \in CheckedDecls /\ \A d \in known : d.created <= decl.created
  PROVE  CheckInvariant'
BY CheckTimeoutAssumption DEF CheckInvariant

LEMMA CloneStep ==
  ASSUME CheckInvariant, NEW time \in 0 .. CheckTimeout + 1,
         CloneNext(time)
  PROVE  CheckInvariant'
<1> DEFINE a == Head(check.todo)
           used == Least(time, check.left)
           m == [att |-> a, decl |-> check.decl, held |-> hosted[AttestationKey(a)],
                 known |-> check.known]
<1>1. /\ check.pc = "clone"
      /\ matches' = IF Mismatches(a, check.decl, Found(a, time)) = {}
                      THEN matches \cup {m} ELSE matches
      /\ check' = [check EXCEPT !.todo = Tail(@), !.left = check.left - used]
  BY DEF CloneNext, CloneWith
<1>2. used \in Nat /\ used <= check.left
  BY CheckTimeoutAssumption DEF CheckInvariant, Least
<1>3. ASSUME Mismatches(a, check.decl, Found(a, time)) = {} PROVE IsEvidence(m)
  <2>1. \A field \in {"app", "repository", "commit", "hashes"} :
          a[field] = check.decl[field]
    BY <1>3 DEF Mismatches
  <2>2. Found(a, time) = a.hashes
    BY <1>3 DEF Mismatches
  <2>3. /\ a.app = check.decl.app /\ a.repository = check.decl.repository
        /\ a.commit = check.decl.commit /\ a.hashes = check.decl.hashes
    BY <2>1
  <2>4. a.hashes # Gone
    BY <1>1, <2>3, ContentAssumption DEF CheckInvariant
  <2>5. hosted[AttestationKey(a)] = check.decl.hashes
    BY <2>2, <2>3, <2>4 DEF Found
  <2>6. AttestationsFor({a}, check.decl) = {a}
    BY <2>3 DEF AttestationsFor, AttestationKey
  <2> QED
    BY <1>1, <2>3, <2>5, <2>6 DEF CheckInvariant, IsEvidence
<1>4. \A n \in matches' : IsEvidence(n)
  BY <1>1, <1>3 DEF CheckInvariant
<1> HIDE DEF a, used, m
<1>5. check' = [pc |-> "clone", decl |-> check.decl, todo |-> Tail(check.todo),
                left |-> check.left - used, known |-> check.known]
  BY <1>1 DEF CheckInvariant
<1>6. check.left - used \in 0 .. CheckTimeout
  BY <1>2, CheckTimeoutAssumption DEF CheckInvariant
<1> QED
  BY <1>1, <1>4, <1>5, <1>6 DEF CheckInvariant

LEMMA CheckStep ==
  ASSUME CheckInvariant, CheckNext \/ UNCHANGED checkVars
  PROVE  CheckInvariant'
<1>1. CASE UNCHANGED checkVars
  BY <1>1 DEF checkVars, CheckInvariant, IsEvidence
<1>2. CASE UNCHANGED <<check, matches>>
  BY <1>2 DEF CheckInvariant, IsEvidence
<1>3. ASSUME NEW d \in CheckedDecls, NEW known, HandleReverify(d, known)
      PROVE  CheckInvariant'
  <2> DEFINE todo == SetToSortSeq(AttestationsFor(StoredOf(known), d),
                                  LAMBDA a, b : a.verifier < b.verifier)
  <2>1. /\ matches' = matches
        /\ check' = [pc |-> "clone", decl |-> d, todo |-> todo, left |-> CheckTimeout,
                     known |-> {}]
    BY <1>3 DEF HandleReverify
  <2> HIDE DEF todo
  <2>2. CheckTimeout \in 0 .. CheckTimeout
    BY CheckTimeoutAssumption
  <2> QED
    BY <2>1, <2>2, NewCheck
<1>4. ASSUME NEW address, NEW answered, FetchAttestation(address, answered)
      PROVE  CheckInvariant'
  <2>1. PICK a \in Newest(answered) :
          check' = [IdleCheck EXCEPT !.pc = "declaration", !.todo = <<a>>]
    BY <1>4 DEF FetchAttestation
  <2>2. check' = [pc |-> "declaration", decl |-> {}, todo |-> <<a>>, left |-> 0,
                  known |-> {}]
    BY <2>1 DEF IdleCheck
  <2>3. 0 \in 0 .. CheckTimeout /\ matches' = matches
    BY <1>4, CheckTimeoutAssumption DEF FetchAttestation
  <2> QED
    BY <2>2, <2>3, NewCheck
<1>5. ASSUME NEW answered \in SUBSET (published \cap CheckedDecls), FetchDeclaration(answered)
      PROVE  CheckInvariant'
  <2>0. matches' = matches
    BY <1>5 DEF FetchDeclaration
  <2>1. 0 \in 0 .. CheckTimeout /\ CheckTimeout \in 0 .. CheckTimeout /\ matches' = matches
    BY <2>0, CheckTimeoutAssumption
  <2>2. CASE check' = IdleCheck
    BY <2>1, <2>2, NewCheck DEF IdleCheck
  <2>3. ASSUME NEW d \in Newest(answered),
               check' = [check EXCEPT !.pc = "clone", !.decl = d, !.known = answered,
                                      !.left = CheckTimeout]
        PROVE  CheckInvariant'
    <3>1. d \in CheckedDecls /\ \A x \in answered : x.created <= d.created
      BY <2>3 DEF Newest
    <3>2. check' = [pc |-> "clone", decl |-> d, todo |-> check.todo, left |-> CheckTimeout,
                    known |-> answered]
      BY <2>3 DEF CheckInvariant
    <3> QED
      BY <2>1, <3>1, <3>2, NewCheck
  <2> QED
    BY <1>5, <2>2, <2>3 DEF FetchDeclaration
<1>6. ASSUME NEW time \in 0 .. CheckTimeout + 1, CloneNext(time) PROVE CheckInvariant'
  BY <1>6, CloneStep
<1>7. CASE Report
  <2>1. 0 \in 0 .. CheckTimeout
    BY CheckTimeoutAssumption
  <2> QED
    BY <1>7, <2>1, NewCheck DEF Report, IdleCheck
<1> QED
  BY <1>1, <1>2, <1>3, <1>4, <1>5, <1>6, <1>7
     DEF CheckNext, PublishEvent, RewriteRepository

LEMMA CheckInitially == CheckInit => CheckInvariant
BY CheckTimeoutAssumption DEF CheckInit, CheckInvariant, IdleCheck

\* A MATCH is evidence that the store would count, about content the repository
\* held when it was looked at, however repositories are rewritten, events appear
\* and clones are cut off between the steps.
THEOREM MatchesAreEvidence == Spec => []MatchIsEvidence
<1>1. Init => CheckInvariant
  BY CheckInitially DEF Init
<1>2. CheckInvariant /\ [Next]_vars => CheckInvariant'
  BY PartsStep, CheckStep
<1>3. CheckInvariant => MatchIsEvidence
  BY DEF CheckInvariant, MatchIsEvidence, IsEvidence
<1> QED
  BY <1>1, <1>2, <1>3, PTL DEF Spec

-----------------------------------------------------------------------------
(* The printed catalogue *)

\* The run is a record of its fields, of their types.
RunTyped ==
  /\ run = [pc |-> run.pc, answered |-> run.answered, fetched |-> run.fetched,
            todo |-> run.todo, spent |-> run.spent, overrun |-> run.overrun,
            skipped |-> run.skipped]
  /\ run.spent \in Nat /\ run.overrun \in Nat
  /\ run.todo \subseteq Offered
  /\ delay \in [Sources -> Nat]

\* What the loop waits past the deadline.
Late(e, waited) == IF waited <= Allowed(e) THEN 0 ELSE waited - Allowed(e)

\* Without what it takes past its deadline, a clone takes no more than its share;
\* one that would have been in time by itself is late only when the budget ends.
LEMMA WaitsProperties ==
  ASSUME RunTyped, NEW e \in Offered, run.spent < Budget, NEW waited \in Waits(e)
  PROVE  /\ waited \in Nat /\ Late(e, waited) \in Nat
         /\ waited <= Share(e) + Late(e, waited)
         /\ Validate(CommandConfig, e) /\ delay[SourceOf(e)] <= PerApp
              /\ ~(delay[SourceOf(e)] <= Allowed(e)) => run.spent + waited >= Budget
<1>1. /\ delay[SourceOf(e)] \in Nat /\ run.spent \in Nat
      /\ PerApp \in Nat /\ Budget \in Nat /\ PerApp > 0
  BY CommandTimesAssumption DEF RunTyped, Sources
<1>2. Allowed(e) \in Nat /\ Allowed(e) = Shorter(PerApp, Budget - run.spent)
  BY <1>1 DEF Allowed, Shorter
<1>3. CASE ~Validate(CommandConfig, e)
  <2>1. waited = 0
    BY <1>3 DEF Waits
  <2> QED
    BY <1>1, <1>2, <1>3, <2>1 DEF Late, Share, Shorter
<1>4. CASE Validate(CommandConfig, e) /\ delay[SourceOf(e)] <= Allowed(e)
  <2>1. waited = delay[SourceOf(e)]
    BY <1>4 DEF Waits
  <2> QED
    BY <1>1, <1>2, <1>4, <2>1 DEF Late, Share, Shorter
<1>5. CASE Validate(CommandConfig, e) /\ ~(delay[SourceOf(e)] <= Allowed(e))
  <2>1. waited \in Allowed(e) .. delay[SourceOf(e)]
    BY <1>5 DEF Waits
  <2> QED
    BY <1>1, <1>2, <1>5, <2>1 DEF Late, Share, Shorter
<1> QED
  BY <1>3, <1>4, <1>5

LEMMA CommandStep ==
  ASSUME RunTyped, CommandNext \/ UNCHANGED commandVars
  PROVE  RunTyped'
<1>1. CASE UNCHANGED commandVars
  BY <1>1 DEF commandVars, RunTyped
<1>2. ASSUME NEW answered \in SUBSET Offered, Fetch(answered) PROVE RunTyped'
  <2>1. PICK fetched \in LatestOf(answered) :
          run' = [run EXCEPT !.pc = "verify", !.answered = answered,
                             !.fetched = fetched, !.todo = fetched]
    BY <1>2 DEF Fetch
  <2>2. fetched \subseteq Offered
    BY <2>1 DEF LatestOf, LatestOf_any
  <2>3. delay' \in [Sources -> Nat]
    BY <1>2, DelaysAssumption DEF Fetch
  <2> QED
    BY <2>1, <2>2, <2>3 DEF RunTyped
<1>3. ASSUME NEW e \in Offered, NEW waited \in Waits(e), VerifyNext(e, waited)
      PROVE  RunTyped'
  <2> DEFINE late == Late(e, waited)
  <2>1. /\ run' = [run EXCEPT !.todo = @ \ {e}, !.spent = @ + waited, !.overrun = @ + late]
        /\ delay' = delay /\ run.spent < Budget
    BY <1>3 DEF VerifyNext, Late
  <2>2. waited \in Nat /\ late \in Nat
    BY <2>1, WaitsProperties
  <2> HIDE DEF late
  <2>3. run.spent + waited \in Nat /\ run.overrun + late \in Nat
    BY <2>2 DEF RunTyped
  <2> QED
    BY <2>1, <2>3 DEF RunTyped
<1>4. CASE SkipRest
  BY <1>4 DEF SkipRest, RunTyped
<1>5. CASE WriteSnapshot
  BY <1>5 DEF WriteSnapshot, RunTyped
<1> QED
  BY <1>1, <1>2, <1>3, <1>4, <1>5 DEF CommandNext

Stored(e) == [event |-> e, manifest |-> TRUE]

Fine(e) ==
  /\ Validate(CommandConfig, e)
  /\ RepositoryConfirms(e) /\ Translates(e)
  /\ delay[SourceOf(e)] <= PerApp

Shares == [e \in Offered |-> Share(e)]

\* Of each publisher and d tag the loop meets one event, the newest.  What it has
\* taken for the events behind it is no more than their shares and what it waited
\* past deadlines; and unless it has taken all there was, it has cut none of them
\* off.
CommandInvariant ==
  /\ RunTyped
  /\ run.pc \in {"idle", "verify", "done"}
  /\ run.todo \subseteq run.fetched
  /\ run.fetched \subseteq run.answered
  /\ run.answered \subseteq Offered
  /\ run.skipped \in 0 .. Cardinality(Offered)
  /\ \A d \in run.fetched, e \in run.answered : PairOf(d) = PairOf(e) => e.created <= d.created
  /\ \A d, e \in run.fetched : PairOf(d) = PairOf(e) => d = e
  /\ run.pc = "idle" => run.fetched = {} /\ run.skipped = 0 /\ run.spent = 0
  /\ run.pc = "done" => run.todo = {}
  /\ DOMAIN store = Pairs
  /\ \A k \in Pairs :
       \/ store[k] = <<>>
       \/ \E e \in run.fetched \ run.todo : PairOf(e) = k /\ store[k] = <<Stored(e)>>
  /\ run.spent < Budget =>
       \A e \in run.fetched \ run.todo : Fine(e) => store[PairOf(e)] = <<Stored(e)>>
  /\ \A g : SumsOver(g, run.fetched, Shares) =>
       run.spent + g[run.todo] <= g[run.fetched] + run.overrun

\* One revision goes into an empty list as it is.
LEMMA AddToEmpty ==
  ASSUME NEW p, NEW atts, NEW r
  PROVE  AddRevision(p, atts, <<>>, r) = <<r>>
<1>1. DOMAIN <<>> = {} /\ Len(<<>>) = 0
  OBVIOUS
<1>2. UpsertRevision(<<>>, r) = InsertNewestFirst(<<>>, r)
  BY <1>1 DEF UpsertRevision
<1>3. InsertNewestFirst(<<>>, r) = <<r>>
  <2>1. InsertNewestFirst(<<>>, r) =
          [i \in 1 .. 1 |-> IF i <= 0 /\ <<>>[i].event.created >= r.event.created
                              THEN <<>>[i]
                              ELSE IF i = 1 \/ <<>>[i-1].event.created >= r.event.created
                                     THEN r ELSE <<>>[i-1]]
    BY <1>1 DEF InsertNewestFirst
  <2>2. InsertNewestFirst(<<>>, r) = [i \in 1 .. 1 |-> r]
    BY <2>1
  <2>3. <<r>> = [i \in 1 .. 1 |-> r]
    OBVIOUS
  <2> QED
    BY <2>2, <2>3
<1>4. Len(<<r>>) = 1 /\ 1 <= MaxRevisions
  BY MaxRevisionsAssumption
<1> QED
  BY <1>2, <1>3, <1>4 DEF AddRevision, CapRevisions

LEMMA SharesAreNatural ==
  ASSUME delay \in [Sources -> Nat]
  PROVE  Shares \in [Offered -> Nat]
<1>1. \A e \in Offered : delay[SourceOf(e)] \in Nat
  BY DEF Sources
<1> QED
  BY <1>1, CommandTimesAssumption DEF Shares, Share, Shorter

LEMMA CommandInitially == CommandInit => CommandInvariant
<1> SUFFICES ASSUME CommandInit PROVE CommandInvariant
  OBVIOUS
<1>1. RunTyped
  BY CommandTimesAssumption DEF CommandInit, RunTyped
<1>2. /\ run.pc = "idle" /\ run.todo = {} /\ run.fetched = {} /\ run.answered = {}
      /\ run.skipped = 0 /\ run.spent = 0 /\ run.overrun = 0
      /\ store = [k \in Pairs |-> <<>>]
  BY DEF CommandInit
<1>3. Cardinality(Offered) \in Nat
  BY OfferedAssumption, FS_CardinalityType
<1>4. ASSUME NEW g, SumsOver(g, {}, Shares) PROVE 0 + g[{}] <= g[{}] + 0
  <2>1. g[{}] \in Nat
    BY <1>4 DEF SumsOver
  <2> QED
    BY <2>1
<1> QED
  BY <1>1, <1>2, <1>3, <1>4 DEF CommandInvariant

\* What FetchAppDeclarations returns.
LEMMA FetchedOnce ==
  ASSUME NEW answered \in SUBSET Offered, NEW fetched \in LatestOf(answered)
  PROVE  /\ fetched \subseteq answered
         /\ \A d \in fetched, e \in answered : PairOf(d) = PairOf(e) => e.created <= d.created
         /\ \A d, e \in fetched : PairOf(d) = PairOf(e) => d = e
<1>1. /\ fetched \subseteq answered
      /\ \A d \in fetched, e \in answered : PairOf(d) = PairOf(e) => e.created <= d.created
      /\ \A e \in answered : Cardinality({d \in fetched : PairOf(d) = PairOf(e)}) = 1
  BY DEF LatestOf, LatestOf_any
<1>2. ASSUME NEW d \in fetched, NEW e \in fetched, PairOf(d) = PairOf(e) PROVE d = e
  <2> DEFINE same == {x \in fetched : PairOf(x) = PairOf(e)}
  <2>1. IsFiniteSet(same)
    <3>1. same \subseteq Offered
      BY <1>1
    <3> QED
      BY <3>1, OfferedAssumption, FS_Subset
  <2>2. Cardinality(same) = 1
    BY <1>1
  <2>3. d \in same /\ e \in same
    BY <1>2
  <2> HIDE DEF same
  <2>4. PICK x : same = {x}
    BY <2>1, <2>2, FS_Singleton
  <2> QED
    BY <2>3, <2>4
<1> QED
  BY <1>1, <1>2

LEMMA FetchStep ==
  ASSUME CommandInvariant, RunTyped', NEW answered \in SUBSET Offered, Fetch(answered)
  PROVE  CommandInvariant'
<1>1. PICK fetched \in LatestOf(answered) :
        run' = [run EXCEPT !.pc = "verify", !.answered = answered,
                           !.fetched = fetched, !.todo = fetched]
  BY DEF Fetch
<1>2. run.pc = "idle" /\ store' = store
  BY DEF Fetch
<1>3. /\ run'.pc = "verify" /\ run'.answered = answered /\ run'.fetched = fetched
      /\ run'.todo = fetched /\ run'.spent = run.spent /\ run'.overrun = run.overrun
      /\ run'.skipped = run.skipped
  BY <1>1 DEF CommandInvariant, RunTyped
<1>4. /\ fetched \subseteq answered
      /\ \A d \in fetched, e \in answered : PairOf(d) = PairOf(e) => e.created <= d.created
      /\ \A d, e \in fetched : PairOf(d) = PairOf(e) => d = e
  BY FetchedOnce
<1>5. ASSUME NEW g, SumsOver(g, fetched, Shares')
      PROVE  run.spent + g[fetched] <= g[fetched] + run.overrun
  <2>1. g[fetched] \in Nat /\ run.spent = 0 /\ run.overrun \in Nat
    BY <1>2, <1>5 DEF SumsOver, CommandInvariant, RunTyped
  <2> QED
    BY <2>1
<1>6. \A k \in Pairs : store[k] = <<>>
  BY <1>2 DEF CommandInvariant
<1> QED
  BY <1>2, <1>3, <1>4, <1>5, <1>6 DEF CommandInvariant

LEMMA VerifyStep ==
  ASSUME CommandInvariant, RunTyped', NEW e \in Offered,
         NEW waited \in Waits(e), VerifyNext(e, waited)
  PROVE  CommandInvariant'
<1> DEFINE k == PairOf(e)
           late == Late(e, waited)
           inTime == delay[SourceOf(e)] <= Allowed(e)
           fine == /\ Validate(CommandConfig, e)
                   /\ inTime
                   /\ RepositoryConfirms(e) /\ Translates(e)
<1>1. /\ run.pc = "verify" /\ e \in run.todo /\ run.spent < Budget /\ delay' = delay
      /\ run' = [run EXCEPT !.todo = @ \ {e}, !.spent = @ + waited, !.overrun = @ + late]
      /\ store' = IF fine THEN [store EXCEPT ![k] =
                                  AddRevision(CommandConfig, {}, @, Stored(e))]
                          ELSE store
  BY DEF VerifyNext, Stored, Late
<1>2. delay[SourceOf(e)] \in Nat /\ run.spent \in Nat /\ run.overrun \in Nat
  BY DEF CommandInvariant, RunTyped, Sources
<1>3. /\ waited \in Nat /\ late \in Nat /\ waited <= Share(e) + late
      /\ ~inTime /\ delay[SourceOf(e)] <= PerApp /\ Validate(CommandConfig, e)
           => run.spent + waited >= Budget
  BY <1>1, WaitsProperties DEF CommandInvariant
<1> HIDE DEF late, inTime
<1>4. /\ run'.pc = run.pc /\ run'.answered = run.answered /\ run'.fetched = run.fetched
      /\ run'.todo = run.todo \ {e} /\ run'.spent = run.spent + waited
      /\ run'.overrun = run.overrun + late /\ run'.skipped = run.skipped
  BY <1>1 DEF CommandInvariant, RunTyped
<1>5. k \in Pairs /\ store[k] = <<>>
  <2>1. k \in Pairs
    BY OfferedAssumption
  <2>2. ASSUME NEW d \in run.fetched \ run.todo PROVE PairOf(d) # k
    BY <1>1, <2>2 DEF CommandInvariant
  <2> QED
    BY <2>1, <2>2 DEF CommandInvariant
<1>6. /\ store' = IF fine THEN [store EXCEPT ![k] = <<Stored(e)>>] ELSE store
      /\ DOMAIN store' = Pairs
      /\ \A l \in Pairs : store'[l] = IF fine /\ l = k THEN <<Stored(e)>> ELSE store[l]
  <2>1. AddRevision(CommandConfig, {}, store[k], Stored(e)) = <<Stored(e)>>
    BY <1>5, AddToEmpty
  <2>2. store' = IF fine THEN [store EXCEPT ![k] = <<Stored(e)>>] ELSE store
    BY <1>1, <2>1
  <2> HIDE DEF fine, k
  <2> QED
    BY <2>2 DEF CommandInvariant
<1> HIDE DEF k
<1>7. ASSUME NEW l \in Pairs
      PROVE  \/ store'[l] = <<>>
             \/ \E d \in run'.fetched \ run'.todo : PairOf(d) = l /\ store'[l] = <<Stored(d)>>
  <2>1. CASE fine /\ l = k
    BY <1>1, <1>4, <1>6, <2>1 DEF k, CommandInvariant
  <2>2. CASE ~(fine /\ l = k)
    <3>1. store'[l] = store[l]
      BY <1>6, <2>2
    <3>2. run.fetched \ run.todo \subseteq run'.fetched \ run'.todo
      BY <1>4
    <3> QED
      BY <3>1, <3>2 DEF CommandInvariant
  <2> QED
    BY <2>1, <2>2
<1>8. ASSUME run'.spent < Budget, NEW d \in run'.fetched \ run'.todo, Fine(d)'
      PROVE  store'[PairOf(d)] = <<Stored(d)>>
  <2>1. Fine(d) /\ d \in run.fetched /\ PairOf(d) \in Pairs
    BY <1>1, <1>4, <1>8, OfferedAssumption DEF Fine, CommandInvariant
  <2>2. CASE d = e
    <3>1. inTime
      BY <1>2, <1>3, <1>4, <1>8, <2>1, <2>2, CommandTimesAssumption DEF Fine
    <3> QED
      BY <1>6, <2>1, <2>2, <3>1 DEF k, Fine
  <2>3. CASE d # e
    <3>1. d \notin run.todo
      BY <1>4, <1>8, <2>3
    <3>2. PairOf(d) # k
      BY <1>1, <2>1, <2>3 DEF k, CommandInvariant
    <3>3. store[PairOf(d)] = <<Stored(d)>>
      BY <1>1, <2>1, <3>1 DEF CommandInvariant
    <3> QED
      BY <1>6, <2>1, <3>2, <3>3
  <2> QED
    BY <2>2, <2>3
<1>9. ASSUME NEW g, SumsOver(g, run'.fetched, Shares')
      PROVE  run'.spent + g[run'.todo] <= g[run'.fetched] + run'.overrun
  <2> DEFINE fetched == run.fetched
             todo == run.todo
  <2>1. Shares' = Shares
    BY <1>1 DEF Shares, Share
  <2>2. SumsOver(g, fetched, Shares)
    BY <1>4, <1>9, <2>1
  <2>3. fetched \subseteq Offered /\ todo \subseteq fetched /\ e \in todo /\ IsFiniteSet(fetched)
    <3>1. fetched \subseteq Offered /\ todo \subseteq fetched /\ e \in todo
      BY <1>1 DEF CommandInvariant
    <3> QED
      BY <3>1, OfferedAssumption, FS_Subset
  <2>4. g[todo] = Share(e) + g[todo \ {e}]
    <3>1. Shares \in [Offered -> Nat] /\ Shares[e] = Share(e)
      BY SharesAreNatural DEF CommandInvariant, RunTyped, Shares
    <3>0. \A x \in fetched : Shares[x] \in Nat
      BY <2>3, <3>1
    <3> HIDE DEF fetched, todo
    <3>2. g[todo] = Shares[e] + g[todo \ {e}]
      BY <2>2, <2>3, <3>0, SumsLose
    <3> QED
      BY <3>1, <3>2
  <2>5. run.spent + g[todo] <= g[fetched] + run.overrun
    BY <2>2 DEF CommandInvariant
  <2>6. g[todo] \in Nat /\ g[todo \ {e}] \in Nat /\ g[fetched] \in Nat
    BY <2>2, <2>3 DEF SumsOver
  <2>7. Share(e) \in Nat
    BY <1>2, CommandTimesAssumption DEF Share, Shorter
  <2> QED
    BY <1>2, <1>3, <1>4, <2>4, <2>5, <2>6, <2>7
<1>10. run'.todo \subseteq run'.fetched /\ run'.pc = "verify"
  BY <1>1, <1>4 DEF CommandInvariant
<1> QED
  BY <1>4, <1>6, <1>7, <1>8, <1>9, <1>10 DEF CommandInvariant

LEMMA CommandGoesOn ==
  ASSUME CommandInvariant, CommandNext \/ UNCHANGED commandVars
  PROVE  CommandInvariant'
<1>1. RunTyped'
  BY CommandStep DEF CommandInvariant
<1>2. CASE UNCHANGED commandVars
  BY <1>1, <1>2 DEF commandVars, CommandInvariant, Fine, Shares, Share
<1>3. ASSUME NEW answered \in SUBSET Offered, Fetch(answered) PROVE CommandInvariant'
  BY <1>1, <1>3, FetchStep
<1>4. ASSUME NEW e \in Offered, NEW waited \in Waits(e), VerifyNext(e, waited)
      PROVE  CommandInvariant'
  BY <1>1, <1>4, VerifyStep
<1>5. CASE SkipRest
  <2>1. /\ run.spent >= Budget /\ run.pc = "verify"
        /\ run' = [run EXCEPT !.todo = {}, !.skipped = Cardinality(run.todo)]
        /\ UNCHANGED <<store, delay>>
    BY <1>5 DEF SkipRest
  <2>2. /\ run'.pc = run.pc /\ run'.answered = run.answered /\ run'.fetched = run.fetched
        /\ run'.todo = {} /\ run'.spent = run.spent /\ run'.overrun = run.overrun
        /\ run'.skipped = Cardinality(run.todo)
    BY <2>1 DEF CommandInvariant, RunTyped
  <2>3. run'.skipped \in 0 .. Cardinality(Offered)
    <3>1. run.todo \subseteq Offered
      BY DEF CommandInvariant
    <3>2. /\ IsFiniteSet(run.todo) /\ Cardinality(run.todo) <= Cardinality(Offered)
      BY <3>1, OfferedAssumption, FS_Subset
    <3>3. Cardinality(run.todo) \in Nat /\ Cardinality(Offered) \in Nat
      BY <3>2, OfferedAssumption, FS_CardinalityType
    <3> QED
      BY <2>2, <3>2, <3>3
  <2>4. ASSUME NEW k \in Pairs
        PROVE  \/ store'[k] = <<>>
               \/ \E e \in run'.fetched \ run'.todo : PairOf(e) = k /\ store'[k] = <<Stored(e)>>
    BY <2>1, <2>2 DEF CommandInvariant
  <2>5. ~(run'.spent < Budget)
    BY <2>1, <2>2, CommandTimesAssumption DEF CommandInvariant, RunTyped
  <2>6. ASSUME NEW g, SumsOver(g, run'.fetched, Shares')
        PROVE  run'.spent + g[run'.todo] <= g[run'.fetched] + run'.overrun
    <3>1. SumsOver(g, run.fetched, Shares)
      BY <2>1, <2>2, <2>6 DEF Shares, Share
    <3>2. run.spent + g[run.todo] <= g[run.fetched] + run.overrun
      BY <3>1 DEF CommandInvariant
    <3>3. run.todo \in SUBSET run.fetched
      BY DEF CommandInvariant
    <3>4. g[run.todo] \in Nat /\ g[run.fetched] \in Nat /\ g[{}] = 0
          /\ run.spent \in Nat /\ run.overrun \in Nat
      BY <3>1, <3>3, CommandTimesAssumption DEF SumsOver, CommandInvariant, RunTyped
    <3> QED
      BY <2>2, <3>2, <3>4
  <2> QED
    BY <1>1, <2>1, <2>2, <2>3, <2>4, <2>5, <2>6 DEF CommandInvariant
<1>6. CASE WriteSnapshot
  <2>1. /\ run.pc = "verify" /\ run.todo = {} /\ run' = [run EXCEPT !.pc = "done"]
        /\ UNCHANGED <<store, delay>>
    BY <1>6 DEF WriteSnapshot
  <2>2. /\ run'.pc = "done" /\ run'.answered = run.answered /\ run'.fetched = run.fetched
        /\ run'.todo = run.todo /\ run'.spent = run.spent /\ run'.overrun = run.overrun
        /\ run'.skipped = run.skipped
    BY <2>1 DEF CommandInvariant, RunTyped
  <2>3. Shares' = Shares /\ \A e : Fine(e)' <=> Fine(e)
    BY <2>1 DEF Shares, Share, Fine
  <2> QED
    BY <1>1, <2>1, <2>2, <2>3 DEF CommandInvariant
<1> QED
  BY <1>2, <1>3, <1>4, <1>5, <1>6 DEF CommandNext

\* The sum over the fetched declarations is the one the loop has counted down.
LEMMA TotalIsASum ==
  ASSUME delay \in [Sources -> Nat], NEW S \in SUBSET Offered
  PROVE  \E g : SumsOver(g, S, Shares) /\ MapThenSumSet(Share, S) = g[S]
<1> DEFINE One(s) == CHOOSE x \in s : TRUE
           Iterates(h) == h = [s \in SUBSET S |->
                                 IF s = {} THEN 0
                                 ELSE LET x == One(s) IN Share(x) + h[s \ {x}]]
           iter == CHOOSE h : Iterates(h)
<1>1. IsFiniteSet(S) /\ \A x \in S : Shares[x] \in Nat /\ Shares[x] = Share(x)
  <2>1. Shares \in [Offered -> Nat]
    BY SharesAreNatural
  <2>2. IsFiniteSet(S)
    BY OfferedAssumption, FS_Subset
  <2> QED
    BY <2>1, <2>2 DEF Shares
<1>2. PICK g : SumsOver(g, S, Shares)
  BY <1>1, SumsExist
<1>3. ASSUME NEW h, Iterates(h) PROVE \A s \in SUBSET S :
        h[s] = IF s = {} THEN 0 ELSE Shares[One(s)] + h[s \ {One(s)}]
  <2> TAKE s \in SUBSET S
  <2>1. h[s] = IF s = {} THEN 0 ELSE Share(One(s)) + h[s \ {One(s)}]
    BY <1>3
  <2>2. s # {} => One(s) \in S
    OBVIOUS
  <2> HIDE DEF One
  <2> QED
    BY <1>1, <2>1, <2>2
<1>4. Iterates(g)
  <2>1. g = [s \in SUBSET S |-> g[s]]
    BY <1>2 DEF SumsOver
  <2>2. ASSUME NEW s \in SUBSET S
        PROVE  g[s] = IF s = {} THEN 0 ELSE Share(One(s)) + g[s \ {One(s)}]
    <3>1. g[s] = IF s = {} THEN 0 ELSE Shares[One(s)] + g[s \ {One(s)}]
      BY <1>2 DEF SumsOver
    <3>2. s # {} => One(s) \in S
      OBVIOUS
    <3> HIDE DEF One
    <3> QED
      BY <1>1, <3>1, <3>2
  <2> HIDE DEF One
  <2> QED
    BY <2>1, <2>2, Zenon
<1>5. Iterates(iter)
  BY <1>4
<1>6. MapThenSumSet(Share, S) = iter[S]
  BY DEF MapThenSumSet, MapThenFoldSet
<1>7. /\ iter[{}] = 0 /\ g[{}] = 0
      /\ \A s \in SUBSET S : s # {} =>
           /\ iter[s] = Shares[One(s)] + iter[s \ {One(s)}]
           /\ g[s] = Shares[One(s)] + g[s \ {One(s)}]
  <2> HIDE DEF iter, One, Iterates
  <2> QED
    BY <1>3, <1>4, <1>5
<1> HIDE DEF iter, Iterates
<1>8. \A s \in SUBSET S : s # {} =>
        /\ s \ {One(s)} \in SUBSET S
        /\ Cardinality(s) \in Nat /\ Cardinality(s \ {One(s)}) = Cardinality(s) - 1
  <2> TAKE s \in SUBSET S
  <2> HAVE s # {}
  <2>1. One(s) \in s /\ IsFiniteSet(s)
    BY <1>1, FS_Subset
  <2> HIDE DEF One
  <2> QED
    BY <2>1, FS_RemoveElement, FS_CardinalityType
<1> HIDE DEF One
<1> DEFINE Same == {n \in Nat : \A s \in SUBSET S : Cardinality(s) = n => iter[s] = g[s]}
<1>9. 0 \in Same
  <2>1. ASSUME NEW s \in SUBSET S, Cardinality(s) = 0 PROVE s = {}
    BY <1>1, <2>1, FS_Subset, FS_EmptySet
  <2> QED
    BY <1>7, <2>1
<1>10. ASSUME NEW n \in Nat, n \in Same PROVE n + 1 \in Same
  <2> SUFFICES ASSUME NEW s \in SUBSET S, Cardinality(s) = n + 1 PROVE iter[s] = g[s]
    OBVIOUS
  <2>1. s # {}
    BY FS_EmptySet
  <2>2. iter[s \ {One(s)}] = g[s \ {One(s)}]
    BY <1>8, <1>10, <2>1
  <2> QED
    BY <1>7, <2>1, <2>2
<1> HIDE DEF Same
<1>11. Cardinality(S) \in Same
  <2>1. Nat \subseteq Same
    BY <1>9, <1>10, SetInduction
  <2> QED
    BY <1>1, <2>1, FS_CardinalityType
<1>12. iter[S] = g[S]
  BY <1>11 DEF Same
<1> QED
  BY <1>2, <1>6, <1>12

\* Slow hosts cost the others nothing they need but what their helpers take past
\* the deadline, whatever the relays return and in whatever order the map yields it.
THEOREM SlowHostsCostNoOther == Spec => []SlowHostsAreIsolated
<1>1. Init => CommandInvariant
  BY CommandInitially DEF Init
<1>2. CommandInvariant /\ [Next]_vars => CommandInvariant'
  BY PartsStep, CommandGoesOn
<1>3. CommandInvariant => SlowHostsAreIsolated
  <2> SUFFICES ASSUME CommandInvariant, run.pc = "done",
                      MapThenSumSet(Share, run.fetched) + run.overrun < Budget,
                      NEW e \in run.fetched, Fine(e)
               PROVE  \E i \in DOMAIN store[PairOf(e)] : store[PairOf(e)][i].event = e
    BY DEF SlowHostsAreIsolated, Fine
  <2>1. /\ delay \in [Sources -> Nat] /\ run.fetched \in SUBSET Offered
        /\ run.spent \in Nat /\ run.overrun \in Nat /\ run.todo = {}
    BY CommandTimesAssumption DEF CommandInvariant, RunTyped
  <2>2. PICK g : /\ SumsOver(g, run.fetched, Shares)
                 /\ MapThenSumSet(Share, run.fetched) = g[run.fetched]
    BY <2>1, TotalIsASum
  <2>3. run.spent + g[run.todo] <= g[run.fetched] + run.overrun
    BY <2>2 DEF CommandInvariant
  <2>4. g[run.todo] = 0 /\ g[run.fetched] \in Nat
    BY <2>1, <2>2 DEF SumsOver
  <2>5. run.spent < Budget
    <3>1. /\ run.spent <= g[run.fetched] + run.overrun
          /\ g[run.fetched] + run.overrun < Budget
      BY <2>1, <2>2, <2>3, <2>4
    <3> QED
      BY <2>1, <2>4, <3>1, CommandTimesAssumption
  <2>6. store[PairOf(e)] = <<Stored(e)>>
    BY <2>1, <2>5 DEF CommandInvariant
  <2>7. 1 \in DOMAIN <<Stored(e)>> /\ <<Stored(e)>>[1].event = e
    BY DEF Stored
  <2> QED
    BY <2>6, <2>7
<1> QED
  BY <1>1, <1>2, <1>3, PTL DEF Spec

\* The command's store has one revision of a pair at most, and it is one fetched.
LEMMA PrintedIsStored ==
  ASSUME CommandInvariant, NEW app \in Apps, NEW r \in Printed(app)
  PROVE  r.event \in run.fetched
<1> DEFINE S == Candidates(CommandConfig, store, {}, app)
<1>1. ASSUME NEW c \in S PROVE \E e \in run.fetched : c = Stored(e)
  <2>1. PICK q \in Publishers :
          c \in SelectAccepted(CommandConfig, {}, store[<<q, app>>])
    BY DEF Candidates
  <2> DEFINE revs == store[<<q, app>>]
             ok == {i \in DOMAIN revs : Installable(CommandConfig, {}, revs[i])}
  <2>2. ok # {} /\ c = revs[Min(ok)]
    BY <2>1 DEF SelectAccepted
  <2>3. revs # <<>>
    <3>1. DOMAIN <<>> = {}
      OBVIOUS
    <3> QED
      BY <2>2, <3>1
  <2>4. <<q, app>> \in Pairs
    BY DEF Pairs
  <2>5. PICK e \in run.fetched : revs = <<Stored(e)>>
    BY <2>3, <2>4 DEF CommandInvariant
  <2>6. DOMAIN revs = {1} /\ revs[1] = Stored(e)
    <3> HIDE DEF revs
    <3> QED
      BY <2>5
  <2>7. ok = {1}
    BY <2>2, <2>6
  <2>8. Min({1}) = 1
    BY MinIsLeast
  <2> QED
    BY <2>2, <2>6, <2>7, <2>8
<1>2. IsFiniteSet(S)
  <2> DEFINE all == {Stored(e) : e \in Offered}
             f == [e \in Offered |-> Stored(e)]
  <2>1. f \in Surjection(Offered, all)
    BY DEF Surjection
  <2>2. IsFiniteSet(all)
    BY <2>1, OfferedAssumption, FS_Surjection
  <2>3. S \subseteq all
    BY <1>1 DEF CommandInvariant
  <2> HIDE DEF all, S
  <2> QED
    BY <2>2, <2>3, FS_Subset
<1> HIDE DEF S
<1>3. ASSUME NEW f \in SetToSeqs(S)
      PROVE  SelectForApp(CommandConfig, f, {}) \subseteq S
  <2>1. f \in Seq(S) /\ Len(f) \in Nat /\ DOMAIN f = 1 .. Cardinality(S)
        /\ \A i \in 1 .. Cardinality(S) : f[i] \in S
    BY <1>2, Enumerations
  <2>2. CASE Len(f) <= 1
    BY <2>1, <2>2 DEF SelectForApp, ToSet
  <2>3. CASE Len(f) > 1
    <3>1. SelectSameSourceLatest(f) \subseteq S
      BY <1>2, <2>3, LatestIsMember
    <3>2. SelectForApp(CommandConfig, f, {}) \in {SelectSameSourceLatest(f), {}}
      BY <2>1, <2>3, CommandConfigAssumption DEF SelectForApp, CurationConfigured
    <3> QED
      BY <3>1, <3>2
  <2> QED
    BY <2>1, <2>2, <2>3
<1>4. SetToSeqs(S) # {}
  BY <1>2, Enumerations
<1>5. Printed(app) \in SnapshotOutcomes(CommandConfig, store, {}, {}, app)
  BY <1>4 DEF Printed, Listed, SnapshotOutcomes, S
<1>6. r \in S
  BY <1>3, <1>5 DEF SnapshotOutcomes, S
<1>7. PICK e \in run.fetched : r = Stored(e)
  BY <1>1, <1>6
<1> QED
  BY <1>7 DEF Stored

\* An older declaration is never printed in the place of a newer one the relays
\* know of.
THEOREM OnlyTheNewestIsPrinted == Spec => []PrintedIsNewest
<1>1. Init => CommandInvariant
  BY CommandInitially DEF Init
<1>2. CommandInvariant /\ [Next]_vars => CommandInvariant'
  BY PartsStep, CommandGoesOn
<1>3. CommandInvariant => PrintedIsNewest
  BY PrintedIsStored DEF CommandInvariant, PrintedIsNewest
<1> QED
  BY <1>1, <1>2, <1>3, PTL DEF Spec

-----------------------------------------------------------------------------
(* The profile form: the invariant behind it, for any number of edits at once *)

EditStates == [pc : {"idle", "publish", "open", "write", "rename"},
               profile : Profiles \cup {NoProfile}, fd : ProfileInodes \cup {NoFile},
               alone : BOOLEAN]

ProfileTyped ==
  /\ edit \in [Edits -> EditStates]
  /\ profileFile \in [ProfileInodes -> Profiles \cup {TornProfile}]
  /\ profilePath \in ProfileInodes \cup {NoFile}
  /\ profileTmp \in ProfileInodes \cup {NoFile}
  /\ \A h \in Edits : edit[h].pc # "idle" => edit[h].profile \in Profiles
  /\ \A h \in Edits : edit[h].pc # "write" => edit[h].fd = NoFile

\* No edit begins on the file itself, whatever stays at path.tmp.
TmpIsNotTheFile == profileTmp # NoFile => profileTmp # profilePath

\* An edit that runs alone has path.tmp to itself until it renames it.
AloneOwnsTmp ==
  \A h \in Edits : edit[h].alone =>
    /\ edit[h].pc # "idle"
    /\ \A g \in Edits : g # h => edit[g].pc = "idle"
    /\ edit[h].pc # "publish" => live = edit[h].profile
    /\ edit[h].pc = "write" =>
         /\ edit[h].fd = profileTmp /\ profileTmp # NoFile
         /\ profileFile[profileTmp] = TornProfile
    /\ edit[h].pc = "rename" =>
         /\ profileTmp # NoFile
         /\ profileFile[profileTmp] = edit[h].profile

\* Nothing writes while the form and the relays agree: the next edit that gets
\* that far has changed what is live.
SettledIsLive ==
  settled => /\ ProfileForm = live
             /\ \A h \in Edits : edit[h].pc \in {"idle", "publish"}

ProfileInvariant ==
  /\ ProfileTyped
  /\ TmpIsNotTheFile
  /\ AloneOwnsTmp
  /\ SettledIsLive

LEMMA FreshFileIsFree ==
  ASSUME ProfileTyped, profileTmp = NoFile
  PROVE  /\ FreshFile \in ProfileInodes
         /\ FreshFile # profilePath
<1> DEFINE open == [h \in Edits |-> edit[h].fd]
<1>1. open \in [Edits -> Int]
  BY DEF ProfileTyped, EditStates, ProfileInodes, NoFile
<1> HIDE DEF open
<1>2. PICK i \in ProfileInodes : i # profilePath /\ \A h \in Edits : i # open[h]
  BY <1>1, EditsAssumption, OneIsFree DEF ProfileInodes
<1> QED
  BY <1>2 DEF open, FreshFile, ProfileInodes, NoFile

LEMMA ProfileInitially == ProfileInit => ProfileInvariant
<1> SUFFICES ASSUME ProfileInit PROVE ProfileInvariant
  OBVIOUS
<1>1. IdleEdit \in EditStates
  BY DEF IdleEdit, EditStates
<1>2. ProfileTyped
  BY <1>1 DEF ProfileInit, ProfileTyped, IdleEdit
<1> QED
  BY <1>2 DEF ProfileInit, ProfileInvariant, TmpIsNotTheFile, AloneOwnsTmp, SettledIsLive,
              ProfileForm, IdleEdit

\* One edit goes on, the others stay where they are.
LEMMA OneEditMoves ==
  ASSUME ProfileTyped, NEW h \in Edits, NEW s \in EditStates,
         edit' = [edit EXCEPT ![h] = s],
         s.pc # "idle" => s.profile \in Profiles,
         s.pc # "write" => s.fd = NoFile
  PROVE  /\ edit' \in [Edits -> EditStates]
         /\ edit'[h] = s
         /\ \A g \in Edits : g # h => edit'[g] = edit[g]
         /\ \A g \in Edits : edit'[g].pc # "idle" => edit'[g].profile \in Profiles
         /\ \A g \in Edits : edit'[g].pc # "write" => edit'[g].fd = NoFile
BY DEF ProfileTyped

LEMMA IdleEdits == IdleEdit \in EditStates /\ IdleEdit.pc = "idle" /\ ~IdleEdit.alone
  /\ IdleEdit.fd = NoFile
BY DEF IdleEdit, EditStates

\* An edit goes on, with a file open or without.
LEMMA EditGoesOn ==
  ASSUME ProfileTyped, NEW h \in Edits, NEW pc \in {"open", "write", "rename"},
         NEW fd \in ProfileInodes \cup {NoFile}, GoOn(h, pc, fd),
         edit[h].pc # "idle", pc # "write" => fd = NoFile
  PROVE  /\ edit' \in [Edits -> EditStates]
         /\ edit'[h].pc = pc /\ edit'[h].fd = fd
         /\ edit'[h].profile = edit[h].profile /\ edit'[h].alone = edit[h].alone
         /\ \A g \in Edits : g # h => edit'[g] = edit[g]
         /\ \A g \in Edits : edit'[g].pc # "idle" => edit'[g].profile \in Profiles
         /\ \A g \in Edits : edit'[g].pc # "write" => edit'[g].fd = NoFile
<1> DEFINE s == [pc |-> pc, profile |-> edit[h].profile, fd |-> fd,
                 alone |-> edit[h].alone]
<1>1. edit[h] \in EditStates /\ edit[h].profile \in Profiles
  BY DEF ProfileTyped
<1>2. s \in EditStates
  BY <1>1 DEF EditStates
<1>3. edit' = [edit EXCEPT ![h] = s]
  BY DEF GoOn
<1>4. /\ edit' \in [Edits -> EditStates]
      /\ edit'[h] = s
      /\ \A g \in Edits : g # h => edit'[g] = edit[g]
      /\ \A g \in Edits : edit'[g].pc # "idle" => edit'[g].profile \in Profiles
      /\ \A g \in Edits : edit'[g].pc # "write" => edit'[g].fd = NoFile
  BY <1>1, <1>2, <1>3, OneEditMoves
<1> QED
  BY <1>4

LEMMA BeginEditStep ==
  ASSUME ProfileInvariant, NEW h \in Edits, NEW profile \in Profiles, BeginEdit(h, profile)
  PROVE  ProfileInvariant'
<1>1. /\ edit' = [g \in Edits |->
           IF g = h
             THEN [pc |-> "publish", profile |-> profile, fd |-> NoFile,
                   alone |-> UnderWay = {}]
             ELSE [edit[g] EXCEPT !.alone = FALSE]]
      /\ UNCHANGED <<profileFile, profilePath, profileTmp, live, settled>>
  BY DEF BeginEdit
<1>2. \A g \in Edits : edit[g] \in EditStates
  BY DEF ProfileInvariant, ProfileTyped
<1>3. \A g \in Edits : g # h =>
        /\ edit'[g] \in EditStates /\ ~edit'[g].alone
        /\ edit'[g].pc = edit[g].pc /\ edit'[g].fd = edit[g].fd
        /\ edit'[g].profile = edit[g].profile
  BY <1>1, <1>2 DEF EditStates
<1>4. /\ edit'[h] \in EditStates /\ edit'[h].pc = "publish" /\ edit'[h].fd = NoFile
      /\ edit'[h].profile = profile /\ edit'[h].alone = (UnderWay = {})
  BY <1>1 DEF EditStates
<1>5. ProfileTyped'
  BY <1>1, <1>3, <1>4 DEF ProfileInvariant, ProfileTyped
<1>6. AloneOwnsTmp'
  <2>1. edit'[h].alone => \A g \in Edits : edit[g].pc = "idle"
    BY <1>4 DEF UnderWay
  <2> QED
    BY <1>3, <1>4, <2>1 DEF AloneOwnsTmp
<1>7. SettledIsLive'
  BY <1>1, <1>3, <1>4 DEF ProfileInvariant, SettledIsLive, ProfileForm
<1> QED
  BY <1>1, <1>5, <1>6, <1>7 DEF ProfileInvariant, TmpIsNotTheFile

\* An edit is over, with nothing changed in the files.
LEMMA GiveUpStep ==
  ASSUME ProfileInvariant, NEW h \in Edits, GiveUp(h),
         UNCHANGED <<profileFile, profilePath, profileTmp>>,
         (live' = live /\ settled' = settled) \/ settled' = FALSE,
         live' = live \/ \A g \in Edits : edit[g].alone => g = h
  PROVE  ProfileInvariant'
<1>1. /\ edit' \in [Edits -> EditStates]
      /\ edit'[h] = IdleEdit
      /\ \A g \in Edits : g # h => edit'[g] = edit[g]
      /\ \A g \in Edits : edit'[g].pc # "idle" => edit'[g].profile \in Profiles
      /\ \A g \in Edits : edit'[g].pc # "write" => edit'[g].fd = NoFile
  BY IdleEdits, OneEditMoves DEF GiveUp, ProfileInvariant
<1>2. ProfileTyped'
  BY <1>1 DEF ProfileInvariant, ProfileTyped
<1>3. AloneOwnsTmp'
  BY <1>1, IdleEdits DEF ProfileInvariant, AloneOwnsTmp
<1>4. SettledIsLive'
  BY <1>1, IdleEdits DEF ProfileInvariant, SettledIsLive, ProfileForm
<1> QED
  BY <1>2, <1>3, <1>4 DEF ProfileInvariant, TmpIsNotTheFile

\* Of two edits under way neither runs alone.
LEMMA OnlyOneAlone ==
  ASSUME ProfileInvariant, NEW h \in Edits, edit[h].pc # "idle"
  PROVE  \A g \in Edits : edit[g].alone => g = h
BY DEF ProfileInvariant, AloneOwnsTmp

LEMMA AcceptedStep ==
  ASSUME ProfileInvariant, NEW h \in Edits, ProfileAccepted(h)
  PROVE  ProfileInvariant'
<1>1. edit[h].pc = "publish" /\ GoOn(h, "open", NoFile)
  BY DEF ProfileAccepted, Save
<1>2. /\ edit' \in [Edits -> EditStates]
      /\ edit'[h].pc = "open"
      /\ edit'[h].profile = edit[h].profile /\ edit'[h].alone = edit[h].alone
      /\ \A g \in Edits : g # h => edit'[g] = edit[g]
      /\ \A g \in Edits : edit'[g].pc # "idle" => edit'[g].profile \in Profiles
      /\ \A g \in Edits : edit'[g].pc # "write" => edit'[g].fd = NoFile
  BY <1>1, EditGoesOn DEF ProfileInvariant
<1>3. /\ UNCHANGED <<profileFile, profilePath, profileTmp>>
      /\ live' = edit[h].profile /\ settled' = FALSE
  BY DEF ProfileAccepted
<1>4. ProfileTyped'
  BY <1>2, <1>3 DEF ProfileInvariant, ProfileTyped
<1>5. AloneOwnsTmp'
  BY <1>1, <1>2, <1>3, OnlyOneAlone DEF ProfileInvariant, AloneOwnsTmp
<1> QED
  BY <1>3, <1>4, <1>5 DEF ProfileInvariant, TmpIsNotTheFile, SettledIsLive

LEMMA OpenStep ==
  ASSUME ProfileInvariant, NEW h \in Edits, OpenProfileTmp(h)
  PROVE  ProfileInvariant'
<1> DEFINE i == IF profileTmp = NoFile THEN FreshFile ELSE profileTmp
<1>1. /\ edit[h].pc = "open" /\ profileTmp' = i
      /\ profileFile' = [profileFile EXCEPT ![i] = TornProfile]
      /\ GoOn(h, "write", i)
      /\ UNCHANGED <<profilePath, live, settled>>
  BY DEF OpenProfileTmp
<1>2. i \in ProfileInodes /\ i # profilePath /\ i # NoFile
  BY FreshFileIsFree DEF ProfileInvariant, ProfileTyped, TmpIsNotTheFile, ProfileInodes,
                         NoFile
<1> HIDE DEF i
<1>3. /\ edit' \in [Edits -> EditStates]
      /\ edit'[h].pc = "write" /\ edit'[h].fd = i
      /\ edit'[h].profile = edit[h].profile /\ edit'[h].alone = edit[h].alone
      /\ \A g \in Edits : g # h => edit'[g] = edit[g]
      /\ \A g \in Edits : edit'[g].pc # "idle" => edit'[g].profile \in Profiles
      /\ \A g \in Edits : edit'[g].pc # "write" => edit'[g].fd = NoFile
  BY <1>1, <1>2, EditGoesOn DEF ProfileInvariant
<1>4. profileFile'[i] = TornProfile
  BY <1>1, <1>2 DEF ProfileInvariant, ProfileTyped
<1>5. ProfileTyped'
  BY <1>1, <1>2, <1>3 DEF ProfileInvariant, ProfileTyped
<1>6. AloneOwnsTmp'
  BY <1>1, <1>2, <1>3, <1>4, OnlyOneAlone DEF ProfileInvariant, AloneOwnsTmp
<1>7. ~settled
  BY <1>1 DEF ProfileInvariant, SettledIsLive
<1> QED
  BY <1>1, <1>2, <1>5, <1>6, <1>7 DEF ProfileInvariant, TmpIsNotTheFile, SettledIsLive

LEMMA WriteStep ==
  ASSUME ProfileInvariant, NEW h \in Edits, WriteProfileTmp(h)
  PROVE  ProfileInvariant'
<1> DEFINE i == edit[h].fd
           written == edit[h].profile
<1>1. edit[h].pc = "write" /\ GoOn(h, "rename", NoFile)
      /\ UNCHANGED <<profilePath, profileTmp, live, settled>>
  BY DEF WriteProfileTmp
<1>2. PICK result \in {written, TornProfile} :
        /\ profileFile' = [profileFile EXCEPT ![i] = result]
        /\ profileFile[i] = TornProfile => result = written
  BY DEF WriteProfileTmp
<1>3. written \in Profiles
  BY <1>1 DEF ProfileInvariant, ProfileTyped
<1>4. /\ edit' \in [Edits -> EditStates]
      /\ edit'[h].pc = "rename" /\ edit'[h].profile = written
      /\ edit'[h].alone = edit[h].alone
      /\ \A g \in Edits : g # h => edit'[g] = edit[g]
      /\ \A g \in Edits : edit'[g].pc # "idle" => edit'[g].profile \in Profiles
      /\ \A g \in Edits : edit'[g].pc # "write" => edit'[g].fd = NoFile
  BY <1>1, EditGoesOn DEF ProfileInvariant
<1>5. ProfileTyped'
  BY <1>1, <1>2, <1>3, <1>4 DEF ProfileInvariant, ProfileTyped
<1>6. ASSUME edit[h].alone
      PROVE  profileTmp' # NoFile /\ profileFile'[profileTmp'] = written
  BY <1>1, <1>2, <1>6 DEF ProfileInvariant, AloneOwnsTmp, ProfileTyped
<1>7. AloneOwnsTmp'
  BY <1>1, <1>4, <1>6, OnlyOneAlone DEF ProfileInvariant, AloneOwnsTmp
<1>8. ~settled
  BY <1>1 DEF ProfileInvariant, SettledIsLive
<1> QED
  BY <1>1, <1>5, <1>7, <1>8 DEF ProfileInvariant, TmpIsNotTheFile, SettledIsLive

LEMMA RenameStep ==
  ASSUME ProfileInvariant, NEW h \in Edits, RenameProfileTmp(h)
  PROVE  ProfileInvariant'
<1>1. edit[h].pc = "rename" /\ GiveUp(h) /\ UNCHANGED <<profileFile, live>>
  BY DEF RenameProfileTmp
<1>2. CASE UNCHANGED <<profilePath, profileTmp, settled>>
  BY <1>1, <1>2, GiveUpStep
<1>3. CASE /\ profileTmp # NoFile /\ profilePath' = profileTmp
           /\ profileTmp' = NoFile /\ settled' = edit[h].alone
  <2>1. /\ edit' \in [Edits -> EditStates]
        /\ edit'[h] = IdleEdit
        /\ \A g \in Edits : g # h => edit'[g] = edit[g]
        /\ \A g \in Edits : edit'[g].pc # "idle" => edit'[g].profile \in Profiles
        /\ \A g \in Edits : edit'[g].pc # "write" => edit'[g].fd = NoFile
    BY <1>1, IdleEdits, OneEditMoves DEF GiveUp, ProfileInvariant
  <2>2. ProfileTyped'
    BY <1>1, <1>3, <2>1 DEF ProfileInvariant, ProfileTyped
  <2>3. \A g \in Edits : ~edit'[g].alone
    BY <1>1, <2>1, IdleEdits, OnlyOneAlone
  <2>4. SettledIsLive'
    <3> SUFFICES ASSUME edit[h].alone
                 PROVE  /\ ProfileForm' = live'
                        /\ \A g \in Edits : edit'[g].pc \in {"idle", "publish"}
      BY <1>3 DEF SettledIsLive
    <3>1. ProfileForm' = live'
      BY <1>1, <1>3 DEF ProfileInvariant, AloneOwnsTmp, ProfileForm
    <3>2. \A g \in Edits : edit'[g].pc = "idle"
      BY <2>1, IdleEdits DEF ProfileInvariant, AloneOwnsTmp
    <3> QED
      BY <3>1, <3>2
  <2> QED
    BY <1>3, <2>2, <2>3, <2>4 DEF ProfileInvariant, TmpIsNotTheFile, AloneOwnsTmp
<1> QED
  BY <1>2, <1>3 DEF RenameProfileTmp

LEMMA ProfileStep ==
  ASSUME ProfileInvariant, ProfileNext \/ UNCHANGED profileVars
  PROVE  ProfileInvariant'
<1>1. CASE UNCHANGED profileVars
  BY <1>1 DEF profileVars, ProfileInvariant, ProfileTyped, TmpIsNotTheFile, AloneOwnsTmp,
              SettledIsLive, ProfileForm
<1>2. ASSUME NEW h \in Edits, NEW profile \in Profiles, BeginEdit(h, profile)
      PROVE  ProfileInvariant'
  BY <1>2, BeginEditStep
<1>3. ASSUME NEW h \in Edits,
             ProfileRefused(h) \/ ProfileUnacknowledged(h) \/ FailProfileSave(h)
      PROVE  ProfileInvariant'
  <2>1. edit[h].pc # "idle" /\ GiveUp(h)
        /\ UNCHANGED <<profileFile, profilePath, profileTmp>>
        /\ ((live' = live /\ settled' = settled) \/ settled' = FALSE)
    BY <1>3 DEF ProfileRefused, ProfileUnacknowledged, FailProfileSave
  <2> QED
    BY <2>1, OnlyOneAlone, GiveUpStep
<1>4. ASSUME NEW h \in Edits,
             ProfileAccepted(h) \/ OpenProfileTmp(h) \/ WriteProfileTmp(h)
               \/ RenameProfileTmp(h)
      PROVE  ProfileInvariant'
  BY <1>4, AcceptedStep, OpenStep, WriteStep, RenameStep
<1> QED
  BY <1>1, <1>2, <1>3, <1>4 DEF ProfileNext

\* After an edit that ran alone the form shows the profile the relays hold, with
\* any number of edits before it that overlapped, failed or lost their answer.
THEOREM FormShowsLiveProfile == Spec => []ProfileFormIsLive
<1>1. Init => ProfileInvariant
  BY ProfileInitially DEF Init
<1>2. ProfileInvariant /\ [Next]_vars => ProfileInvariant'
  BY PartsStep, ProfileStep
<1>3. ProfileInvariant => ProfileFormIsLive
  BY DEF ProfileInvariant, SettledIsLive, ProfileFormIsLive
<1> QED
  BY <1>1, <1>2, <1>3, PTL DEF Spec

-----------------------------------------------------------------------------
(* The parts together *)

\* Every variable of every part keeps its type.
LiveTyped == live \in Profiles \cup {NoProfile}

CheckTyped ==
  /\ published \subseteq CheckedEvents
  /\ check.pc \in {"idle", "declaration", "clone"}

LEMMA LiveStaysTyped ==
  ASSUME ProfileInvariant, LiveTyped, ProfileNext \/ UNCHANGED profileVars
  PROVE  LiveTyped'
<1>1. CASE UNCHANGED profileVars
  BY <1>1 DEF profileVars, LiveTyped
<1>2. ASSUME NEW h \in Edits, ProfileAccepted(h) \/ ProfileUnacknowledged(h)
      PROVE  LiveTyped'
  <2>1. edit[h].pc # "idle" /\ live' = edit[h].profile
    BY <1>2 DEF ProfileAccepted, ProfileUnacknowledged
  <2> QED
    BY <2>1 DEF ProfileInvariant, ProfileTyped, LiveTyped
<1>3. ASSUME live' = live PROVE LiveTyped'
  BY <1>3 DEF LiveTyped
<1> QED
  BY <1>1, <1>2, <1>3
     DEF ProfileNext, BeginEdit, ProfileRefused, OpenProfileTmp, WriteProfileTmp,
         RenameProfileTmp, FailProfileSave

LEMMA CheckStaysTyped ==
  ASSUME CheckInvariant, CheckTyped, CheckNext \/ UNCHANGED checkVars
  PROVE  CheckTyped'
<1>1. CASE UNCHANGED checkVars
  BY <1>1 DEF checkVars, CheckTyped
<1>2. ASSUME NEW x \in CheckedEvents, PublishEvent(x) PROVE CheckTyped'
  BY <1>2 DEF PublishEvent, CheckTyped
<1>3. ASSUME check'.pc \in {"idle", "declaration", "clone"}, published' = published
      PROVE  CheckTyped'
  BY <1>3 DEF CheckTyped
<1>4. ASSUME NEW r, NEW found, RewriteRepository(r, found) PROVE CheckTyped'
  BY <1>4 DEF RewriteRepository, CheckTyped
<1>5. ASSUME NEW d, NEW known, HandleReverify(d, known) PROVE CheckTyped'
  BY <1>3, <1>5 DEF HandleReverify
<1>6. ASSUME NEW address, NEW answered, FetchAttestation(address, answered)
      PROVE  CheckTyped'
  BY <1>3, <1>6 DEF FetchAttestation, IdleCheck
<1>7. ASSUME NEW answered, FetchDeclaration(answered) PROVE CheckTyped'
  <2>1. CASE check' = IdleCheck
    BY <1>3, <1>7, <2>1 DEF FetchDeclaration, IdleCheck
  <2>2. ASSUME NEW d, check' = [check EXCEPT !.pc = "clone", !.decl = d, !.known = answered,
                                             !.left = CheckTimeout]
        PROVE  CheckTyped'
    <3>1. check'.pc = "clone"
      BY <2>2 DEF CheckInvariant
    <3> QED
      BY <1>3, <1>7, <3>1 DEF FetchDeclaration
  <2> QED
    BY <1>7, <2>1, <2>2 DEF FetchDeclaration
<1>8. ASSUME NEW time, CloneNext(time) PROVE CheckTyped'
  <2>1. check'.pc = check.pc
    BY <1>8 DEF CloneNext, CloneWith, CheckInvariant
  <2> QED
    BY <1>3, <1>8, <2>1 DEF CloneNext, CloneWith, CheckTyped
<1>9. CASE Report
  BY <1>3, <1>9 DEF Report, IdleCheck
<1> QED
  BY <1>1, <1>2, <1>4, <1>5, <1>6, <1>7, <1>8, <1>9 DEF CheckNext

Invariant ==
  /\ SessionTyped
  /\ EndorsementInvariant /\ PageInvariant
  /\ ProfileInvariant /\ LiveTyped
  /\ CheckInvariant /\ CheckTyped
  /\ CommandInvariant

\* The invariants of all the parts together: each part keeps its own, and the type
\* of everything the parts have is one consequence.
THEOREM TypeCorrect == Spec => []TypeOK
<1>1. Init => Invariant
  <2> SUFFICES ASSUME Init PROVE Invariant
    OBVIOUS
  <2>1. LiveTyped
    BY DEF Init, ProfileInit, LiveTyped
  <2>2. CheckTyped
    BY DEF Init, CheckInit, CheckTyped, IdleCheck
  <2> QED
    BY <2>1, <2>2, SessionInitiallyTyped, EndorsementInitially, PageInitially,
       ProfileInitially, CheckInitially, CommandInitially DEF Init, Invariant
<1>2. Invariant /\ [Next]_vars => Invariant'
  BY PartsStep, SessionStaysTyped, EndorsementStep, PageStep, ProfileStep, LiveStaysTyped,
     CheckStep, CheckStaysTyped, CommandGoesOn DEF Invariant
<1>3. Invariant => TypeOK
  <2> SUFFICES ASSUME Invariant PROVE TypeOK
    OBVIOUS
  <2>1. SessionTypeOK
    BY SessionTypes DEF Invariant
  <2>2. EndorsementTypeOK
    BY DEF Invariant, PageInvariant, EndorsementTypeOK
  <2>3. ProfileTypeOK
    BY DEF Invariant, ProfileInvariant, ProfileTyped, LiveTyped, ProfileTypeOK, EditStates
  <2>4. CheckTypeOK
    BY CheckTimeoutAssumption DEF Invariant, CheckInvariant, CheckTyped, CheckTypeOK
  <2>5. CommandTypeOK
    <3>1. \A k \in Pairs : Len(store[k]) <= 1
      <4> TAKE k \in Pairs
      <4>1. store[k] = <<>> \/ \E e : store[k] = <<Stored(e)>>
        BY DEF Invariant, CommandInvariant
      <4>2. CASE store[k] = <<>>
        BY <4>2
      <4>3. ASSUME NEW e, store[k] = <<Stored(e)>>
            PROVE  Len(store[k]) <= 1
        BY <4>3
      <4> QED
        BY <4>1, <4>2, <4>3
    <3> QED
      BY <3>1 DEF Invariant, CommandInvariant, CommandTypeOK
  <2> QED
    BY <2>1, <2>2, <2>3, <2>4, <2>5 DEF TypeOK
<1> QED
  BY <1>1, <1>2, <1>3, PTL DEF Spec
=============================================================================
