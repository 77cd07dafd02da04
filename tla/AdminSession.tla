---------------------------- MODULE AdminSession ----------------------------
(***************************************************************************)
(* The token every POST of the admin page carries, between the handlers of *)
(* cmd/nostr-catalogd/admin.go that issue and check it and the page that   *)
(* keeps it (admin_static/index.html).  The cookie belongs to the browser, *)
(* the token to a tab: each of the page's two loaders fetches a response   *)
(* that carries one and, when it is done, stores it in csrfToken.  A       *)
(* loader that gets an error for an answer throws, and stores nothing.     *)
(*                                                                         *)
(*   tab[t].token       csrfToken, NoToken in a page that has none yet     *)
(*   tab[t].loader[l]   pc "idle", "sent" with the cookie the browser had, *)
(*                      or "answered" with the token it will store         *)
(* Op_fault is Op with one plausible mistake.                              *)
(***************************************************************************)
EXTENDS Integers

CONSTANTS Tabs,        \* tabs of one browser
          FirstVisit,  \* whether the browser has no cookie yet
          MaxLoads     \* bound on the loads begun

ASSUME FirstVisitAssumption == FirstVisit \in BOOLEAN
ASSUME MaxLoadsAssumption == MaxLoads \in Nat

VARIABLES cookie, tab, minted, loads

sessionVars == <<cookie, tab, minted, loads>>

NoToken == 0

\* loadCandidates and loadAnnounceSection.
Loaders == {"candidates", "announcements"}

IdleLoader == [pc |-> "idle", token |-> NoToken]

IsOpen(t) == tab[t].open

\* No loader is running, and one has been successful.
Loaded(t) ==
  /\ IsOpen(t)
  /\ tab[t].token # NoToken
  /\ \A l \in Loaders : tab[t].loader[l].pc = "idle"

CheckCSRF(token) == token # NoToken /\ token = cookie

SessionInit ==
  /\ cookie = IF FirstVisit THEN NoToken ELSE 1
  /\ minted = cookie
  /\ tab = [t \in Tabs |-> [open |-> FALSE, token |-> NoToken,
                            loader |-> [l \in Loaders |-> IdleLoader]]]
  /\ loads = 0

Sent == [pc |-> "sent", token |-> cookie]

\* The page is opened, or loaded again, and both loaders run at once.
OpenPage(t) ==
  /\ loads < MaxLoads
  /\ loads' = loads + 1
  /\ tab' = [tab EXCEPT ![t] = [open |-> TRUE, token |-> NoToken,
                                loader |-> [l \in Loaders |-> Sent]]]
  /\ UNCHANGED <<cookie, minted>>

\* Loader l of tab t goes on as state, and the page has token.
GoesOn(t, l, state, token) ==
  tab' = [tab EXCEPT ![t] = [open |-> tab[t].open, token |-> token,
                             loader |-> [tab[t].loader EXCEPT ![l] = state]]]

\* A POST passes checkCSRF and succeeds: its loader runs again.
Reload(t, l) ==
  /\ IsOpen(t)
  /\ tab[t].loader[l].pc = "idle"
  /\ CheckCSRF(tab[t].token)
  /\ loads < MaxLoads
  /\ loads' = loads + 1
  /\ GoesOn(t, l, Sent, tab[t].token)
  /\ UNCHANGED <<cookie, minted>>

IssueCSRFToken_rotates(sent) == minted + 1

\* The cookie the request came with, or a fresh token.
IssueCSRFToken(sent) == IF sent # NoToken THEN sent ELSE minted + 1

\* handleAttestable or handleProfile answers; a fresh token becomes the cookie.
Answer(t, l) ==
  /\ tab[t].loader[l].pc = "sent"
  /\ LET token == IssueCSRFToken(tab[t].loader[l].token)
     IN  /\ GoesOn(t, l, [pc |-> "answered", token |-> token], tab[t].token)
         /\ IF token > minted
              THEN minted' = token /\ cookie' = token
              ELSE UNCHANGED <<minted, cookie>>
  /\ UNCHANGED loads

\* The answer is an error (no candidates, no profile, no random bytes for a token),
\* or one of the loader's other requests fails: nothing is stored.
FailLoad(t, l) ==
  /\ tab[t].loader[l].pc \in {"sent", "answered"}
  /\ GoesOn(t, l, IdleLoader, tab[t].token)
  /\ UNCHANGED <<cookie, minted, loads>>

\* The loader has all its responses, at the latest one's time.
StoreToken(t, l) ==
  /\ tab[t].loader[l].pc = "answered"
  /\ GoesOn(t, l, IdleLoader, tab[t].loader[l].token)
  /\ UNCHANGED <<cookie, minted, loads>>

SessionNext ==
  \E t \in Tabs :
    \/ OpenPage(t)
    \/ \E l \in Loaders : Reload(t, l) \/ Answer(t, l) \/ FailLoad(t, l) \/ StoreToken(t, l)

SessionTypeOK ==
  /\ cookie \in 0 .. 2 * MaxLoads + 1
  /\ \A t \in Tabs : \A l \in Loaders :
       tab[t].loader[l].pc \in {"idle", "sent", "answered"}
  /\ loads \in 0 .. MaxLoads

\* A page that has loaded can be used: its token is the browser's cookie, also
\* after other tabs have been opened and loaded again, and after errors.  Issuing a new token with
\* every answer "broke any tab that had already loaded the page", "turning every
\* subsequent attest click into a false 'invalid CSRF token'" (admin.go:84-91).
LoadedTabsWork == \A t \in Tabs : Loaded(t) => CheckCSRF(tab[t].token)
=============================================================================
