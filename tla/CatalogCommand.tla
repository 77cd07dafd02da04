--------------------------- MODULE CatalogCommand ---------------------------
(***************************************************************************)
(* nostr-ynh catalog (runCatalog in cmd/nostr-ynh/main.go): fetch the      *)
(* declarations of the trusted publishers from the relays, verify each in  *)
(* its repository, print the catalogue.  Every clone has a deadline of its *)
(* own inside one budget for all of them, so that hosts that do not answer *)
(* cost the others as little as possible.  The deadline kills git, though  *)
(* not the helpers it has started: the loop waits until they let go.       *)
(*                                                                         *)
(*   run.pc        "idle", "verify" (the loop over todo) or "done"         *)
(*   run.answered  what the relays that answered hold                      *)
(*   run.spent     the time the loop has taken; delay[s] is how long git   *)
(*                 and its helpers are busy with source s                  *)
(*   run.overrun   a history variable: the time it has waited for clones   *)
(*                 past their deadlines                                    *)
(*   run.skipped   how many declarations the spent budget has left over    *)
(*   store         the entries of the command's Store                      *)
(* The loop follows a Go map: the order of the declarations is arbitrary.  *)
(* Op_fault is Op with one plausible mistake.                              *)
(***************************************************************************)
EXTENDS CatalogData

CONSTANTS Offered,      \* declaration events on the relays
          CommandConfig,
          PerApp,       \* --timeout-seconds and
          Budget,       \* --budget-seconds, in ticks
          Delays        \* what a clone may take

ASSUME CommandTimesAssumption == PerApp \in Nat \ {0} /\ Budget \in Nat \ {0}
ASSUME DelaysAssumption == Delays \subseteq Nat
ASSUME OfferedAssumption == IsFiniteSet(Offered) /\ \A e \in Offered : PairOf(e) \in Pairs
\* The command's store has neither a policy for attestations nor curators.
ASSUME CommandConfigAssumption == CommandConfig.mode = "off" /\ CommandConfig.curators = {}

VARIABLES run, store, delay

commandVars == <<run, store, delay>>

SourceOf(e) == NormalizeRepository(e.repository)

Sources == {SourceOf(e) : e \in Offered}

CommandInit ==
  /\ run = [pc |-> "idle", answered |-> {}, fetched |-> {}, todo |-> {}, spent |-> 0,
            overrun |-> 0, skipped |-> 0]
  /\ store = [k \in Pairs |-> <<>>]
  /\ delay = [s \in Sources |-> 0]

\* One event for each publisher and d tag; events are compared by their time
\* before anything about them is looked at.
LatestOf_any(answered) ==
  {S \in SUBSET answered :
     \A e \in answered : Cardinality({d \in S : PairOf(d) = PairOf(e)}) = 1}

LatestOf(answered) ==
  {S \in LatestOf_any(answered) :
     \A d \in S, e \in answered : PairOf(d) = PairOf(e) => e.created <= d.created}

\* FetchAppDeclarations: what the relays that answer in time have between them,
\* of the publishers asked for.
Fetch(answered) ==
  /\ run.pc = "idle"
  /\ \A e \in answered : e.publisher \in CommandConfig.publishers
  /\ \E fetched \in LatestOf(answered) :
       run' = [run EXCEPT !.pc = "verify", !.answered = answered, !.fetched = fetched,
                          !.todo = fetched]
  /\ delay' \in [Sources -> Delays]
  /\ UNCHANGED store

Shorter(m, n) == IF m <= n THEN m ELSE n

Allowed_sharedDeadline(e) == IF run.spent >= PerApp THEN 0 ELSE PerApp - run.spent

\* The clone's deadline is inside the budget.
Allowed(e) == Shorter(PerApp, Budget - run.spent)

\* How long the loop may have to wait for e.  Output returns when all who have
\* git's standard error open have closed it, and the command has no WaitDelay.
Waits(e) ==
  IF ~Validate(CommandConfig, e) THEN {0}
  ELSE IF delay[SourceOf(e)] <= Allowed(e) THEN {delay[SourceOf(e)]}
  ELSE Allowed(e) .. delay[SourceOf(e)]

\* IngestVerifiedPackage: an event that does not validate is rejected at once;
\* a clone that is cut off, or does not confirm the declaration, is rejected too.
VerifyNext(e, waited) ==
  /\ run.pc = "verify"
  /\ e \in run.todo
  /\ run.spent < Budget
  /\ waited \in Waits(e)
  /\ LET fine == /\ Validate(CommandConfig, e)
                 /\ delay[SourceOf(e)] <= Allowed(e)
                 /\ RepositoryConfirms(e)
                 /\ Translates(e)
         late == IF waited <= Allowed(e) THEN 0 ELSE waited - Allowed(e)
     IN  /\ run' = [run EXCEPT !.todo = @ \ {e}, !.spent = @ + waited,
                               !.overrun = @ + late]
         /\ store' = IF fine
                       THEN [store EXCEPT ![PairOf(e)] =
                               AddRevision(CommandConfig, {}, @,
                                           [event |-> e, manifest |-> TRUE])]
                       ELSE store
  /\ UNCHANGED delay

\* The budget is spent: the rest is counted and left.
SkipRest ==
  /\ run.pc = "verify"
  /\ run.todo # {}
  /\ run.spent >= Budget
  /\ run' = [run EXCEPT !.todo = {}, !.skipped = Cardinality(run.todo)]
  /\ UNCHANGED <<store, delay>>

\* WriteSnapshot: the catalogue goes out and the command ends.
WriteSnapshot ==
  /\ run.pc = "verify"
  /\ run.todo = {}
  /\ run' = [run EXCEPT !.pc = "done"]
  /\ UNCHANGED <<store, delay>>

Printed(app) == Listed(CommandConfig, store, {}, {}, app)

CommandNext ==
  \/ \E answered \in SUBSET Offered : Fetch(answered)
  \/ \E e \in Offered : \E waited \in Waits(e) : VerifyNext(e, waited)
  \/ SkipRest
  \/ WriteSnapshot

CommandTypeOK ==
  /\ run.pc \in {"idle", "verify", "done"}
  /\ run.todo \subseteq run.fetched
  /\ run.fetched \subseteq run.answered
  /\ run.answered \subseteq Offered
  /\ run.skipped \in 0 .. Cardinality(Offered)
  /\ \A k \in Pairs : Len(store[k]) <= 1

\* "This overall deadline caps the sum" of the clones, so that the command ends
\* before its caller's own timeout (main.go:917-927).
BudgetIsKept == run.spent <= Budget

\* "one slow or unreachable git host must not stall verification of every other
\* (perfectly fine) declaration" (main.go:969-973): if the budget is more than
\* the fetched declarations' shares, a clone or a timeout each, and what clones
\* took past their deadlines, then all that are fine and served in time are in the
\* catalogue's store.  A budget they spend to the last tick would leave out what
\* is still to come, at whatever cost.
Share(e) == Shorter(delay[SourceOf(e)], PerApp)

SlowHostsAreIsolated ==
  run.pc = "done" /\ MapThenSumSet(Share, run.fetched) + run.overrun < Budget =>
    \A e \in run.fetched :
      /\ Validate(CommandConfig, e)
      /\ RepositoryConfirms(e) /\ Translates(e)
      /\ delay[SourceOf(e)] <= PerApp
      => \E i \in DOMAIN store[PairOf(e)] : store[PairOf(e)][i].event = e

\* What is printed of a publisher's app is the newest the relays that answered
\* know of it, or nothing: an older declaration never takes the place of a newer
\* one that is rejected, out of time, or skipped.
PrintedIsNewest ==
  run.pc = "done" =>
    \A app \in Apps : \A r \in Printed(app), e \in run.answered :
      PairOf(e) = PairOf(r.event) => e.created <= r.event.created
=============================================================================
