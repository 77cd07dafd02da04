------------------------------ MODULE OnDemand ------------------------------
(***************************************************************************)
(* What happens only when somebody asks for it: the admin page of          *)
(* nostr-catalogd (its session, endorsements and profile; announcements    *)
(* are in Announcements), re-verification on the page and on the command   *)
(* line, and the catalogue that nostr-ynh prints.  These parts share no    *)
(* state that one of them changes, so interleaving two of them shows       *)
(* nothing that each does not show by itself: a behaviour is one of part.  *)
(***************************************************************************)
EXTENDS AdminSession, AdminEndorsements, AdminProfile, Reverification,
        CatalogCommand

CONSTANT Parts   \* the parts to be explored

ASSUME PartsAssumption ==
  Parts \subseteq {"session", "endorsements", "profile", "check", "command"}

VARIABLE part

vars == <<part, sessionVars, endorsementVars, profileVars, checkVars, commandVars>>

Init ==
  /\ part \in Parts
  /\ SessionInit
  /\ EndorsementInit
  /\ ProfileInit
  /\ CheckInit
  /\ CommandInit

Next ==
  /\ UNCHANGED part
  /\ \/ /\ part = "session" /\ SessionNext
        /\ UNCHANGED <<endorsementVars, profileVars, checkVars, commandVars>>
     \/ /\ part = "endorsements" /\ EndorsementNext
        /\ UNCHANGED <<sessionVars, profileVars, checkVars, commandVars>>
     \/ /\ part = "profile" /\ ProfileNext
        /\ UNCHANGED <<sessionVars, endorsementVars, checkVars, commandVars>>
     \/ /\ part = "check" /\ CheckNext
        /\ UNCHANGED <<sessionVars, endorsementVars, profileVars, commandVars>>
     \/ /\ part = "command" /\ CommandNext
        /\ UNCHANGED <<sessionVars, endorsementVars, profileVars, checkVars>>

Spec == Init /\ [][Next]_vars

TypeOK ==
  /\ SessionTypeOK
  /\ EndorsementTypeOK
  /\ ProfileTypeOK
  /\ CheckTypeOK
  /\ CommandTypeOK
=============================================================================
