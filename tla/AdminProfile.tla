---------------------------- MODULE AdminProfile ----------------------------
(***************************************************************************)
(* The profile form of the admin page (handleProfile, loadProfileState and *)
(* saveProfileState in cmd/nostr-catalogd/admin.go).  A POST publishes a   *)
(* kind-0 event and, if some relay accepted it, writes the fields to a file*)
(* that the form is filled from.  No lock is held: edits at the same time  *)
(* publish in one order, save in another and share path.tmp.               *)
(*                                                                         *)
(*   edit[h].pc   "publish"; then "open", "write" and "rename" inside      *)
(*                saveProfileState; "idle" when the request is over        *)
(* Files are inodes, as in Announcements: profileFile[i] is a profile or   *)
(* TornProfile.  live is the profile that relays hold.  settled is a       *)
(* history variable: the last edit ran alone from its start to a rename.   *)
(***************************************************************************)
EXTENDS Integers, FiniteSets

CONSTANTS Profiles, NoProfile, TornProfile,
          Edits,       \* concurrent POSTs to /admin/profile
          MaxEdits     \* bound on the edits begun

ASSUME EditsAssumption == IsFiniteSet(Edits)
ASSUME MaxEditsAssumption == MaxEdits \in Nat

VARIABLES edit, profileFile, profilePath, profileTmp, live, settled, edits

profileVars == <<edit, profileFile, profilePath, profileTmp, live, settled, edits>>

NoFile == 0
ProfileInodes == 1 .. Cardinality(Edits) + 2

IdleEdit == [pc |-> "idle", profile |-> NoProfile, fd |-> NoFile, alone |-> FALSE]

UnderWay == {h \in Edits : edit[h].pc # "idle"}

\* loadProfileState: a missing file is an empty form.
ProfileForm == IF profilePath = NoFile THEN NoProfile ELSE profileFile[profilePath]

ProfileInit ==
  /\ edit = [h \in Edits |-> IdleEdit]
  /\ profileFile = [i \in ProfileInodes |-> TornProfile]
  /\ profilePath = NoFile
  /\ profileTmp = NoFile
  /\ live = NoProfile
  /\ settled = TRUE
  /\ edits = 0

BeginEdit(h, profile) ==
  /\ edit[h].pc = "idle"
  /\ edits < MaxEdits
  /\ edits' = edits + 1
  /\ edit' = [g \in Edits |->
       IF g = h
         THEN [pc |-> "publish", profile |-> profile, fd |-> NoFile,
               alone |-> UnderWay = {}]
         ELSE [edit[g] EXCEPT !.alone = FALSE]]
  /\ UNCHANGED <<profileFile, profilePath, profileTmp, live, settled>>

\* Edit h goes on to pc, with fd open.
GoOn(h, pc, fd) ==
  edit' = [edit EXCEPT ![h] = [pc |-> pc, profile |-> edit[h].profile, fd |-> fd,
                               alone |-> edit[h].alone]]

Save(h) == GoOn(h, "open", NoFile)

GiveUp(h) == edit' = [edit EXCEPT ![h] = IdleEdit]

ProfileAccepted(h) ==
  /\ edit[h].pc = "publish"
  /\ live' = edit[h].profile
  /\ settled' = FALSE
  /\ Save(h)
  /\ UNCHANGED <<profileFile, profilePath, profileTmp, edits>>

ProfileRefused_saved(h) ==
  /\ edit[h].pc = "publish"
  /\ Save(h)
  /\ UNCHANGED <<profileFile, profilePath, profileTmp, live, settled, edits>>

\* No relay accepts the event: the file keeps "what is still genuinely live".
ProfileRefused(h) ==
  /\ edit[h].pc = "publish"
  /\ GiveUp(h)
  /\ UNCHANGED <<profileFile, profilePath, profileTmp, live, settled, edits>>

\* A relay has it, but its answer is lost or comes after the client has gone.
ProfileUnacknowledged(h) ==
  /\ edit[h].pc = "publish"
  /\ live' = edit[h].profile
  /\ settled' = FALSE
  /\ GiveUp(h)
  /\ UNCHANGED <<profileFile, profilePath, profileTmp, edits>>

FreshFile ==
  CHOOSE i \in ProfileInodes :
    i \notin {profilePath, profileTmp} \cup {edit[h].fd : h \in Edits}

\* os.WriteFile creates path.tmp, or truncates the one that is there.
OpenProfileTmp(h) ==
  /\ edit[h].pc = "open"
  /\ LET i == IF profileTmp = NoFile THEN FreshFile ELSE profileTmp
     IN  /\ profileTmp' = i
         /\ profileFile' = [profileFile EXCEPT ![i] = TornProfile]
         /\ GoOn(h, "write", i)
  /\ UNCHANGED <<profilePath, live, settled, edits>>

\* A longer profile another edit has written there leaves its tail behind.
WriteProfileTmp(h) ==
  /\ edit[h].pc = "write"
  /\ LET i       == edit[h].fd
         written == edit[h].profile
     IN  \E result \in IF profileFile[i] \in {TornProfile, written}
                         THEN {written} ELSE {written, TornProfile} :
           profileFile' = [profileFile EXCEPT ![i] = result]
  /\ GoOn(h, "rename", NoFile)
  /\ UNCHANGED <<profilePath, profileTmp, live, settled, edits>>

\* os.Rename fails when another edit has renamed path.tmp already.
RenameProfileTmp(h) ==
  /\ edit[h].pc = "rename"
  /\ IF profileTmp = NoFile
       THEN UNCHANGED <<profilePath, profileTmp, settled>>
       ELSE /\ profilePath' = profileTmp
            /\ profileTmp' = NoFile
            /\ settled' = edit[h].alone
  /\ GiveUp(h)
  /\ UNCHANGED <<profileFile, live, edits>>

\* Creating, writing or renaming path.tmp fails, or the daemon stops: what there
\* is of it stays.
FailProfileSave(h) ==
  /\ edit[h].pc \in {"open", "write", "rename"}
  /\ GiveUp(h)
  /\ UNCHANGED <<profileFile, profilePath, profileTmp, live, settled, edits>>

ProfileNext ==
  \E h \in Edits :
    \/ \E profile \in Profiles : BeginEdit(h, profile)
    \/ ProfileAccepted(h) \/ ProfileRefused(h) \/ ProfileUnacknowledged(h)
    \/ OpenProfileTmp(h) \/ WriteProfileTmp(h) \/ RenameProfileTmp(h)
    \/ FailProfileSave(h)

ProfileTypeOK ==
  /\ \A h \in Edits : edit[h].fd \in ProfileInodes \cup {NoFile}
  /\ \A i \in ProfileInodes : profileFile[i] \in Profiles \cup {TornProfile}
  /\ profilePath \in ProfileInodes \cup {NoFile}
  /\ profileTmp \in ProfileInodes \cup {NoFile}
  /\ live \in Profiles \cup {NoProfile}

\* The form shows "what is still genuinely live, not a profile nobody has seen"
\* (admin.go:391-394): after an edit that ran alone, whatever overlapping edits,
\* failed saves and lost answers have left in the file and at path.tmp before,
\* and whatever has been refused since.
ProfileFormIsLive == settled /\ UnderWay = {} => ProfileForm = live
=============================================================================
