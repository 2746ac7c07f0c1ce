---------------------------- MODULE Collaborators ----------------------------
(***************************************************************************)
(* Couriers (collaborators/service.py).  A profile is created by its user, *)
(* approved or rejected by an admin, put online or offline by the courier, *)
(* and put on a delivery and set free again by module Deliveries, which    *)
(* saves the profile with the step of this module.                         *)
(***************************************************************************)
EXTENDS Requests

CONSTANT Onboarded    \* couriers approved and online before the first order

ASSUME OnboardedAssumption == Onboarded \subseteq CourierIds

VARIABLE profiles

CollaboratorsInit ==
  profiles = [c \in CourierIds |->
    IF c \in Onboarded
      THEN [approved |-> TRUE, availability |-> "online", located |-> TRUE]
      ELSE None]

CollaboratorsTypeOK == profiles \in [CourierIds -> Maybe(Profile)]

\* find_available_near
\* The radius is left to PickCourier.
Candidates ==
  {c \in CourierIds : /\ profiles[c] # None
                      /\ profiles[c].approved
                      /\ profiles[c].availability = "online"
                      /\ profiles[c].located}

-----------------------------------------------------------------------------
\* become_collaborator: the unique index on user_id admits one profile each.
BecomeCollaborator(s, c) ==
  /\ Free(s, "become")
  /\ profiles[c] = None
  /\ profiles' = SaveInto(profiles, c,
       [approved |-> FALSE, availability |-> "offline", located |-> FALSE])
  /\ UNCHANGED req

SetAvailability(s, c, availability) ==
  /\ Free(s, "availability")
  /\ profiles[c] # None
  /\ profiles[c].approved
  /\ Goto(s, [Idle EXCEPT !.pc = "save_profile", !.cid = c,
                !.profile = [profiles[c] EXCEPT !.availability = availability,
                                                !.located = (availability = "online")]])
  /\ UNCHANGED profiles

\* verify: the admin's verdict leaves the availability as it was read.
Verify(s, c, verdict) ==
  /\ Free(s, "verify")
  /\ profiles[c] # None
  /\ Goto(s, [Idle EXCEPT !.pc = "save_profile", !.cid = c,
                          !.profile = [profiles[c] EXCEPT !.approved = verdict]])
  /\ UNCHANGED profiles

SaveProfile(s) ==
  /\ At(s, "save_profile")
  /\ profiles' = SaveInto(profiles, req[s].cid, req[s].profile)
  /\ Finish(s)

-----------------------------------------------------------------------------
CollaboratorsBegin(s) ==
  \E c \in CourierIds :
    \/ BecomeCollaborator(s, c)
    \/ \E availability \in {"online", "offline"} : SetAvailability(s, c, availability)
    \/ \E verdict \in BOOLEAN : Verify(s, c, verdict)

CollaboratorsStep(s) == SaveProfile(s)
=============================================================================
