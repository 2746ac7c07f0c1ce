----------------------------- MODULE Deliveries -----------------------------
(***************************************************************************)
(* Deliveries (delivery/service.py).  Assigning a ready order writes three *)
(* documents in turn: the delivery, the order and the courier's profile.   *)
(* Advancing a delivery writes the delivery, its order, the settlement of  *)
(* a cash order (module Payments) and the profile.  Location and proof     *)
(* updates save the whole delivery.                                        *)
(***************************************************************************)
EXTENDS Payments, Collaborators

VARIABLE deliveries

DeliveriesInit == deliveries = [d \in DeliveryIds |-> None]
DeliveriesTypeOK == deliveries \in [DeliveryIds -> Maybe(Delivery)]

DeliveriesOf(o) == {d \in DeliveryIds : deliveries[d] # None /\ deliveries[d].order = o}

-----------------------------------------------------------------------------
(* assign_order *)

AssignOrder(s, o) ==
  /\ Free(s, "assign")
  /\ orders[o] # None
  /\ orders[o].status = "ready"
  /\ Goto(s, [Idle EXCEPT !.pc = "check_assigned", !.oid = o, !.order = orders[o]])
  /\ UNCHANGED <<orders, deliveries, profiles>>

\* Mutant: an order may be assigned again.
CheckUnassignedSkipped(s) ==
  /\ At(s, "check_assigned")
  /\ Goto(s, [req[s] EXCEPT !.pc = "pick"])
  /\ UNCHANGED <<orders, deliveries, profiles>>

CheckUnassigned(s) ==
  /\ At(s, "check_assigned")
  /\ IF DeliveriesOf(req[s].oid) = {}
       THEN Goto(s, [req[s] EXCEPT !.pc = "pick"])
       ELSE Finish(s)
  /\ UNCHANGED <<orders, deliveries, profiles>>

\* Mutant: the order is given its courier and forgets the delivery.
PickCourierOnly(s) ==
  /\ At(s, "pick")
  /\ \/ Finish(s)
     \/ \E c \in Candidates :
          Goto(s, [req[s] EXCEPT !.pc = "save_assigned", !.cid = c, !.profile = profiles[c],
                    !.order = RecordStatus([@ EXCEPT !.collaborator = c], "assigned")])
  /\ UNCHANGED <<orders, deliveries, profiles>>

\* Which candidate is the nearest, and whether any is near enough, is left open.
PickCourier(s) ==
  /\ At(s, "pick")
  /\ \/ Finish(s)
     \/ \E c \in Candidates :
          Goto(s, [req[s] EXCEPT !.pc = "insert_delivery",
                                 !.cid = c, !.profile = profiles[c]])
  /\ UNCHANGED <<orders, deliveries, profiles>>

InsertDelivery(s) ==
  /\ At(s, "insert_delivery")
  /\ \E d \in DeliveryIds :
       /\ deliveries[d] = None
       /\ deliveries' = SaveInto(deliveries, d,
            [order |-> req[s].oid, collaborator |-> req[s].cid,
             status |-> "assigned", proof |-> FALSE])
  /\ Goto(s, [req[s] EXCEPT !.pc = "save_assigned",
                !.order = RecordStatus([@ EXCEPT !.collaborator = req[s].cid], "assigned")])
  /\ UNCHANGED <<orders, profiles>>

SaveAssigned(s) ==
  /\ At(s, "save_assigned")
  /\ orders' = SaveInto(orders, req[s].oid, req[s].order)
  /\ Goto(s, [Idle EXCEPT !.pc = "save_profile", !.cid = req[s].cid,
                !.profile = [req[s].profile EXCEPT !.availability = "on_delivery"]])
  /\ UNCHANGED <<deliveries, profiles>>

-----------------------------------------------------------------------------
(* advance_status *)

\* Mutant: the courier picks the status.
AdvanceDeliveryAnywhere(s, d) ==
  /\ Free(s, "advance_delivery")
  /\ deliveries[d] # None
  /\ \E st \in DeliveryStatus :
       Goto(s, [Idle EXCEPT !.pc = "save_delivery", !.did = d,
                            !.delivery = [deliveries[d] EXCEPT !.status = st]])
  /\ UNCHANGED <<orders, deliveries, profiles>>

AdvanceDelivery(s, d) ==
  /\ Free(s, "advance_delivery")
  /\ deliveries[d] # None
  /\ deliveries[d].status \in DOMAIN DeliveryAdvance
  /\ Goto(s, [Idle EXCEPT !.pc = "save_delivery", !.did = d,
                !.delivery = [deliveries[d] EXCEPT !.status = DeliveryAdvance[@]]])
  /\ UNCHANGED <<orders, deliveries, profiles>>

SaveDelivery(s) ==
  /\ At(s, "save_delivery")
  /\ deliveries' = SaveInto(deliveries, req[s].did, req[s].delivery)
  /\ IF req[s].delivery.status \in OrderSync
       THEN Goto(s, [req[s] EXCEPT !.pc = "load_synced"])
       ELSE Finish(s)
  /\ UNCHANGED <<orders, profiles>>

\* Mutant: every milestone delivers the order.
LoadSyncedDelivers(s) ==
  /\ At(s, "load_synced")
  /\ LET o == req[s].delivery.order
     IN  Goto(s, [req[s] EXCEPT !.pc = "save_synced", !.oid = o,
                                !.order = RecordStatus(orders[o], "delivered")])
  /\ UNCHANGED <<orders, deliveries, profiles>>

LoadSynced(s) ==
  /\ At(s, "load_synced")
  /\ LET o == req[s].delivery.order
     IN  Goto(s, [req[s] EXCEPT !.pc = "save_synced", !.oid = o,
                    !.order = RecordStatus(orders[o], req[s].delivery.status)])
  /\ UNCHANGED <<orders, deliveries, profiles>>

\* On delivery a cash order is settled before the courier is set free.
SaveSynced(s) ==
  /\ At(s, "save_synced")
  /\ orders' = SaveInto(orders, req[s].oid, req[s].order)
  /\ CASE req[s].delivery.status # "delivered" -> Finish(s)
       [] req[s].delivery.status = "delivered" /\ req[s].order.method = "cash" ->
            Goto(s, [req[s] EXCEPT !.pc = "check_payment"])
       [] OTHER -> Goto(s, [req[s] EXCEPT !.pc = "free"])
  /\ UNCHANGED <<deliveries, profiles>>

\* Mutant: the courier stays busy.
FreeCourierNever(s) ==
  /\ At(s, "free")
  /\ Finish(s)
  /\ UNCHANGED <<orders, deliveries, profiles>>

FreeCourier(s) ==
  /\ At(s, "free")
  /\ LET c == req[s].delivery.collaborator
     IN  IF profiles[c] # None /\ profiles[c].availability = "on_delivery"
           THEN Goto(s, [Idle EXCEPT !.pc = "save_profile", !.cid = c,
                         !.profile = [profiles[c] EXCEPT !.availability = "online"]])
           ELSE Finish(s)
  /\ UNCHANGED <<orders, deliveries, profiles>>

-----------------------------------------------------------------------------
(* update_location: the route point is left out, the save of the whole     *)
(* delivery and of the whole profile is not.  upload_proof.                *)

UpdateLocation(s, d) ==
  /\ Free(s, "location")
  /\ deliveries[d] # None
  /\ Goto(s, [Idle EXCEPT !.pc = "save_location", !.did = d, !.delivery = deliveries[d]])
  /\ UNCHANGED <<orders, deliveries, profiles>>

SaveLocation(s) ==
  /\ At(s, "save_location")
  /\ deliveries' = SaveInto(deliveries, req[s].did, req[s].delivery)
  /\ Goto(s, [req[s] EXCEPT !.pc = "load_located"])
  /\ UNCHANGED <<orders, profiles>>

LoadLocated(s) ==
  /\ At(s, "load_located")
  /\ LET c == req[s].delivery.collaborator
     IN  IF profiles[c] # None
           THEN Goto(s, [Idle EXCEPT !.pc = "save_profile", !.cid = c,
                         !.profile = [profiles[c] EXCEPT !.located = TRUE]])
           ELSE Finish(s)
  /\ UNCHANGED <<orders, deliveries, profiles>>

UploadProof(s, d) ==
  /\ Free(s, "proof")
  /\ deliveries[d] # None
  /\ deliveries[d].status \in {"en_route_dropoff", "delivered"}
  /\ Goto(s, [Idle EXCEPT !.pc = "save_proof", !.did = d,
                          !.delivery = [deliveries[d] EXCEPT !.proof = TRUE]])
  /\ UNCHANGED <<orders, deliveries, profiles>>

SaveProof(s) ==
  /\ At(s, "save_proof")
  /\ deliveries' = SaveInto(deliveries, req[s].did, req[s].delivery)
  /\ Finish(s)
  /\ UNCHANGED <<orders, profiles>>

-----------------------------------------------------------------------------
DeliveriesBegin(s) ==
  \/ \E o \in OrderIds : AssignOrder(s, o)
  \/ \E d \in DeliveryIds : AdvanceDelivery(s, d) \/ UpdateLocation(s, d) \/ UploadProof(s, d)

DeliveriesStep(s) ==
  \/ CheckUnassigned(s) \/ PickCourier(s) \/ InsertDelivery(s) \/ SaveAssigned(s)
  \/ SaveDelivery(s) \/ LoadSynced(s) \/ SaveSynced(s) \/ FreeCourier(s)
  \/ SaveLocation(s) \/ LoadLocated(s)
  \/ SaveProof(s)
=============================================================================
