------------------------- MODULE RiderApplications -------------------------
(***************************************************************************)
(* riders.service.ts and auth.service.ts: how one customer becomes a       *)
(* rider, and what the operator does to that account.  Nobody writes the   *)
(* rows of another user, so one account shows every interleaving.          *)
(*                                                                         *)
(* Every handler checks before its transaction, or in a transaction of     *)
(* default isolation, and then writes by id: a request in flight carries   *)
(* what it has read that its write still uses.                             *)
(***************************************************************************)
EXTENDS Naturals, Sequences, FiniteSets

CONSTANTS
    AccountCalls,     \* slots for requests in flight
    MaxApplications   \* bound: applications of the account

ASSUME AccountAssumption == MaxApplications \in Nat

VARIABLES
    profile,        \* the row of rider_profiles; status "NONE" when absent
    role,           \* the RIDER row of user_role_assignments, or "NONE"
    applications,   \* rows of rider_applications, in order of createdAt
    preferred,      \* User.preferredRole
    riding,         \* the rider carries an order (Platform's tables)
    accountCall,    \* [AccountCalls -> request in flight]
    approved,       \* history: an operator has approved or restored the rider
    crossed         \* history: two requests have been in flight at once

accountRows == <<profile, role, applications, preferred, riding>>
accountVars == <<accountRows, accountCall, approved, crossed>>

RoleStatus  == {"ACTIVE", "SUSPENDED", "RESIGNED"}
RiderStatus == {"PENDING", "APPROVED", "REJECTED", "SUSPENDED", "WITHDRAWN"}
NoAccountCall == [op |-> "none"]

AccountTypeOK ==
    /\ profile \in [status : (RiderStatus \ {"WITHDRAWN"}) \cup {"NONE"},
                    role : RoleStatus, online : BOOLEAN]
    /\ role \in RoleStatus \cup {"NONE"}
    /\ applications \in Seq(RiderStatus)
    /\ Len(applications) <= MaxApplications
    /\ preferred \in {"CUSTOMER", "RIDER"}
    /\ \A c \in AccountCalls : accountCall[c].op \in
         {"none", "apply", "withdraw", "review", "changeStatus", "setOnline",
          "updateVehicles", "switchRole"}
    /\ riding \in BOOLEAN /\ approved \in BOOLEAN /\ crossed \in BOOLEAN

AccountInit ==
    /\ profile = [status |-> "NONE", role |-> "SUSPENDED", online |-> FALSE]
    /\ role = "NONE"
    /\ applications = <<>>
    /\ preferred = "CUSTOMER"
    /\ riding = FALSE
    /\ accountCall = [c \in AccountCalls |-> NoAccountCall]
    /\ approved = FALSE /\ crossed = FALSE

Pending == {i \in DOMAIN applications : applications[i] = "PENDING"}

(* assertActiveRole and its copies in setOnline and updateVehicles.         *)
RoleActive == profile.role = "ACTIVE" /\ profile.status = "APPROVED"

(* accountRoles: the mode the mini program opens in.                        *)
currentRole ==
    IF preferred = "RIDER" /\ role = "ACTIVE" THEN "rider" ELSE "customer"

----------------------------------------------------------------------------
(* Slips: apply forgets the application under review; review creates the   *)
(* role but does not update one that is there.  No action uses them.       *)
MayApplyAgain == role # "ACTIVE"
RoleCreatedOnce(next) == IF role = "NONE" THEN next ELSE role
----------------------------------------------------------------------------

AccountAsks(c, call) ==
    /\ accountCall[c] = NoAccountCall
    /\ accountCall' = [accountCall EXCEPT ![c] = call]
    /\ crossed' = (crossed \/ \E d \in AccountCalls \ {c} :
                                 accountCall[d] # NoAccountCall)
    /\ UNCHANGED <<accountRows, approved>>

AccountAnswers(c) ==
    /\ accountCall' = [accountCall EXCEPT ![c] = NoAccountCall]
    /\ UNCHANGED crossed

(* applyForUser: the checks, then a serializable transaction that only     *)
(* writes.  A rider who may apply again is PENDING again, out of service.  *)
MayApply == role # "ACTIVE" /\ Pending = {}

ApplyRead(c) ==
    /\ Len(applications) < MaxApplications
    /\ MayApply
    /\ AccountAsks(c, [op |-> "apply"])

ApplyWrite(c) ==
    /\ accountCall[c].op = "apply"
    /\ Len(applications) < MaxApplications
    /\ profile' = [status |-> "PENDING", role |-> "SUSPENDED", online |-> FALSE]
    /\ applications' = Append(applications, "PENDING")
    /\ AccountAnswers(c)
    /\ UNCHANGED <<role, preferred, riding, approved>>

WithdrawRead(c, i) ==
    /\ i \in Pending
    /\ AccountAsks(c, [op |-> "withdraw", app |-> i])

WithdrawWrite(c) ==
    /\ accountCall[c].op = "withdraw"
    /\ applications' = [applications EXCEPT ![accountCall[c].app] = "WITHDRAWN"]
    /\ AccountAnswers(c)
    /\ UNCHANGED <<profile, role, preferred, riding, approved>>

(* review: only the latest application counts, and it must be pending.     *)
(* Approving the approved again, like every refusal, writes nothing.       *)
ReviewRead(c, verdict) ==
    /\ profile.status # "NONE"
    /\ Len(applications) \in Pending
    /\ AccountAsks(c, [op |-> "review", to |-> verdict,
                       app |-> Len(applications)])

RoleAfterReview(next) == next

ReviewWrite(c) ==
    /\ accountCall[c].op = "review"
    /\ LET verdict == accountCall[c].to
           next == IF verdict = "APPROVED" THEN "ACTIVE" ELSE "SUSPENDED" IN
       /\ profile' = [status |-> verdict, role |-> next, online |-> FALSE]
       /\ role' = RoleAfterReview(next)
       /\ applications' = [applications EXCEPT ![accountCall[c].app] = verdict]
       /\ approved' = (approved \/ verdict = "APPROVED")
    /\ AccountAnswers(c)
    /\ UNCHANGED <<preferred, riding>>

(* suspend, restore and resign; the first and the last wait for the rider  *)
(* to have delivered.                                                      *)
ChangeStatusRead(c, next) ==
    /\ profile.status \in {"APPROVED", "SUSPENDED"}
    /\ riding => next = "ACTIVE"
    /\ AccountAsks(c, [op |-> "changeStatus", to |-> next])

ChangeStatusWrite(c) ==
    /\ accountCall[c].op = "changeStatus"
    /\ LET next == accountCall[c].to IN
       /\ profile' = [status |-> IF next = "ACTIVE" THEN "APPROVED"
                                 ELSE "SUSPENDED",
                      role |-> next, online |-> FALSE]
       /\ role' = IF role = "NONE" THEN "NONE" ELSE next
       /\ approved' = (approved \/ next = "ACTIVE")
    /\ AccountAnswers(c)
    /\ UNCHANGED <<applications, preferred, riding>>

(* Going offline, confirmed in the order hall, is always allowed.           *)
MayGoOnline == RoleActive

SetOnlineRead(c, online) ==
    /\ profile.status # "NONE"
    /\ online => MayGoOnline
    /\ AccountAsks(c, [op |-> "setOnline", online |-> online])

(* updateVehicles writes back the shift it read before its transaction, or *)
(* ends it when the rider gives up every vehicle.                          *)
UpdateVehiclesRead(c, vehicles) ==
    /\ RoleActive
    /\ AccountAsks(c, [op |-> "updateVehicles",
                       online |-> vehicles /\ profile.online])

ShiftWrite(c) ==
    /\ accountCall[c].op \in {"setOnline", "updateVehicles"}
    /\ profile' = [profile EXCEPT !.online = accountCall[c].online]
    /\ AccountAnswers(c)
    /\ UNCHANGED <<role, applications, preferred, riding, approved>>

(* switchRole hands out a rider token only to an active rider.              *)
SwitchRoleRead(c, to) ==
    /\ to = "RIDER" => role = "ACTIVE" /\ profile.role = "ACTIVE"
    /\ AccountAsks(c, [op |-> "switchRole", to |-> to])

SwitchRoleWrite(c) ==
    /\ accountCall[c].op = "switchRole"
    /\ preferred' = accountCall[c].to
    /\ AccountAnswers(c)
    /\ UNCHANGED <<profile, role, applications, riding, approved>>

(* The dispatch of Platform, as far as this account can tell.               *)
TakesOrder ==
    /\ RoleActive /\ profile.online
    /\ ~riding /\ riding' = TRUE
    /\ UNCHANGED <<profile, role, applications, preferred, accountCall,
                   approved, crossed>>

DeliversOrder ==
    /\ riding /\ riding' = FALSE
    /\ UNCHANGED <<profile, role, applications, preferred, accountCall,
                   approved, crossed>>

AccountNext ==
    \/ TakesOrder \/ DeliversOrder
    \/ \E c \in AccountCalls :
         \/ ApplyRead(c) \/ ApplyWrite(c)
         \/ \E i \in Pending : WithdrawRead(c, i)
         \/ WithdrawWrite(c)
         \/ \E verdict \in {"APPROVED", "REJECTED", "SUSPENDED"} :
              ReviewRead(c, verdict)
         \/ ReviewWrite(c)
         \/ \E next \in RoleStatus : ChangeStatusRead(c, next)
         \/ ChangeStatusWrite(c)
         \/ \E online \in BOOLEAN : SetOnlineRead(c, online)
         \/ \E vehicles \in BOOLEAN : UpdateVehiclesRead(c, vehicles)
         \/ ShiftWrite(c)
         \/ \E to \in {"CUSTOMER", "RIDER"} : SwitchRoleRead(c, to)
         \/ SwitchRoleWrite(c)

----------------------------------------------------------------------------
(* Whatever overlaps: a profile that may work belongs to an account whose  *)
(* rider role is active (review and changeStatus write both rows in one    *)
(* transaction, lines 164-191 and 261-272); and nobody is online, carries  *)
(* an order or opens the mini program as a rider whom no operator ever     *)
(* approved or restored, although going online, changing vehicles and      *)
(* switching roles each write after a check that may no longer hold.       *)
WorkersAreEntitled ==
    /\ profile.role = "ACTIVE" => role = "ACTIVE" /\ approved
    /\ profile.online \/ riding \/ currentRole = "rider" => approved

(* As long as requests do not overlap: one application at most is under    *)
(* review, it is the latest and the profile says so; profile and role      *)
(* agree on who may work; only such a rider is online.  Two overlapping    *)
(* applications, a withdrawal beside a review or a shift beside a          *)
(* suspension each break this (lines 46-52, 107-112, 295-333).             *)
SerialAccountIsSound == ~crossed =>
    /\ Pending \subseteq {Len(applications)}
    /\ Pending # {} => profile.status = "PENDING"
    /\ profile.status = "APPROVED" <=> profile.role = "ACTIVE"
    /\ (role = "ACTIVE") = RoleActive
    /\ profile.online => RoleActive
============================================================================
