------------------------- MODULE ServerPartsProofs -------------------------
(***************************************************************************)
(* The lock of an operator's account, the default of an address book, who  *)
(* may work as a rider and the bursts a client may send, for any number of *)
(* requests in flight.                                                     *)
(***************************************************************************)
EXTENDS OperatorLogin, AddressBook, RiderApplications, RateLimit,
        FiniteSetTheorems, TLAPS

LoginSpec == LoginInit /\ [][LoginNext]_loginVars
BookSpec  == BookInit /\ [][BookNext]_bookVars
AccountSpec == AccountInit /\ [][AccountNext]_accountVars
RateSpec == LimitInit /\ [][LimitNext]_limitVars

----------------------------------------------------------------------------
(* Until two requests overlap, at most one is in flight, and the count it   *)
(* has read is the one in the row.                                          *)
LoginAlone ==
    /\ \A c, d \in LoginCalls : c # d => login[c] = NoLogin \/ login[d] = NoLogin
    /\ \A c \in LoginCalls :
         login[c] # NoLogin => login[c].failed = operator.failed

LoginSound == ~overlapped => LoginAlone /\ SerialFailuresLock
LoginIInv  == LoginTypeOK /\ LoginSound

LEMMA LoginBeginKeeps ==
    ASSUME LoginIInv, NEW c \in LoginCalls,
           NEW op \in {"success", "failure", "change"}, LoginBegins(c, op)
    PROVE  LoginIInv'
  <1>1. /\ UNCHANGED <<operator, wrong>>
        /\ login'[c] = [op |-> op, failed |-> operator.failed]
        /\ \A d \in LoginCalls \ {c} : login'[d] = login[d]
    BY DEF LoginBegins, LoginIInv, LoginTypeOK
  <1>2. LoginTypeOK'
    BY DEF LoginBegins, LoginIInv, LoginTypeOK
  <1>3. ASSUME ~overlapped' PROVE LoginAlone' /\ SerialFailuresLock'
    <2>1. /\ ~overlapped /\ LoginAlone /\ SerialFailuresLock
          /\ \A d \in LoginCalls \ {c} : login[d] = NoLogin
      BY <1>3 DEF LoginBegins, LoginIInv, LoginSound
    <2> QED BY <1>1, <2>1 DEF LoginAlone, SerialFailuresLock
  <1> QED BY <1>2, <1>3 DEF LoginIInv, LoginSound

LEMMA LoginEndKeeps ==
    ASSUME LoginIInv, NEW c \in LoginCalls, LoginEnds(c), login[c] # NoLogin,
           operator' \in [failed : 0..MaxWrong,
                          lock : {"open", "locked", "expired"}],
           wrong' \in 0..MaxWrong,
           ~overlapped /\ SerialFailuresLock
             /\ login[c].failed = operator.failed => SerialFailuresLock'
    PROVE  LoginIInv'
  <1>1. LoginTypeOK'
    BY LoginAssumption DEF LoginEnds, NoLogin, LoginIInv, LoginTypeOK
  <1>2. ASSUME ~overlapped' PROVE LoginAlone' /\ SerialFailuresLock'
    <2>1. ~overlapped /\ LoginAlone /\ SerialFailuresLock
      BY <1>2 DEF LoginEnds, LoginIInv, LoginSound
    <2>2. \A d \in LoginCalls : login'[d] = NoLogin
      BY <2>1 DEF LoginEnds, LoginAlone, LoginIInv, LoginTypeOK
    <2> QED BY <2>1, <2>2 DEF LoginAlone
  <1> QED BY <1>1, <1>2 DEF LoginIInv, LoginSound

LEMMA LoginNextKeeps ==
    ASSUME LoginIInv, [LoginNext]_loginVars
    PROVE  LoginIInv'
  <1> USE LoginAssumption
  <1>1. CASE UNCHANGED loginVars
    BY <1>1 DEF loginVars, LoginIInv, LoginTypeOK, LoginSound, LoginAlone,
                SerialFailuresLock
  <1>2. CASE LockExpires
    <2>1. /\ operator'.failed = operator.failed /\ operator'.lock = "expired"
          /\ operator.lock = "locked"
          /\ LoginTypeOK'
      BY <1>2 DEF LockExpires, LoginIInv, LoginTypeOK
    <2> QED BY <1>2, <2>1
            DEF LockExpires, LoginIInv, LoginSound, LoginAlone, SerialFailuresLock
  <1>3. ASSUME NEW c \in LoginCalls, NEW right \in BOOLEAN,
               OperatorLoginRead(c, right)
        PROVE  LoginIInv'
    BY <1>3, LoginBeginKeeps DEF OperatorLoginRead
  <1>4. ASSUME NEW c \in LoginCalls,
               OperatorLoginWrite(c) \/ ChangeOperatorPasswordWrite(c)
        PROVE  LoginIInv'
    <2>1. /\ operator' = [failed |-> 0, lock |-> "open"] /\ wrong' = 0
          /\ LoginEnds(c) /\ login[c] # NoLogin
      BY <1>4 DEF OperatorLoginWrite, ChangeOperatorPasswordWrite, NoLogin
    <2>2. SerialFailuresLock'
      BY <2>1 DEF SerialFailuresLock
    <2>3. /\ operator' \in [failed : 0..MaxWrong,
                             lock : {"open", "locked", "expired"}]
          /\ wrong' \in 0..MaxWrong
      BY <2>1
    <2> QED BY <2>1, <2>2, <2>3, LoginEndKeeps
  <1>5. ASSUME NEW c \in LoginCalls, RecordFailedOperatorLogin(c)
        PROVE  LoginIInv'
    <2>1. /\ login[c].failed \in 0..MaxWrong /\ wrong \in 0..MaxWrong
          /\ login[c].failed < MaxWrong /\ wrong < MaxWrong
          /\ LoginEnds(c) /\ login[c] # NoLogin
          /\ operator' = [failed |-> login[c].failed + 1,
                          lock |-> lockAfter(login[c].failed + 1)]
          /\ wrong' = wrong + 1
      BY <1>5 DEF RecordFailedOperatorLogin, NoLogin, LoginIInv, LoginTypeOK
    <2>2. operator' \in [failed : 0..MaxWrong,
                         lock : {"open", "locked", "expired"}]
      BY <2>1 DEF lockAfter
    <2>3. ASSUME ~overlapped, SerialFailuresLock,
                 login[c].failed = operator.failed
          PROVE  SerialFailuresLock'
      BY <2>1, <2>3 DEF lockAfter, SerialFailuresLock
    <2> QED BY <2>1, <2>2, <2>3, LoginEndKeeps
  <1>6. ASSUME NEW c \in LoginCalls, ChangeOperatorPasswordRead(c)
        PROVE  LoginIInv'
    BY <1>6, LoginBeginKeeps DEF ChangeOperatorPasswordRead
  <1> QED BY <1>1, <1>2, <1>3, <1>4, <1>5, <1>6 DEF LoginNext

(* The operators' login keeps LoginIInv: what an attempt in flight has read *)
(* of the counter and the lock is of its type, and until attempts overlap   *)
(* it is still so (auth.service.ts:297-309).                                *)
THEOREM LoginInvariance == LoginSpec => []LoginIInv
  <1>1. ASSUME LoginInit PROVE LoginIInv
    <2>1. LoginTypeOK
      <3>1. NoLogin \in [op : {"none", "success", "failure", "change"},
                         failed : 0..MaxWrong]
        BY LoginAssumption DEF NoLogin
      <3>2. [failed |-> 0, lock |-> "open"]
              \in [failed : 0..MaxWrong, lock : {"open", "locked", "expired"}]
        BY LoginAssumption
      <3> QED BY <1>1, <3>1, <3>2, LoginAssumption DEF LoginInit, LoginTypeOK
    <2>2. LoginAlone /\ SerialFailuresLock
      BY <1>1, LoginAssumption DEF LoginInit, LoginAlone, SerialFailuresLock
    <2> QED BY <2>1, <2>2 DEF LoginIInv, LoginSound
  <1>2. LoginIInv /\ [LoginNext]_loginVars => LoginIInv'
    BY LoginNextKeeps
  <1> QED BY <1>1, <1>2, PTL DEF LoginSpec

(* One attempt at a time: whatever the threshold, the account is locked     *)
(* from that failure on and not before, and the row counts them all         *)
(* (auth.service.ts:297-309).                                               *)
THEOREM FailuresLock == LoginSpec => []SerialFailuresLock
  <1>1. LoginIInv => SerialFailuresLock
    BY DEF LoginIInv, LoginSound, SerialFailuresLock
  <1> QED BY <1>1, LoginInvariance, PTL

----------------------------------------------------------------------------
(* A create that found addresses and was not asked for the default leaves   *)
(* it where it is; the rest of what a request carries.                      *)
BookCarries(c) ==
    /\ c.op \in {"create", "update", "delete", "recordUse"} => c.id \in AddressIds
    /\ c.op = "create" => c.isDefault \/ ~c.empty
BookTyped ==
    /\ bookCall = [c \in BookCalls |-> bookCall[c]]
    /\ \A c \in BookCalls : BookCarries(bookCall[c])
ExactlyOne(S) == S # {} /\ \A a, b \in S : a = b
OneDefault == staleBook \/ unset \/ book = <<>> \/ ExactlyOne(defaults)
BookIInv == BookTyped /\ OneDefault

LEMMA BookTypedKept ==
    ASSUME BookTyped, NEW c \in BookCalls, NEW call, BookCarries(call),
           bookCall' = [bookCall EXCEPT ![c] = call]
    PROVE  BookTyped'
  BY DEF BookTyped, BookCarries

LEMMA BookAskKeeps ==
    ASSUME BookIInv, NEW c \in BookCalls, NEW call, BookCarries(call),
           BookAsk(c, call)
    PROVE  BookIInv'
  BY BookTypedKept DEF BookAsk, BookIInv, OneDefault

LEMMA BookDoneTyped ==
    ASSUME BookIInv, NEW c \in BookCalls, BookDone(c)
    PROVE  BookTyped'
  <1>1. BookCarries(NoBookCall)
    BY DEF BookCarries, NoBookCall
  <1> QED BY <1>1, BookTypedKept DEF BookDone, BookIInv

LEMMA BookNextKeeps ==
    ASSUME BookIInv, [BookNext]_bookVars
    PROVE  BookIInv'
  <1>0. \A c \in BookCalls : BookCarries(bookCall[c])
    BY DEF BookIInv, BookTyped
  <1>1. CASE UNCHANGED bookVars
    BY <1>1 DEF bookVars, BookIInv, BookTyped, BookCarries, OneDefault
  <1>2. ASSUME NEW c \in BookCalls, NEW id \in AddressIds,
               NEW isDefault \in BOOLEAN, CreateCount(c, id, isDefault)
        PROVE  BookIInv'
    BY <1>2, BookAskKeeps DEF CreateCount, BookCarries
  <1>3. ASSUME NEW c \in BookCalls, NEW id \in AddressIds,
               NEW isDefault \in BOOLEAN, UpdateRead(c, id, isDefault)
        PROVE  BookIInv'
    BY <1>3, BookAskKeeps DEF UpdateRead, BookCarries
  <1>4. ASSUME NEW c \in BookCalls, NEW id \in AddressIds, DeleteRead(c, id)
        PROVE  BookIInv'
    BY <1>4, BookAskKeeps DEF DeleteRead, BookCarries
  <1>5. ASSUME NEW c \in BookCalls, NEW id \in AddressIds, RecordUseRead(c, id)
        PROVE  BookIInv'
    BY <1>5, BookAskKeeps DEF RecordUseRead, BookCarries
  <1>6. ASSUME NEW c \in BookCalls, CreateWrite(c)
        PROVE  BookIInv'
    <2>1. /\ bookCall[c].id \in AddressIds /\ BookTyped'
          /\ bookCall[c].isDefault \/ ~bookCall[c].empty
      BY <1>0, <1>6, BookDoneTyped DEF CreateWrite, BookCarries
    <2> QED BY <1>6, <2>1 DEF CreateWrite, BookIInv, OneDefault, ExactlyOne
  <1>7. ASSUME NEW c \in BookCalls, UpdateWrite(c)
        PROVE  BookIInv'
    <2>1. bookCall[c].id \in AddressIds /\ BookTyped' /\ book # <<>>
      BY <1>0, <1>7, BookDoneTyped
         DEF UpdateWrite, BookCarries, Listed, Range
    <2> QED BY <1>7, <2>1
            DEF UpdateWrite, DefaultsAfterUpdate, BookIInv, OneDefault,
                ExactlyOne
  <1>8. ASSUME NEW c \in BookCalls, DeleteWrite(c)
        PROVE  BookIInv'
    <2> DEFINE id   == bookCall[c].id
               rest == SelectSeq(book, LAMBDA a : a # id)
               next == Replacement(bookCall[c].isDefault, rest)
    <2>1. /\ BookTyped' /\ book # <<>> /\ UNCHANGED unset
          /\ book' = IF next = {} THEN rest ELSE Stamped(rest, next)
          /\ defaults' = (defaults \ {id}) \cup next
          /\ staleBook' = (staleBook
                            \/ bookCall[c].isDefault # (id \in defaults))
      BY <1>8, BookDoneTyped DEF DeleteWrite, Listed, Range
    <2>2. \/ next = {} /\ (bookCall[c].isDefault => rest = <<>>)
          \/ next = {Head(rest)} /\ bookCall[c].isDefault
      BY DEF Replacement
    <2> HIDE DEF rest, next
    <2>3. ASSUME ~staleBook', ~unset', book' # <<>>
          PROVE  ExactlyOne(defaults')
      <3>1. /\ ExactlyOne(defaults)
            /\ bookCall[c].isDefault <=> id \in defaults
        BY <2>1, <2>3 DEF BookIInv, OneDefault
      <3>2. CASE next = {} /\ id \notin defaults
        BY <2>1, <3>1, <3>2 DEF ExactlyOne
      <3>3. CASE next = {Head(rest)} /\ id \in defaults
        BY <2>1, <3>1, <3>3 DEF ExactlyOne
      <3> QED BY <2>1, <2>2, <2>3, <3>1, <3>2, <3>3
    <2> QED BY <2>1, <2>3 DEF BookIInv, OneDefault
  <1>9. ASSUME NEW c \in BookCalls, RecordUseWrite(c)
        PROVE  BookIInv'
    <2>1. BookTyped' /\ book # <<>>
      BY <1>9, BookDoneTyped DEF RecordUseWrite, Listed, Range
    <2> QED BY <1>9, <2>1 DEF RecordUseWrite, BookIInv, OneDefault
  <1>10. ASSUME NEW c \in BookCalls, WriteMissesRow(c)
         PROVE  BookIInv'
    BY <1>10, BookDoneTyped DEF WriteMissesRow, BookIInv, OneDefault
  <1> QED BY <1>1, <1>2, <1>3, <1>4, <1>5, <1>6, <1>7, <1>8, <1>9, <1>10
          DEF BookNext

(* Whatever overlaps: exactly one address is the default, unless the form   *)
(* took it away or a create or delete rested on a stale reading             *)
(* (addresses.service.ts:22, 47, 56).                                       *)
THEOREM DefaultIsOne == BookSpec => []OneDefaultAddress
  <1>1. BookInit => BookIInv
    BY DEF BookInit, BookIInv, BookTyped, BookCarries, NoBookCall, OneDefault
  <1>2. BookIInv /\ [BookNext]_bookVars => BookIInv'
    BY BookNextKeeps
  <1>3. BookIInv => OneDefaultAddress
    <2>1. ASSUME ExactlyOne(defaults)
          PROVE  Cardinality(defaults) = 1
      <3>1. PICK a \in defaults : defaults = {a}
        BY <2>1 DEF ExactlyOne
      <3> QED BY <3>1, FS_Singleton
    <2> QED BY <2>1 DEF BookIInv, OneDefault, OneDefaultAddress
  <1> QED BY <1>1, <1>2, <1>3, PTL DEF BookSpec

----------------------------------------------------------------------------
(* What a request in flight carries.                                        *)
Carries(call) ==
    /\ call.op \in {"none", "apply", "withdraw", "review", "changeStatus",
                    "setOnline", "updateVehicles", "switchRole"}
    /\ call.op \in {"withdraw", "review"} => call.app \in DOMAIN applications
    /\ call.op = "review" => call.to \in {"APPROVED", "REJECTED", "SUSPENDED"}
    /\ call.op = "changeStatus" => call.to \in RoleStatus
    /\ call.op \in {"setOnline", "updateVehicles"} => call.online \in BOOLEAN
    /\ call.op = "switchRole" => call.to \in {"CUSTOMER", "RIDER"}

AccountTyped ==
    /\ AccountTypeOK
    /\ accountCall = [c \in AccountCalls |-> accountCall[c]]
    /\ \A c \in AccountCalls : Carries(accountCall[c])

(* What is never taken back: the operator's approval, and the row of the    *)
(* role.  A shift in flight that goes online has seen the approval; a       *)
(* changeStatus in flight has seen a rider, and so a role.                  *)
Entitled ==
    /\ profile.role = "ACTIVE" => role = "ACTIVE" /\ approved
    /\ role = "ACTIVE" => approved
    /\ profile.online \/ riding => approved
    /\ profile.status \in {"APPROVED", "SUSPENDED"} => role # "NONE"
    /\ \A c \in AccountCalls :
         /\ accountCall[c].op \in {"setOnline", "updateVehicles"}
              /\ accountCall[c].online => approved
         /\ accountCall[c].op = "changeStatus" => role # "NONE"

(* Until two requests overlap, at most one is in flight, and what it has    *)
(* read still holds.                                                        *)
StillTrue(call) ==
    /\ call.op = "apply" => MayApply
    /\ call.op = "review" => call.app = Len(applications) /\ call.app \in Pending
    /\ call.op = "changeStatus" => profile.status \in {"APPROVED", "SUSPENDED"}
    /\ call.op \in {"setOnline", "updateVehicles"} /\ call.online => RoleActive

Alone ==
    /\ \A c, d \in AccountCalls : c # d =>
         accountCall[c] = NoAccountCall \/ accountCall[d] = NoAccountCall
    /\ \A c \in AccountCalls : StillTrue(accountCall[c])

Sound == ~crossed => Alone /\ SerialAccountIsSound

AccountIInv ==
    /\ AccountTyped
    /\ Entitled
    /\ Sound

----------------------------------------------------------------------------
(* The steps that only record a request: what they leave, and what the      *)
(* slot holds.                                                              *)
LEMMA AskTyped ==
    ASSUME AccountTyped, NEW c \in AccountCalls, NEW call,
           AccountAsks(c, call), Carries(call)
    PROVE  AccountTyped'
  <1>1. /\ UNCHANGED <<profile, role, applications, preferred, riding, approved>>
        /\ crossed' \in BOOLEAN
        /\ accountCall' = [accountCall EXCEPT ![c] = call]
    BY DEF AccountAsks, accountRows, AccountTyped, AccountTypeOK
  <1>2. /\ accountCall' = [d \in AccountCalls |-> accountCall'[d]]
        /\ \A d \in AccountCalls : Carries(accountCall'[d])
    BY <1>1 DEF AccountTyped
  <1>3. \A d \in AccountCalls : Carries(accountCall[d])'
    BY <1>1, <1>2 DEF Carries
  <1>4. AccountTypeOK'
    BY <1>1, <1>2 DEF AccountTyped, AccountTypeOK, Carries
  <1> QED BY <1>2, <1>3, <1>4 DEF AccountTyped

LEMMA AnswerTyped ==
    ASSUME AccountTyped, NEW c \in AccountCalls, AccountAnswers(c),
           applications' \in Seq(RiderStatus),
           Len(applications') <= MaxApplications,
           DOMAIN applications \subseteq DOMAIN applications',
           profile' \in [status : (RiderStatus \ {"WITHDRAWN"}) \cup {"NONE"},
                         role : RoleStatus, online : BOOLEAN],
           role' \in RoleStatus \cup {"NONE"},
           preferred' \in {"CUSTOMER", "RIDER"},
           riding' \in BOOLEAN, approved' \in BOOLEAN
    PROVE  AccountTyped'
  <1>1. /\ accountCall' = [d \in AccountCalls |-> accountCall'[d]]
        /\ \A d \in AccountCalls :
             accountCall'[d] = accountCall[d] \/ accountCall'[d] = NoAccountCall
    BY DEF AccountAnswers, AccountTyped
  <1>2. \A d \in AccountCalls : Carries(accountCall[d])'
    BY <1>1 DEF Carries, NoAccountCall, AccountTyped
  <1>3. AccountTypeOK'
    BY <1>2 DEF AccountTyped, AccountTypeOK, Carries, AccountAnswers
  <1> QED BY <1>1, <1>2, <1>3 DEF AccountTyped

LEMMA VerdictFits ==
    ASSUME NEW s \in Seq(RiderStatus), NEW i, NEW v \in RiderStatus
    PROVE  /\ [s EXCEPT ![i] = v] \in Seq(RiderStatus)
           /\ Len([s EXCEPT ![i] = v]) = Len(s)
           /\ DOMAIN [s EXCEPT ![i] = v] = DOMAIN s
  <1> DEFINE t == [s EXCEPT ![i] = v]
  <1>1. /\ Len(s) \in Nat /\ DOMAIN s = 1..Len(s)
        /\ \A j \in 1..Len(s) : s[j] \in RiderStatus
    OBVIOUS
  <1>2. t = [j \in 1..Len(s) |-> t[j]] /\ \A j \in 1..Len(s) : t[j] \in RiderStatus
    BY <1>1
  <1>3. t \in [1..Len(s) -> RiderStatus]
    BY <1>2
  <1>4. t \in Seq(RiderStatus) /\ Len(t) = Len(s)
    BY <1>1, <1>3
  <1> QED BY <1>1, <1>2, <1>4

LEMMA AccountTypedKept ==
    ASSUME AccountTyped, [AccountNext]_accountVars
    PROVE  AccountTyped'
  <1>0. /\ AccountTypeOK
        /\ \A c \in AccountCalls : Carries(accountCall[c])
    BY DEF AccountTyped
  <1>1. CASE UNCHANGED accountVars
    BY <1>1, <1>0 DEF accountVars, accountRows, AccountTyped, AccountTypeOK,
                      Carries
  <1>2. CASE TakesOrder \/ DeliversOrder
    BY <1>2, <1>0 DEF TakesOrder, DeliversOrder, AccountTyped, AccountTypeOK,
                      Carries
  <1>3. ASSUME NEW c \in AccountCalls, ApplyRead(c)
        PROVE  AccountTyped'
    BY <1>3, AskTyped DEF ApplyRead, Carries
  <1>4. ASSUME NEW c \in AccountCalls, ApplyWrite(c)
        PROVE  AccountTyped'
    BY <1>4, <1>0, AnswerTyped, AccountAssumption
       DEF ApplyWrite, AccountTypeOK, RiderStatus, RoleStatus
  <1>5. ASSUME NEW c \in AccountCalls, NEW i \in Pending, WithdrawRead(c, i)
        PROVE  AccountTyped'
    BY <1>5, AskTyped DEF WithdrawRead, Carries, Pending
  <1>6. ASSUME NEW c \in AccountCalls, WithdrawWrite(c)
        PROVE  AccountTyped'
    <2>1. "WITHDRAWN" \in RiderStatus
      BY DEF RiderStatus
    <2> QED BY <1>6, <1>0, <2>1, AnswerTyped, VerdictFits
            DEF WithdrawWrite, AccountTypeOK
  <1>7. ASSUME NEW c \in AccountCalls,
               NEW verdict \in {"APPROVED", "REJECTED", "SUSPENDED"},
               ReviewRead(c, verdict)
        PROVE  AccountTyped'
    BY <1>7, AskTyped DEF ReviewRead, Carries, Pending
  <1>8. ASSUME NEW c \in AccountCalls, ReviewWrite(c)
        PROVE  AccountTyped'
    BY <1>8, <1>0, AnswerTyped
       DEF ReviewWrite, RoleAfterReview, AccountTypeOK, RiderStatus,
           RoleStatus, Carries
  <1>9. ASSUME NEW c \in AccountCalls, NEW next \in RoleStatus,
               ChangeStatusRead(c, next)
        PROVE  AccountTyped'
    BY <1>9, AskTyped DEF ChangeStatusRead, Carries
  <1>10. ASSUME NEW c \in AccountCalls, ChangeStatusWrite(c)
         PROVE  AccountTyped'
    BY <1>10, <1>0, AnswerTyped
       DEF ChangeStatusWrite, AccountTypeOK, RiderStatus, RoleStatus, Carries
  <1>11. ASSUME NEW c \in AccountCalls, NEW online \in BOOLEAN,
                SetOnlineRead(c, online)
         PROVE  AccountTyped'
    BY <1>11, AskTyped DEF SetOnlineRead, Carries
  <1>12. ASSUME NEW c \in AccountCalls, NEW vehicles \in BOOLEAN,
                UpdateVehiclesRead(c, vehicles)
         PROVE  AccountTyped'
    BY <1>12, <1>0, AskTyped DEF UpdateVehiclesRead, Carries, AccountTypeOK
  <1>13. ASSUME NEW c \in AccountCalls, ShiftWrite(c)
         PROVE  AccountTyped'
    BY <1>13, <1>0, AnswerTyped DEF ShiftWrite, AccountTypeOK, Carries
  <1>14. ASSUME NEW c \in AccountCalls, NEW to \in {"CUSTOMER", "RIDER"},
                SwitchRoleRead(c, to)
         PROVE  AccountTyped'
    BY <1>14, AskTyped DEF SwitchRoleRead, Carries
  <1>15. ASSUME NEW c \in AccountCalls, SwitchRoleWrite(c)
         PROVE  AccountTyped'
    BY <1>15, <1>0, AnswerTyped DEF SwitchRoleWrite, AccountTypeOK, Carries
  <1> QED BY <1>1, <1>2, <1>3, <1>4, <1>5, <1>6, <1>7, <1>8, <1>9, <1>10,
             <1>11, <1>12, <1>13, <1>14, <1>15 DEF AccountNext

----------------------------------------------------------------------------
(* The approval and the role are never taken back.                          *)
LEMMA AskEntitled ==
    ASSUME AccountTyped, Entitled, NEW c \in AccountCalls, NEW call,
           AccountAsks(c, call),
           call.op \in {"setOnline", "updateVehicles"} /\ call.online => approved,
           call.op = "changeStatus" => role # "NONE"
    PROVE  Entitled'
  <1>1. /\ UNCHANGED <<profile, role, preferred, riding, approved>>
        /\ \A d \in AccountCalls : accountCall'[d] = accountCall[d]
                                   \/ accountCall'[d] = call
    BY DEF AccountAsks, accountRows, AccountTyped
  <1> QED BY <1>1 DEF Entitled

LEMMA AnswerEntitled ==
    ASSUME AccountTyped, Entitled, NEW c \in AccountCalls, AccountAnswers(c),
           approved => approved',
           role # "NONE" => role' # "NONE",
           profile'.role = "ACTIVE" => role' = "ACTIVE" /\ approved',
           role' = "ACTIVE" => approved',
           profile'.online \/ riding' => approved',
           profile'.status \in {"APPROVED", "SUSPENDED"} => role' # "NONE"
    PROVE  Entitled'
  <1>1. \A d \in AccountCalls :
          accountCall'[d] = accountCall[d] \/ accountCall'[d] = NoAccountCall
    BY DEF AccountAnswers, AccountTyped
  <1> QED BY <1>1 DEF Entitled, NoAccountCall

LEMMA EntitledKept ==
    ASSUME AccountTyped, Entitled, [AccountNext]_accountVars
    PROVE  Entitled'
  <1>0. /\ profile \in [status : (RiderStatus \ {"WITHDRAWN"}) \cup {"NONE"},
                        role : RoleStatus, online : BOOLEAN]
        /\ role \in RoleStatus \cup {"NONE"} /\ riding \in BOOLEAN
        /\ \A c \in AccountCalls : Carries(accountCall[c])
    BY DEF AccountTyped, AccountTypeOK
  <1>1. CASE UNCHANGED accountVars
    BY <1>1 DEF accountVars, accountRows, Entitled
  <1>2. CASE TakesOrder \/ DeliversOrder
    BY <1>2 DEF TakesOrder, DeliversOrder, RoleActive, Entitled
  <1>3. ASSUME NEW c \in AccountCalls, ApplyRead(c)
        PROVE  Entitled'
    BY <1>3, AskEntitled DEF ApplyRead
  <1>4. ASSUME NEW c \in AccountCalls, ApplyWrite(c)
        PROVE  Entitled'
    BY <1>4, <1>0, AnswerEntitled DEF ApplyWrite, Entitled
  <1>5. ASSUME NEW c \in AccountCalls, NEW i \in Pending, WithdrawRead(c, i)
        PROVE  Entitled'
    BY <1>5, AskEntitled DEF WithdrawRead
  <1>6. ASSUME NEW c \in AccountCalls, WithdrawWrite(c)
        PROVE  Entitled'
    BY <1>6, AnswerEntitled DEF WithdrawWrite, Entitled
  <1>7. ASSUME NEW c \in AccountCalls,
               NEW verdict \in {"APPROVED", "REJECTED", "SUSPENDED"},
               ReviewRead(c, verdict)
        PROVE  Entitled'
    BY <1>7, AskEntitled DEF ReviewRead
  <1>8. ASSUME NEW c \in AccountCalls, ReviewWrite(c)
        PROVE  Entitled'
    BY <1>8, AnswerEntitled DEF ReviewWrite, RoleAfterReview, Entitled
  <1>9. ASSUME NEW c \in AccountCalls, NEW next \in RoleStatus,
               ChangeStatusRead(c, next)
        PROVE  Entitled'
    BY <1>9, AskEntitled DEF ChangeStatusRead, Entitled
  <1>10. ASSUME NEW c \in AccountCalls, ChangeStatusWrite(c)
         PROVE  Entitled'
    BY <1>10, <1>0, AnswerEntitled
       DEF ChangeStatusWrite, Entitled, Carries, RoleStatus
  <1>11. ASSUME NEW c \in AccountCalls, NEW online \in BOOLEAN,
                SetOnlineRead(c, online)
         PROVE  Entitled'
    BY <1>11, AskEntitled DEF SetOnlineRead, MayGoOnline, RoleActive, Entitled
  <1>12. ASSUME NEW c \in AccountCalls, NEW vehicles \in BOOLEAN,
                UpdateVehiclesRead(c, vehicles)
         PROVE  Entitled'
    BY <1>12, AskEntitled DEF UpdateVehiclesRead, RoleActive, Entitled
  <1>13. ASSUME NEW c \in AccountCalls, ShiftWrite(c)
         PROVE  Entitled'
    BY <1>13, <1>0, AnswerEntitled DEF ShiftWrite, Entitled
  <1>14. ASSUME NEW c \in AccountCalls, NEW to \in {"CUSTOMER", "RIDER"},
                SwitchRoleRead(c, to)
         PROVE  Entitled'
    BY <1>14, AskEntitled DEF SwitchRoleRead
  <1>15. ASSUME NEW c \in AccountCalls, SwitchRoleWrite(c)
         PROVE  Entitled'
    BY <1>15, AnswerEntitled DEF SwitchRoleWrite, Entitled
  <1> QED BY <1>1, <1>2, <1>3, <1>4, <1>5, <1>6, <1>7, <1>8, <1>9, <1>10,
             <1>11, <1>12, <1>13, <1>14, <1>15 DEF AccountNext

----------------------------------------------------------------------------
(* While requests do not overlap, a request in flight is the only one.      *)
LEMMA AskSound ==
    ASSUME AccountTyped, Sound, NEW c \in AccountCalls, NEW call,
           AccountAsks(c, call), Alone => StillTrue(call)
    PROVE  Sound'
  <1> SUFFICES ASSUME ~crossed' PROVE Alone' /\ SerialAccountIsSound'
    BY DEF Sound
  <1>1. /\ ~crossed /\ Alone /\ SerialAccountIsSound
        /\ \A d \in AccountCalls \ {c} : accountCall[d] = NoAccountCall
        /\ UNCHANGED <<profile, role, applications, riding>>
    BY DEF AccountAsks, Sound, accountRows
  <1>2. /\ accountCall'[c] = call
        /\ \A d \in AccountCalls \ {c} : accountCall'[d] = NoAccountCall
    BY <1>1 DEF AccountAsks, AccountTyped
  <1>3. \A d \in AccountCalls : StillTrue(accountCall[d])'
    BY <1>1, <1>2 DEF StillTrue, MayApply, Pending, RoleActive, NoAccountCall
  <1> QED BY <1>1, <1>2, <1>3
          DEF Alone, SerialAccountIsSound, Pending, RoleActive

LEMMA AnswerSound ==
    ASSUME AccountTyped, Sound, NEW c \in AccountCalls, AccountAnswers(c),
           accountCall[c] # NoAccountCall,
           ~crossed /\ SerialAccountIsSound /\ StillTrue(accountCall[c])
             => SerialAccountIsSound'
    PROVE  Sound'
  <1> SUFFICES ASSUME ~crossed' PROVE Alone' /\ SerialAccountIsSound'
    BY DEF Sound
  <1>1. ~crossed /\ Alone /\ SerialAccountIsSound
    BY DEF AccountAnswers, Sound
  <1>2. \A d \in AccountCalls : accountCall'[d] = NoAccountCall
    BY <1>1 DEF AccountAnswers, AccountTyped, Alone
  <1>3. Alone'
    BY <1>2 DEF Alone, StillTrue, NoAccountCall
  <1> QED BY <1>1, <1>3 DEF Alone

LEMMA SoundKept ==
    ASSUME AccountTyped, Entitled, Sound, [AccountNext]_accountVars
    PROVE  Sound'
  <1>0. /\ profile \in [status : (RiderStatus \ {"WITHDRAWN"}) \cup {"NONE"},
                        role : RoleStatus, online : BOOLEAN]
        /\ role \in RoleStatus \cup {"NONE"}
        /\ applications \in Seq(RiderStatus)
        /\ \A c \in AccountCalls : Carries(accountCall[c])
    BY DEF AccountTyped, AccountTypeOK
  <1> USE DEF Sound, StillTrue, SerialAccountIsSound, RoleActive
  <1>1. CASE UNCHANGED accountVars
    BY <1>1 DEF accountVars, accountRows, Alone, MayApply, Pending
  <1>2. CASE TakesOrder \/ DeliversOrder
    BY <1>2 DEF TakesOrder, DeliversOrder, Alone, MayApply, Pending
  <1>3. ASSUME NEW c \in AccountCalls, ApplyRead(c)
        PROVE  Sound'
    BY <1>3, AskSound DEF ApplyRead
  <1>4. ASSUME NEW c \in AccountCalls, ApplyWrite(c)
        PROVE  Sound'
    <2>1. accountCall[c].op = "apply" /\ AccountAnswers(c)
      BY <1>4 DEF ApplyWrite
    <2>2. ASSUME ~crossed, MayApply
          PROVE  SerialAccountIsSound'
      <3>1. /\ Len(applications') = Len(applications) + 1
            /\ \A i \in DOMAIN applications : applications'[i] = applications[i]
            /\ DOMAIN applications' = 1..(Len(applications) + 1)
            /\ DOMAIN applications = 1..Len(applications)
        BY <1>0, <1>4 DEF ApplyWrite
      <3>2. Pending' \subseteq {Len(applications')}
        BY <1>0, <2>2, <3>1 DEF MayApply, Pending
      <3> QED BY <1>0, <1>4, <2>2, <3>2 DEF ApplyWrite, MayApply
    <2> QED BY <2>1, <2>2, AnswerSound DEF NoAccountCall
  <1>5. ASSUME NEW c \in AccountCalls, NEW i \in Pending, WithdrawRead(c, i)
        PROVE  Sound'
    BY <1>5, AskSound DEF WithdrawRead
  <1>6. ASSUME NEW c \in AccountCalls, WithdrawWrite(c)
        PROVE  Sound'
    <2>1. accountCall[c].op = "withdraw" /\ AccountAnswers(c)
      BY <1>6 DEF WithdrawWrite
    <2>2. Len(applications') = Len(applications) /\ Pending' \subseteq Pending
      BY <1>0, <1>6, VerdictFits DEF WithdrawWrite, Pending, RiderStatus
    <2>3. UNCHANGED <<profile, role>>
      BY <1>6 DEF WithdrawWrite
    <2> QED BY <2>1, <2>2, <2>3, AnswerSound DEF NoAccountCall
  <1>7. ASSUME NEW c \in AccountCalls,
               NEW verdict \in {"APPROVED", "REJECTED", "SUSPENDED"},
               ReviewRead(c, verdict)
        PROVE  Sound'
    BY <1>7, AskSound DEF ReviewRead
  <1>8. ASSUME NEW c \in AccountCalls, ReviewWrite(c)
        PROVE  Sound'
    <2>1. /\ accountCall[c].op = "review" /\ AccountAnswers(c)
          /\ accountCall[c].to \in {"APPROVED", "REJECTED", "SUSPENDED"}
          /\ applications' = [applications EXCEPT ![accountCall[c].app]
                                = accountCall[c].to]
      BY <1>8, <1>0 DEF ReviewWrite, Carries
    <2>2. ASSUME ~crossed, SerialAccountIsSound, StillTrue(accountCall[c])
          PROVE  SerialAccountIsSound'
      <3>1. Pending' = {}
        BY <1>0, <2>1, <2>2, VerdictFits DEF Pending, RiderStatus
      <3> QED BY <1>8, <2>1, <3>1 DEF ReviewWrite, RoleAfterReview
    <2> QED BY <2>1, <2>2, AnswerSound DEF NoAccountCall
  <1>9. ASSUME NEW c \in AccountCalls, NEW next \in RoleStatus,
               ChangeStatusRead(c, next)
        PROVE  Sound'
    BY <1>9, AskSound DEF ChangeStatusRead
  <1>10. ASSUME NEW c \in AccountCalls, ChangeStatusWrite(c)
         PROVE  Sound'
    <2>1. /\ accountCall[c].op = "changeStatus" /\ AccountAnswers(c)
          /\ role # "NONE" /\ UNCHANGED applications
      BY <1>10 DEF ChangeStatusWrite, Entitled
    <2>2. ASSUME ~crossed, SerialAccountIsSound, StillTrue(accountCall[c])
          PROVE  SerialAccountIsSound'
      BY <1>10, <2>1, <2>2 DEF ChangeStatusWrite, Pending
    <2> QED BY <2>1, <2>2, AnswerSound DEF NoAccountCall
  <1>11. ASSUME NEW c \in AccountCalls, NEW online \in BOOLEAN,
                SetOnlineRead(c, online)
         PROVE  Sound'
    BY <1>11, AskSound DEF SetOnlineRead, MayGoOnline
  <1>12. ASSUME NEW c \in AccountCalls, NEW vehicles \in BOOLEAN,
                UpdateVehiclesRead(c, vehicles)
         PROVE  Sound'
    BY <1>12, AskSound DEF UpdateVehiclesRead
  <1>13. ASSUME NEW c \in AccountCalls, ShiftWrite(c)
         PROVE  Sound'
    <2>1. /\ accountCall[c].op \in {"setOnline", "updateVehicles"}
          /\ AccountAnswers(c) /\ UNCHANGED <<role, applications>>
          /\ UNCHANGED <<profile.status, profile.role>>
          /\ profile'.online = accountCall[c].online
      BY <1>13, <1>0 DEF ShiftWrite
    <2> QED BY <2>1, AnswerSound DEF NoAccountCall, Pending
  <1>14. ASSUME NEW c \in AccountCalls, NEW to \in {"CUSTOMER", "RIDER"},
                SwitchRoleRead(c, to)
         PROVE  Sound'
    BY <1>14, AskSound DEF SwitchRoleRead
  <1>15. ASSUME NEW c \in AccountCalls, SwitchRoleWrite(c)
         PROVE  Sound'
    BY <1>15, AnswerSound DEF SwitchRoleWrite, NoAccountCall, Pending
  <1> QED BY <1>1, <1>2, <1>3, <1>4, <1>5, <1>6, <1>7, <1>8, <1>9, <1>10,
             <1>11, <1>12, <1>13, <1>14, <1>15 DEF AccountNext

----------------------------------------------------------------------------
(* Every row and every request in flight is of its type; the approval is    *)
(* behind whatever lets a rider work; and until requests overlap, what one  *)
(* has read is still so.                                                    *)
THEOREM AccountInvariance == AccountSpec => []AccountIInv
  <1>1. ASSUME AccountInit PROVE AccountIInv
    <2>0. \A c \in AccountCalls : Carries(accountCall[c])
      BY <1>1 DEF AccountInit, Carries, NoAccountCall
    <2>1. AccountTyped
      <3>1. applications \in Seq(RiderStatus) /\ Len(applications) = 0
        BY <1>1 DEF AccountInit
      <3>2. accountCall = [c \in AccountCalls |-> accountCall[c]]
        BY <1>1 DEF AccountInit
      <3>3. /\ profile \in [status : (RiderStatus \ {"WITHDRAWN"}) \cup {"NONE"},
                           role : RoleStatus, online : BOOLEAN]
            /\ role \in RoleStatus \cup {"NONE"}
            /\ preferred \in {"CUSTOMER", "RIDER"}
            /\ {riding, approved, crossed} \subseteq BOOLEAN
        BY <1>1 DEF AccountInit, RiderStatus, RoleStatus
      <3>4. Len(applications) <= MaxApplications
        BY <3>1, AccountAssumption
      <3>5. AccountTypeOK
        BY <2>0, <3>1, <3>3, <3>4 DEF AccountTypeOK, Carries
      <3> QED BY <2>0, <3>2, <3>5 DEF AccountTyped
    <2>2. Entitled
      BY <1>1 DEF AccountInit, Entitled, NoAccountCall
    <2>3. Alone
      BY <1>1 DEF AccountInit, Alone, StillTrue, NoAccountCall
    <2>4. SerialAccountIsSound
      BY <1>1 DEF AccountInit, SerialAccountIsSound, Pending, RoleActive
    <2> QED BY <2>1, <2>2, <2>3, <2>4 DEF AccountIInv, Sound
  <1>2. AccountIInv /\ [AccountNext]_accountVars => AccountIInv'
    BY AccountTypedKept, EntitledKept, SoundKept DEF AccountIInv
  <1> QED BY <1>1, <1>2, PTL DEF AccountSpec

(* However applications, reviews, shifts, suspensions and switches of role  *)
(* overlap, nobody works whom no operator approved                          *)
(* (riders.service.ts:164-191, 261-272, 295-333).                           *)
THEOREM NobodyWorksUnapproved == AccountSpec => []WorkersAreEntitled
  <1>1. AccountIInv => WorkersAreEntitled
    BY DEF AccountIInv, Entitled, WorkersAreEntitled, currentRole
  <1> QED BY <1>1, AccountInvariance, PTL

(* One request at a time: one application under review, which the profile   *)
(* shows, and profile and role agree (riders.service.ts:46-52, 107-112).    *)
THEOREM SerialAccount == AccountSpec => []SerialAccountIsSound
  <1>1. AccountIInv => SerialAccountIsSound
    BY DEF AccountIInv, Sound, SerialAccountIsSound
  <1> QED BY <1>1, AccountInvariance, PTL

----------------------------------------------------------------------------
(* The limiter.  Once a window is open, it has granted what it has counted, *)
(* up to the limit; what a stretch holds depends on whether it begins after *)
(* the window before this one was opened, or after this one was.            *)
Live    == now < bucket.resetAt
Granted == IF bucket.count < Limit THEN bucket.count ELSE Limit
Passed(t) == Cardinality(LetThrough(t))

Burst(t) ==
    /\ Passed(t) < (2 + restarts) * Limit
    /\ Live /\ bucket.resetAt < t + 2 * WindowTicks =>
         Passed(t) < (1 + restarts) * Limit + Granted
    /\ Live /\ bucket.resetAt < t + WindowTicks => Passed(t) < Granted
    /\ ~Live /\ now < t + WindowTicks => Passed(t) < (1 + restarts) * Limit

LimitIInv ==
    /\ LimitTypeOK
    /\ IsFiniteSet(allowed)
    /\ \A q \in allowed : q[1] <= now /\ q[2] <= asked[q[1]]
    /\ Live => bucket.count >= 1 /\ bucket.resetAt <= now + WindowTicks
    /\ \A t \in Instants : Burst(t)

LEMMA PassedIsNat ==
    ASSUME IsFiniteSet(allowed), NEW t \in Instants
    PROVE  IsFiniteSet(LetThrough(t)) /\ Passed(t) \in Nat
  <1>1. LetThrough(t) \subseteq allowed
    BY DEF LetThrough
  <1>2. IsFiniteSet(LetThrough(t))
    BY <1>1, FS_Subset
  <1> QED BY <1>2, FS_CardinalityType DEF Passed

(* One more limit.                                                         *)
LEMMA OneMoreLimit ==
    ASSUME NEW e \in Nat
    PROVE  /\ (1 + e) * Limit \in Nat /\ (2 + e) * Limit \in Nat
           /\ (2 + e) * Limit = (1 + e) * Limit + Limit
           /\ Limit <= (1 + e) * Limit
  <1>1. Limit \in Nat
    BY LimitAssumption DEF LimitAssumption
  <1> DEFINE p == e * Limit
  <1>2. p \in Nat
    BY <1>1
  <1>3. (1 + e) * Limit = p + Limit /\ (2 + e) * Limit = p + Limit + Limit
    BY <1>1
  <1> HIDE DEF p
  <1> QED BY <1>1, <1>2, <1>3

(* A request let through adds itself to the stretches it falls in.          *)
LEMMA ConsumePasses ==
    ASSUME LimitIInv, consume, NEW t \in Instants
    PROVE  Passed(t)' = IF /\ CurrentWindow.count <= Limit
                           /\ t <= now /\ now < t + WindowTicks
                        THEN Passed(t) + 1 ELSE Passed(t)
  <1> DEFINE q == <<now, asked[now] + 1>>
  <1>1. asked'[now] = asked[now] + 1 /\ now \in Nat /\ asked[now] \in Nat
    BY LimitAssumption DEF consume, LimitIInv, LimitTypeOK, Instants, LimitAssumption
  <1>2. q \notin allowed
    BY <1>1 DEF LimitIInv
  <1>3. bucket' = CurrentWindow
    BY DEF consume
  <1>4. CASE CurrentWindow.count <= Limit /\ t <= now /\ now < t + WindowTicks
    <2>1. allowed' = allowed \cup {q}
      BY <1>1, <1>3, <1>4 DEF consume
    <2>2. LetThrough(t)' = LetThrough(t) \cup {q}
      BY <1>4, <2>1 DEF LetThrough
    <2>3. q \notin LetThrough(t)
      BY <1>2 DEF LetThrough
    <2> HIDE DEF q
    <2>4. IsFiniteSet(LetThrough(t))
      BY PassedIsNat DEF LimitIInv
    <2>5. Cardinality(LetThrough(t) \cup {q}) = Cardinality(LetThrough(t)) + 1
      BY <2>3, <2>4, FS_AddElement
    <2> QED BY <1>4, <2>2, <2>5 DEF Passed
  <1>5. CASE ~(CurrentWindow.count <= Limit /\ t <= now /\ now < t + WindowTicks)
    <2>1. allowed' \subseteq allowed \cup {q} /\ allowed \subseteq allowed'
          /\ (allowed' # allowed => CurrentWindow.count <= Limit)
      BY <1>1, <1>3 DEF consume
    <2>2. LetThrough(t)' = LetThrough(t)
      BY <1>5, <2>1 DEF LetThrough
    <2> QED BY <1>5, <2>2 DEF Passed
  <1> QED BY <1>4, <1>5

LEMMA ConsumeKeepsRecords ==
    ASSUME LimitIInv, consume
    PROVE  /\ LimitTypeOK' /\ IsFiniteSet(allowed')
           /\ (\A q \in allowed : q[1] <= now /\ q[2] <= asked[q[1]])'
           /\ bucket'.count >= 1 /\ now < bucket'.resetAt
           /\ bucket'.resetAt <= now + WindowTicks
  <1> USE LimitAssumption DEF LimitAssumption, LimitTypeOK, LimitIInv, Instants
  <1>1. /\ asked' = [asked EXCEPT ![now] = @ + 1] /\ asked[now] < MaxPerTick
        /\ UNCHANGED <<now, restarts>> /\ bucket' = CurrentWindow
        /\ \/ allowed' = allowed
           \/ allowed' = allowed \cup {<<now, asked'[now]>>}
    BY DEF consume
  <1>2. /\ bucket' \in [count : Nat, resetAt : 0..(LastTick + WindowTicks)]
        /\ bucket'.count >= 1 /\ now < bucket'.resetAt
        /\ bucket'.resetAt <= now + WindowTicks
    <2>1. /\ bucket \in [count : Nat, resetAt : 0..(LastTick + WindowTicks)]
          /\ now \in 0..LastTick
      OBVIOUS
    <2>2. CASE bucket.resetAt <= now
      <3>1. bucket' = [count |-> 1, resetAt |-> now + WindowTicks]
        BY <1>1, <2>2 DEF CurrentWindow
      <3>2. now + WindowTicks \in 0..(LastTick + WindowTicks)
        BY <2>1
      <3> QED BY <2>1, <3>1, <3>2
    <2>3. CASE now < bucket.resetAt
      <3>1. bucket' = [bucket EXCEPT !.count = @ + 1]
        BY <1>1, <2>1, <2>3 DEF CurrentWindow
      <3>2. bucket.resetAt <= now + WindowTicks
        BY <2>3 DEF Live
      <3> QED BY <2>1, <2>3, <3>1, <3>2
    <2> QED BY <2>1, <2>2, <2>3
  <1>3. asked'[now] = asked[now] + 1 /\ asked'[now] \in 1..MaxPerTick
        /\ asked' \in [Instants -> 0..MaxPerTick]
    BY <1>1
  <1>4. allowed' \subseteq Instants \X (1..MaxPerTick)
    BY <1>1, <1>3
  <1>5. IsFiniteSet(allowed')
    <2>1. \A q : IsFiniteSet(allowed \cup {q})
      BY FS_AddElement
    <2> QED BY <1>1, <2>1
  <1>6. ASSUME NEW q \in allowed' PROVE q[1] <= now /\ q[2] <= asked'[q[1]]
    <2>1. CASE q \in allowed
      <3>1. q[1] \in Instants /\ q[1] <= now /\ q[2] <= asked[q[1]]
            /\ q[2] \in 1..MaxPerTick
        BY <2>1
      <3>2. asked'[q[1]] >= asked[q[1]] /\ asked'[q[1]] \in Nat /\ asked[q[1]] \in Nat
        BY <1>1, <3>1
      <3> QED BY <3>1, <3>2
    <2>2. CASE q = <<now, asked'[now]>>
      BY <1>3, <2>2
    <2> QED BY <1>1, <2>1, <2>2
  <1> QED BY <1>1, <1>2, <1>3, <1>4, <1>5, <1>6

LEMMA ConsumeKeeps ==
    ASSUME LimitIInv, consume
    PROVE  LimitIInv'
  <1>1. ASSUME NEW t \in Instants PROVE Burst(t)'
    <2>1. /\ Limit \in Nat \ {0} /\ WindowTicks \in Nat \ {0}
          /\ t \in Nat /\ now \in Nat /\ restarts \in Nat
          /\ bucket.count \in Nat /\ bucket.resetAt \in Nat
      BY LimitAssumption DEF LimitAssumption, LimitIInv, LimitTypeOK, Instants
    <2>2. UNCHANGED <<now, restarts>> /\ bucket' = CurrentWindow
      BY DEF consume
    <2>3. Live' /\ Passed(t) \in Nat /\ Burst(t)
      BY <2>2, ConsumeKeepsRecords, PassedIsNat DEF Live, LimitIInv
    <2>4. /\ (1 + restarts) * Limit \in Nat
          /\ (2 + restarts) * Limit = (1 + restarts) * Limit + Limit
          /\ Limit <= (1 + restarts) * Limit
      BY <2>1, OneMoreLimit
    <2> DEFINE b == (1 + restarts) * Limit
    <2>5. /\ Passed(t) < b + Limit
          /\ Live /\ bucket.resetAt < t + 2 * WindowTicks => Passed(t) < b + Granted
          /\ Live /\ bucket.resetAt < t + WindowTicks => Passed(t) < Granted
          /\ ~Live /\ now < t + WindowTicks => Passed(t) < b
          /\ b \in Nat /\ Limit <= b
      BY <2>3, <2>4 DEF Burst
    <2>6. SUFFICES
            /\ Passed(t)' < b + Limit
            /\ bucket'.resetAt < t + 2 * WindowTicks => Passed(t)' < b + Granted'
            /\ bucket'.resetAt < t + WindowTicks => Passed(t)' < Granted'
      BY <2>2, <2>3, <2>4 DEF Burst
    <2> HIDE DEF b
    <2>7. CASE Live
      <3>1. /\ bucket'.count = bucket.count + 1
            /\ bucket'.resetAt = bucket.resetAt
            /\ CurrentWindow.count = bucket.count + 1
            /\ bucket.resetAt <= now + WindowTicks
        BY <2>1, <2>2, <2>7 DEF Live, CurrentWindow, LimitIInv, LimitTypeOK
      <3> QED BY <2>1, <2>3, <2>5, <2>7, <3>1, ConsumePasses DEF Granted
    <2>8. CASE ~Live
      <3>1. /\ bucket'.count = 1 /\ CurrentWindow.count = 1
            /\ bucket'.resetAt = now + WindowTicks
        BY <2>1, <2>2, <2>8 DEF Live, CurrentWindow
      <3>2. now < t => Passed(t) = 0
        <4> SUFFICES ASSUME now < t PROVE LetThrough(t) = {}
          BY FS_EmptySet DEF Passed
        <4>1. ASSUME NEW q \in LetThrough(t) PROVE FALSE
          BY <2>1 DEF LetThrough, LimitIInv, LimitTypeOK, Instants
        <4> QED BY <4>1
      <3> QED BY <2>1, <2>3, <2>5, <2>8, <3>1, <3>2, ConsumePasses DEF Granted
    <2> QED BY <2>7, <2>8
  <1>2. UNCHANGED now
    BY DEF consume
  <1> QED BY <1>1, <1>2, ConsumeKeepsRecords DEF LimitIInv

(* No request: the entry goes, with the process or the window, or time does. *)
LEMMA QuietKeeps ==
    ASSUME LimitIInv, DropExpired \/ Restart \/ ClockTicks \/ UNCHANGED limitVars
    PROVE  LimitIInv'
  <1> USE LimitAssumption DEF LimitAssumption
  <1>1. /\ LimitTypeOK' /\ UNCHANGED <<asked, allowed>>
        /\ now <= now' /\ restarts <= restarts'
    BY DEF LimitIInv, LimitTypeOK, Instants, DropExpired, Restart, ClockTicks,
           limitVars, NoBucket
  <1>2. \A q \in allowed : q[1] <= now'
    BY <1>1 DEF LimitIInv, LimitTypeOK, Instants
  <1>3. Live' => Live /\ bucket' = bucket /\ restarts' = restarts
    BY DEF Live, LimitIInv, LimitTypeOK, Instants, DropExpired, Restart,
           ClockTicks, limitVars, NoBucket
  <1>4. ASSUME NEW t \in Instants PROVE Burst(t)'
    <2>1. /\ Limit \in Nat \ {0} /\ WindowTicks \in Nat \ {0} /\ t \in Nat
          /\ now \in Nat /\ restarts \in Nat /\ now' \in Nat /\ restarts' \in Nat
          /\ bucket.count \in Nat /\ bucket.resetAt \in Nat
      BY <1>1 DEF LimitIInv, LimitTypeOK, Instants
    <2>2. Passed(t)' = Passed(t) /\ Passed(t) \in Nat /\ Burst(t)
      BY <1>1, PassedIsNat DEF Passed, LetThrough, LimitIInv
    <2>3. \A e \in Nat : /\ (1 + e) * Limit \in Nat
                         /\ (2 + e) * Limit = (1 + e) * Limit + Limit
                         /\ Limit <= (1 + e) * Limit
      BY OneMoreLimit
    <2>4. CASE UNCHANGED restarts
      <3>1. ~Live' /\ now' < t + WindowTicks =>
              IF Live THEN bucket.resetAt < t + WindowTicks
                      ELSE now < t + WindowTicks
        BY <1>1, <2>1, <2>4 DEF Live, DropExpired, Restart, ClockTicks, limitVars
      <3>2. Live /\ bucket.resetAt < t + WindowTicks => Passed(t) < Limit
        BY <2>1, <2>2 DEF Burst, Granted
      <3>3. ~Live' /\ now' < t + WindowTicks => Passed(t) < (1 + restarts) * Limit
        BY <2>1, <2>2, <2>3, <3>1, <3>2 DEF Burst
      <3> QED BY <1>3, <2>2, <2>4, <3>3 DEF Burst, Live, Granted
    <2>5. CASE restarts' = restarts + 1
      <3>1. ~Live' /\ 1 + restarts' = 2 + restarts
        BY <1>3, <2>1, <2>5
      <3>2. Passed(t) < (1 + restarts') * Limit
        BY <2>2, <3>1 DEF Burst
      <3>3. Passed(t) < (2 + restarts') * Limit
        BY <2>1, <2>2, <2>3, <3>2
      <3> QED BY <2>2, <3>1, <3>2, <3>3 DEF Burst
    <2> QED BY <2>4, <2>5 DEF DropExpired, Restart, ClockTicks, limitVars
  <1>5. Live' => bucket'.count >= 1 /\ bucket'.resetAt <= now' + WindowTicks
    BY <1>1, <1>3 DEF LimitIInv, LimitTypeOK, Instants
  <1> QED BY <1>1, <1>2, <1>4, <1>5 DEF LimitIInv

LEMMA LimitStarts ==
    ASSUME LimitInit
    PROVE  LimitIInv
  <1> USE LimitAssumption DEF LimitAssumption
  <1>1. LimitTypeOK /\ allowed = {} /\ ~Live /\ restarts = 0
    BY DEF LimitInit, LimitTypeOK, Instants, NoBucket, Live
  <1>2. IsFiniteSet({}) /\ Cardinality({}) = 0
    BY FS_EmptySet
  <1>3. \A t \in Instants : Passed(t) = 0
    BY <1>1, <1>2 DEF Passed, LetThrough
  <1>4. 0 < (1 + restarts) * Limit /\ 0 < (2 + restarts) * Limit
    BY <1>1
  <1> QED BY <1>1, <1>2, <1>3, <1>4 DEF LimitIInv, Burst

(* The inductive invariant of the limiter's bucket.                         *)
THEOREM LimitInvariance == RateSpec => []LimitIInv
  <1>1. LimitInit => LimitIInv
    BY LimitStarts
  <1>2. LimitIInv /\ [LimitNext]_limitVars => LimitIInv'
    BY ConsumeKeeps, QuietKeeps DEF LimitNext
  <1> QED BY <1>1, <1>2, PTL DEF RateSpec

(* The guard lets less than twice the limit through in any stretch of a     *)
(* window's length, and at most one limit more for each restart that        *)
(* forgets the window, for any limit, window and sequence of requests.      *)
THEOREM LimiterHolds == RateSpec => []BurstsAreBounded
  <1>1. LimitIInv => BurstsAreBounded
    BY DEF LimitIInv, Burst, Passed, BurstsAreBounded
  <1> QED BY <1>1, LimitInvariance, PTL
=============================================================================
