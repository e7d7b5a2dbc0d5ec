------------------------------ MODULE MCParts ------------------------------
(***************************************************************************)
(* Six parts that share no state with each other, each on its own small  *)
(* instance.  Interleaving them would only multiply their states: part is  *)
(* chosen once, and that part moves while the others stay as they began.   *)
(***************************************************************************)
EXTENDS OrderDetailPage, RiderApplications, AddressBook, RateLimit,
        OperatorLogin, OperationsDesk

VARIABLE part

partsVars == <<detailVars, accountVars, bookVars, limitVars, loginVars,
               deskVars, part>>

Init ==
    /\ part \in {"detail", "account", "book", "limit", "login", "desk"}
    /\ DetailInit /\ AccountInit /\ BookInit /\ LimitInit /\ LoginInit
    /\ DeskInit
    /\ part # "detail" => row.quote = "PENDING" /\ shown = NoOrder
    /\ part # "desk" => served = EmptyDesk

Detail ==
    /\ part = "detail" /\ DetailNext
    /\ UNCHANGED <<accountVars, bookVars, limitVars, loginVars, deskVars,
                   part>>

Account ==
    /\ part = "account" /\ AccountNext
    /\ UNCHANGED <<detailVars, bookVars, limitVars, loginVars, deskVars,
                   part>>

Book ==
    /\ part = "book" /\ BookNext
    /\ UNCHANGED <<detailVars, accountVars, limitVars, loginVars, deskVars,
                   part>>

RateLimiter ==
    /\ part = "limit" /\ LimitNext
    /\ UNCHANGED <<detailVars, accountVars, bookVars, loginVars, deskVars,
                   part>>

Login ==
    /\ part = "login" /\ LoginNext
    /\ UNCHANGED <<detailVars, accountVars, bookVars, limitVars, deskVars,
                   part>>

Desk ==
    /\ part = "desk" /\ DeskNext
    /\ UNCHANGED <<detailVars, accountVars, bookVars, limitVars, loginVars,
                   part>>

Next ==
    Detail \/ Account \/ Book \/ RateLimiter \/ Login \/ Desk

Moving == part = "detail"

(* DetailFairness, where the page is the part that moves.                   *)
PageFairness ==
    /\ WF_detailVars(Moving /\ startOrderPolling)
    /\ WF_detailVars(Moving /\ PollTick)
    /\ SF_detailVars(Moving /\ \E i \in DOMAIN polls : ServerAnswersPoll(i))
    /\ SF_detailVars(Moving /\ \E i \in DOMAIN polls : PollArrives(i))

Spec == Init /\ [][Next]_partsVars /\ PageFairness

(* Every part stays within the values its columns and fields can hold.      *)
PartsTypeOK ==
    /\ DetailTypeOK /\ AccountTypeOK /\ BookTypeOK
    /\ LimitTypeOK /\ LoginTypeOK /\ DeskTypeOK
=============================================================================
