--------------------------- MODULE OperationsDesk ---------------------------
(***************************************************************************)
(* OperationsApp.tsx: the operator's desk.  It asks for the orders every   *)
(* five seconds, one request at a time, and once more when the operator    *)
(* signs in; each answer replaces what is shown and announces the orders   *)
(* that wait for the operator and were not seen before.                    *)
(***************************************************************************)
EXTENDS Naturals, Sequences, FiniteSets, SequencesExt

CONSTANTS
    DeskOrders,     \* orders that customers may place
    MaxMoves,       \* bound: changes of the orders
    MaxLogins,      \* bound: how often the operator signs in
    MaxLoads        \* bound: requests for the orders in flight

VARIABLES
    served,         \* [DeskOrders -> what the order waits for, at the server]
    signedIn,       \* token
    expired,        \* showLogin although there is a token
    onDesk,         \* orders: what the desk shows
    refreshing,     \* refreshingRef
    loads,          \* requests for the orders in flight
    known,          \* seenActionableOrderIdsRef is not null
    seen,           \* seenActionableOrderIdsRef
    deskCall,       \* advanceOrder or quoteOrder in flight; bound: one
    announced,      \* history: [DeskOrders -> announcements in this session]
    moves,          \* changes of the orders so far
    logins          \* sessions so far

deskScreen == <<onDesk, known, seen, announced>>
deskLoads  == <<refreshing, loads>>
serverSide == <<served, moves>>
session    == <<signedIn, expired, logins>>
deskVars   == <<serverSide, session, deskScreen, deskLoads, deskCall>>

(* normalizeOrder: needsQuote, awaitingQuoteConfirmation, waiting for the  *)
(* payment, for the operator, for a rider; or at its end.                  *)
Waits == {"absent", "quote", "confirmation", "payment", "merchant", "rider",
          "over"}
Actionable(view) == {o \in DeskOrders : view[o] \in {"quote", "merchant"}}
EmptyDesk == [o \in DeskOrders |-> "absent"]
NoDeskCall == [at |-> "none"]

DeskTypeOK ==
    /\ served \in [DeskOrders -> Waits] /\ onDesk \in [DeskOrders -> Waits]
    /\ {signedIn, expired, refreshing, known} \subseteq BOOLEAN
    /\ Len(loads) <= MaxLoads
    /\ seen \subseteq DeskOrders
    /\ deskCall.at \in {"none", "sent", "done", "refused"}
    /\ announced \in [DeskOrders -> Nat]
    /\ moves \in 0..MaxMoves /\ logins \in 0..MaxLogins

(* The desk may be opened with orders already waiting.                      *)
DeskInit ==
    /\ served \in {EmptyDesk, [o \in DeskOrders |-> "merchant"]}
    /\ onDesk = EmptyDesk
    /\ signedIn = FALSE /\ expired = FALSE /\ refreshing = FALSE
    /\ loads = <<>>
    /\ known = FALSE /\ seen = {}
    /\ deskCall = NoDeskCall
    /\ announced = [o \in DeskOrders |-> 0]
    /\ moves = 0 /\ logins = 0

----------------------------------------------------------------------------
(* A slip: what an answer does not hold is forgotten.  No action uses it.  *)
SeenInThisAnswer(before, ids) == ids
----------------------------------------------------------------------------

SeenSoFar(before, ids) == before \cup ids

(* notifyNewActionableOrders and the setters that follow it.  The first    *)
(* answer after a sign-in is taken in silence.                             *)
Shown(view) ==
    LET ids == Actionable(view) IN
    /\ onDesk' = view
    /\ known' = TRUE
    /\ seen' = IF known THEN SeenSoFar(seen, ids) ELSE ids
    /\ announced' = [o \in DeskOrders |->
         IF known /\ o \in ids \ seen THEN announced[o] + 1 ELSE announced[o]]

Load(guarded, authorized) ==
    [at |-> "sent", answer |-> EmptyDesk, guarded |-> guarded,
     authorized |-> authorized]

(* loadDashboard: a call while one is out does nothing.                     *)
loadDashboard(authorized) ==
    IF refreshing THEN UNCHANGED deskLoads
    ELSE /\ Len(loads) < MaxLoads
         /\ refreshing' = TRUE
         /\ loads' = Append(loads, Load(TRUE, authorized))

(* The timer runs while the operator is signed in; the button always works, *)
(* unless a request is out.                                                 *)
Refresh ==
    /\ ~refreshing
    /\ loadDashboard(signedIn)
    /\ UNCHANGED <<serverSide, session, deskScreen, deskCall>>

(* completeOperatorLogin asks for the orders itself, without the guard, and *)
(* the new token starts the timer's effect, which asks again.  After an     *)
(* expired token the desk goes on with what it has seen.                    *)
completeOperatorLogin ==
    /\ ~signedIn \/ expired
    /\ logins < MaxLogins
    /\ signedIn' = TRUE /\ expired' = FALSE /\ logins' = logins + 1
    /\ LET asked == IF refreshing THEN <<Load(FALSE, TRUE)>>
                    ELSE <<Load(FALSE, TRUE), Load(TRUE, TRUE)>> IN
       /\ Len(loads) + Len(asked) <= MaxLoads
       /\ loads' = loads \o asked
    /\ refreshing' = TRUE
    /\ UNCHANGED <<serverSide, deskScreen, deskCall>>

logout ==
    /\ signedIn
    /\ signedIn' = FALSE /\ expired' = FALSE
    /\ onDesk' = EmptyDesk
    /\ known' = FALSE /\ seen' = {}
    /\ announced' = [o \in DeskOrders |-> 0]
    /\ UNCHANGED <<serverSide, logins, deskLoads, deskCall>>

ServerAnswersLoad(i) ==
    /\ loads[i].at = "sent" /\ loads[i].authorized
    /\ loads' = [loads EXCEPT ![i].at = "answered", ![i].answer = served]
    /\ UNCHANGED <<serverSide, session, deskScreen, refreshing, deskCall>>

LoadEnds(i) ==
    /\ loads' = RemoveAt(loads, i)
    /\ refreshing' = (refreshing /\ ~loads[i].guarded)

(* Nothing asks whether the session that sent the request is still there.   *)
LoadArrives(i) ==
    /\ loads[i].at = "answered"
    /\ Shown(loads[i].answer)
    /\ LoadEnds(i)
    /\ UNCHANGED <<serverSide, session, deskCall>>

(* A load the server refuses opens the login dialog, except the one that    *)
(* completeOperatorLogin sent.                                              *)
LoadFails(i) ==
    /\ LoadEnds(i)
    /\ expired' \in {expired, expired \/ (signedIn /\ loads[i].guarded)}
    /\ UNCHANGED <<serverSide, signedIn, logins, deskScreen, deskCall>>

----------------------------------------------------------------------------
(* The operator's buttons, from what the desk shows.                        *)
DeskAsks(op, o) ==
    /\ deskCall = NoDeskCall
    /\ deskCall' = [at |-> "sent", op |-> op, order |-> o,
                    authorized |-> signedIn]
    /\ UNCHANGED <<serverSide, session, deskScreen, deskLoads>>

advanceOrder(o) == onDesk[o] = "merchant" /\ DeskAsks("advance", o)
quoteOrder(o)   == onDesk[o] = "quote" /\ DeskAsks("quote", o)

Moves(o, next) ==
    /\ moves < MaxMoves
    /\ moves' = moves + 1
    /\ served' = [served EXCEPT ![o] = next]

ServerAnswersDeskCall ==
    /\ deskCall.at = "sent"
    /\ LET o == deskCall.order IN
       \/ /\ deskCall.authorized
          /\ \/ /\ deskCall.op = "advance" /\ served[o] = "merchant"
                /\ Moves(o, "rider")
             \/ /\ deskCall.op = "quote"
                /\ served[o] \in {"quote", "confirmation"}
                /\ Moves(o, "confirmation")
          /\ deskCall' = [deskCall EXCEPT !.at = "done"]
       \/ /\ deskCall' = [deskCall EXCEPT !.at = "refused"]
          /\ UNCHANGED serverSide
    /\ UNCHANGED <<session, deskScreen, deskLoads>>

(* A call that succeeded asks for the orders, with the token it was sent    *)
(* with; one that failed does not.                                          *)
DeskCallEnds ==
    /\ deskCall.at \in {"done", "refused"}
    /\ deskCall' = NoDeskCall
    /\ IF deskCall.at = "done" THEN loadDashboard(deskCall.authorized)
       ELSE UNCHANGED deskLoads
    /\ UNCHANGED <<serverSide, session, deskScreen>>

(* Customers place, pay, answer quotes and cancel; riders deliver.          *)
CustomersStep(o) ==
    /\ \E next \in Waits :
         /\ <<served[o], next>> \in
              {<<"absent", "quote">>, <<"absent", "payment">>,
               <<"confirmation", "quote">>, <<"confirmation", "payment">>,
               <<"payment", "merchant">>, <<"rider", "over">>,
               <<"quote", "over">>, <<"confirmation", "over">>,
               <<"payment", "over">>, <<"merchant", "over">>}
         /\ Moves(o, next)
    /\ UNCHANGED <<session, deskScreen, deskLoads, deskCall>>

DeskNext ==
    \/ Refresh \/ completeOperatorLogin \/ logout
    \/ \E i \in DOMAIN loads :
         ServerAnswersLoad(i) \/ LoadArrives(i) \/ LoadFails(i)
    \/ \E o \in DeskOrders :
         advanceOrder(o) \/ quoteOrder(o) \/ CustomersStep(o)
    \/ ServerAnswersDeskCall \/ DeskCallEnds

----------------------------------------------------------------------------
(* However the answers overtake each other, fail, or outlive the session   *)
(* that asked: an order is announced once in a session at most, and none   *)
(* that waits for the operator is on the desk without having been          *)
(* announced or found there by the session's first answer                  *)
(* (notifyNewActionableOrders, lines 562-575, called by both loads).       *)
AnnouncedOnce ==
    /\ \A o \in DeskOrders : announced[o] <= 1
    /\ Actionable(onDesk) \subseteq seen
=============================================================================
