--------------------------- MODULE OperatorLogin ---------------------------
(***************************************************************************)
(* auth.service.ts: an operator signs in with a password.  The row is read *)
(* once; the password is checked and the failure counter computed from     *)
(* that reading, and the row is written by id.                             *)
(***************************************************************************)
EXTENDS Naturals

CONSTANTS
    LoginCalls,     \* slots for requests in flight
    LockThreshold,  \* failures that lock the account (5 in the code)
    MaxWrong        \* bound: wrong passwords counted

ASSUME LoginAssumption == LockThreshold \in Nat \ {0} /\ MaxWrong \in Nat

VARIABLES
    operator,       \* [failedLoginCount, lock]: lock is "open" (lockedUntil
                    \* null), "locked" (in the future) or "expired"
    login,          \* [LoginCalls -> request in flight, with what it has read]
    wrong,          \* history: failures recorded since the last reset
    overlapped      \* history: two requests have been in flight at once

loginVars == <<operator, login, wrong, overlapped>>

NoLogin == [op |-> "none", failed |-> 0]

LoginTypeOK ==
    /\ operator \in [failed : 0..MaxWrong, lock : {"open", "locked", "expired"}]
    /\ login \in [LoginCalls ->
                    [op : {"none", "success", "failure", "change"},
                     failed : 0..MaxWrong]]
    /\ wrong \in 0..MaxWrong
    /\ overlapped \in BOOLEAN

LoginInit ==
    /\ operator = [failed |-> 0, lock |-> "open"]
    /\ login = [c \in LoginCalls |-> NoLogin]
    /\ wrong = 0
    /\ overlapped = FALSE

----------------------------------------------------------------------------
(* A slip: the failure after the last allowed one does not lock.  No action *)
(* uses it.                                                                 *)
lockAfterOneMore(failed) == IF failed > LockThreshold THEN "locked" ELSE "open"
----------------------------------------------------------------------------

lockAfter(failed) == IF failed >= LockThreshold THEN "locked" ELSE "open"

LoginBegins(c, op) ==
    /\ login[c] = NoLogin
    /\ login' = [login EXCEPT ![c] = [op |-> op, failed |-> operator.failed]]
    /\ overlapped' = (overlapped \/ \E d \in LoginCalls \ {c} :
                                      login[d] # NoLogin)
    /\ UNCHANGED <<operator, wrong>>

LoginEnds(c) == login' = [login EXCEPT ![c] = NoLogin] /\ UNCHANGED overlapped

(* operatorLogin turns a locked account away before it looks at the        *)
(* password; a disabled operator fails like a wrong password.              *)
OperatorLoginRead(c, right) ==
    /\ operator.lock # "locked"
    /\ LoginBegins(c, IF right THEN "success" ELSE "failure")

OperatorLoginWrite(c) ==
    /\ login[c].op = "success"
    /\ operator' = [failed |-> 0, lock |-> "open"]
    /\ wrong' = 0
    /\ LoginEnds(c)

RecordFailedOperatorLogin(c) ==
    /\ login[c].op = "failure"
    /\ wrong < MaxWrong /\ login[c].failed < MaxWrong
    /\ LET failed == login[c].failed + 1 IN
       operator' = [failed |-> failed, lock |-> lockAfter(failed)]
    /\ wrong' = wrong + 1
    /\ LoginEnds(c)

(* A signed-in operator changes the password, locked or not.               *)
ChangeOperatorPasswordRead(c) == LoginBegins(c, "change")

ChangeOperatorPasswordWrite(c) ==
    /\ login[c].op = "change"
    /\ operator' = [failed |-> 0, lock |-> "open"]
    /\ wrong' = 0
    /\ LoginEnds(c)

(* Fifteen minutes pass.  The counter stays: one more failure locks again. *)
LockExpires ==
    /\ operator.lock = "locked"
    /\ operator' = [operator EXCEPT !.lock = "expired"]
    /\ UNCHANGED <<login, wrong, overlapped>>

LoginNext ==
    \/ LockExpires
    \/ \E c \in LoginCalls :
         \/ \E right \in BOOLEAN : OperatorLoginRead(c, right)
         \/ OperatorLoginWrite(c)
         \/ RecordFailedOperatorLogin(c)
         \/ ChangeOperatorPasswordRead(c)
         \/ ChangeOperatorPasswordWrite(c)

----------------------------------------------------------------------------
(* As long as requests do not overlap, the counter is the number of        *)
(* failures since the last success and the account is locked (or its lock  *)
(* has run out) exactly from the threshold on.  Two attempts that overlap  *)
(* count once, and the slower one can write null over a lock               *)
(* (recordFailedOperatorLogin, lines 297-309).                             *)
SerialFailuresLock == ~overlapped =>
    /\ operator.failed = wrong
    /\ (operator.lock # "open") <=> (wrong >= LockThreshold)
============================================================================
