---------------------------- MODULE AddressBook ----------------------------
(***************************************************************************)
(* addresses.service.ts: one customer's address book.  update, delete and  *)
(* recordUse look the address up before the transaction that writes it;    *)
(* create counts inside its transaction, whose default isolation lets      *)
(* another transaction commit after the count.  Every write stamps         *)
(* updatedAt, and delete promotes the address updated last, so the book is *)
(* kept in that order.                                                     *)
(***************************************************************************)
EXTENDS Naturals, Sequences, FiniteSets, SequencesExt

CONSTANTS
    AddressIds,     \* ids that create may give
    BookCalls       \* slots for requests in flight

VARIABLES
    book,           \* the addresses, the one updated last first
    defaults,       \* those whose isDefault is true
    bookCall,       \* [BookCalls -> request in flight, with what it has read]
    staleBook,      \* history: some write rested on a read that no longer held
    unset           \* history: the customer's form took the default away

bookVars == <<book, defaults, bookCall, staleBook, unset>>

NoBookCall == [op |-> "none"]
Listed(id) == id \in Range(book)

(* The rows ids have just been written.                                    *)
Stamped(rows, ids) ==
    SelectSeq(rows, LAMBDA a : a \in ids)
      \o SelectSeq(rows, LAMBDA a : a \notin ids)

BookTypeOK ==
    /\ book \in Seq(AddressIds) /\ IsInjective(book)
    /\ defaults \subseteq Range(book)
    /\ \A c \in BookCalls :
         bookCall[c].op \in {"none", "create", "update", "delete", "recordUse"}
    /\ staleBook \in BOOLEAN /\ unset \in BOOLEAN

BookInit ==
    /\ book = <<>> /\ defaults = {}
    /\ bookCall = [c \in BookCalls |-> NoBookCall]
    /\ staleBook = FALSE /\ unset = FALSE

----------------------------------------------------------------------------
(* A slip: delete leaves the book without a default.  No action uses it.   *)
ReplacementForgotten(wasDefault, rest) == {}
----------------------------------------------------------------------------

BookAsk(c, call) ==
    /\ bookCall[c] = NoBookCall
    /\ bookCall' = [bookCall EXCEPT ![c] = call]
    /\ UNCHANGED <<book, defaults, staleBook, unset>>

BookDone(c) == bookCall' = [bookCall EXCEPT ![c] = NoBookCall]

(* create: the first address is the default whatever the form says.         *)
CreateCount(c, id, isDefault) ==
    /\ ~Listed(id)
    /\ \A d \in BookCalls : bookCall[d].op = "create" => bookCall[d].id # id
    /\ BookAsk(c, [op |-> "create", id |-> id,
                   isDefault |-> isDefault \/ book = <<>>,
                   empty |-> book = <<>>])

CreateWrite(c) ==
    /\ bookCall[c].op = "create"
    /\ LET id == bookCall[c].id IN
       IF bookCall[c].isDefault
       THEN /\ book' = <<id>> \o Stamped(book, defaults)
            /\ defaults' = {id}
            /\ unset' = FALSE
       ELSE /\ book' = <<id>> \o book
            /\ UNCHANGED <<defaults, unset>>
    /\ staleBook' = (staleBook \/ (book = <<>> /\ ~bookCall[c].empty))
    /\ BookDone(c)

(* update writes isDefault from the form, and clears the others only when  *)
(* the form asks for the default.                                          *)
UpdateRead(c, id, isDefault) ==
    /\ Listed(id)
    /\ BookAsk(c, [op |-> "update", id |-> id, isDefault |-> isDefault])

DefaultsAfterUpdate(id, isDefault) ==
    IF isDefault THEN {id} ELSE defaults \ {id}

UpdateWrite(c) ==
    /\ bookCall[c].op = "update"
    /\ LET id == bookCall[c].id
           isDefault == bookCall[c].isDefault IN
       /\ Listed(id)
       /\ defaults' = DefaultsAfterUpdate(id, isDefault)
       /\ book' = Stamped(IF isDefault THEN Stamped(book, defaults) ELSE book,
                          {id})
       /\ unset' = (~isDefault /\ (unset \/ id \in defaults))
    /\ BookDone(c)
    /\ UNCHANGED staleBook

(* delete promotes a replacement when the address was the default at the   *)
(* time it was looked up.                                                  *)
DeleteRead(c, id) ==
    /\ Listed(id)
    /\ BookAsk(c, [op |-> "delete", id |-> id, isDefault |-> id \in defaults])

Replacement(wasDefault, rest) ==
    IF wasDefault /\ rest # <<>> THEN {Head(rest)} ELSE {}

DeleteWrite(c) ==
    /\ bookCall[c].op = "delete"
    /\ LET id   == bookCall[c].id
           rest == SelectSeq(book, LAMBDA a : a # id)
           next == Replacement(bookCall[c].isDefault, rest) IN
       /\ Listed(id)
       /\ book' = IF next = {} THEN rest ELSE Stamped(rest, next)
       /\ defaults' = (defaults \ {id}) \cup next
       /\ staleBook' = (staleBook \/ bookCall[c].isDefault # (id \in defaults))
    /\ BookDone(c)
    /\ UNCHANGED unset

RecordUseRead(c, id) ==
    /\ Listed(id)
    /\ BookAsk(c, [op |-> "recordUse", id |-> id])

RecordUseWrite(c) ==
    /\ bookCall[c].op = "recordUse"
    /\ Listed(bookCall[c].id)
    /\ book' = Stamped(book, {bookCall[c].id})
    /\ BookDone(c)
    /\ UNCHANGED <<defaults, staleBook, unset>>

(* The row is gone when the write comes: the request fails.                *)
WriteMissesRow(c) ==
    /\ bookCall[c].op \in {"update", "delete", "recordUse"}
    /\ ~Listed(bookCall[c].id)
    /\ BookDone(c)
    /\ UNCHANGED <<book, defaults, staleBook, unset>>

BookNext == \E c \in BookCalls :
    \/ \E id \in AddressIds, isDefault \in BOOLEAN :
         CreateCount(c, id, isDefault) \/ UpdateRead(c, id, isDefault)
    \/ \E id \in AddressIds : DeleteRead(c, id) \/ RecordUseRead(c, id)
    \/ CreateWrite(c) \/ UpdateWrite(c) \/ DeleteWrite(c)
    \/ RecordUseWrite(c) \/ WriteMissesRow(c)

----------------------------------------------------------------------------
(* Requests may overlap at will: a book that is not empty has exactly one  *)
(* default address, which order-create picks for the customer, unless the  *)
(* customer's own form took it away (update, line 47) or a create or a     *)
(* delete acted on a book that had changed since it looked (lines 22, 56). *)
OneDefaultAddress ==
    staleBook \/ unset \/ book = <<>> \/ Cardinality(defaults) = 1
============================================================================
