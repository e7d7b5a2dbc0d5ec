--------------------------- MODULE ConfigWorkspace ---------------------------
(***************************************************************************)
(* ConfigWorkspaces.tsx: two operators edit one category of the            *)
(* configuration, each on a page of their own.  A page loads the live      *)
(* content, the shared draft and the version; it saves the draft, or saves *)
(* and publishes it, under the version it loaded.                          *)
(*                                                                         *)
(* Content is the set of changes it holds: what a page loads, the operator *)
(* adds to.  At the server getConfig, saveDraft and publish are taken apart*)
(* into their reads and writes, as in ConfigCenter, and other requests run  *)
(* between them, at every await.                                           *)
(*                                                                         *)
(* The field overtaken is history, which no guard reads: a publication was *)
(* committed between the reads of the getConfig, or between the check and  *)
(* the write of the saveDraft, that the content comes from.                *)
(***************************************************************************)
EXTENDS Naturals, FiniteSets

CONSTANTS
    Pages,          \* operators' pages of one category
    MaxChanges,     \* bound: changes operators make, numbered as they come
    Calls,          \* slots for calls in flight
    NoPage          \* of a call whose page was left

VARIABLES
    live,           \* content of the live rows
    version,        \* currentVersion of the category
    stored,         \* the config_drafts row, or NoDraft
    made,           \* number of changes made so far
    page,           \* [Pages -> what the page holds]
    call            \* [Calls -> call in flight]

workspaceVars == <<live, version, stored, made, page, call>>
serverConfig  == <<live, version, stored>>

NoDraft == [base |-> 0, payload |-> {}, overtaken |-> FALSE]

(* envelope, payload, loading and saving; version 0 before the first load.  *)
NewPage == [version |-> 0, live |-> {}, payload |-> {}, loading |-> FALSE,
            saving |-> FALSE, overtaken |-> FALSE]

NoConfigCall == [op |-> "none", pc |-> "none", page |-> NoPage, base |-> 0,
                 content |-> {}, draft |-> NoDraft, overtaken |-> FALSE]

AtServer == {"live", "draft", "version", "check", "write", "read", "base",
             "commit"}

WorkspaceTypeOK ==
    /\ made \in 0..MaxChanges /\ live \subseteq 1..made
    /\ version \in Nat \ {0}
    /\ stored.base \in 0..version /\ stored.payload \subseteq 1..made
    /\ \A p \in Pages :
         /\ page[p].version \in 0..version
         /\ page[p].live \cup page[p].payload \subseteq 1..made
    /\ \A c \in Calls :
         /\ call[c].op \in {"none", "load", "save", "publish"}
         /\ call[c].pc \in AtServer \cup {"none", "ok", "failed"}
         /\ call[c].page \in Pages \cup {NoPage}

WorkspaceInit ==
    /\ live = {} /\ version = 1 /\ stored = NoDraft
    /\ made = 0
    /\ page = [p \in Pages |-> NewPage]
    /\ call = [c \in Calls |-> NoConfigCall]

----------------------------------------------------------------------------
(* Slips: forms a careless change could give.  No action uses them.         *)
SavableOnAnyVersion(base) == TRUE
----------------------------------------------------------------------------
(* The page.                                                                *)

FreeSlot(c) == call[c].op = "none"
Visible(p) == page[p].version > 0 /\ ~page[p].loading
Dirty(p) == page[p].payload # page[p].live

(* load *)
StartsLoad(c, p) ==
    call' = [call EXCEPT ![c] = [NoConfigCall EXCEPT !.op = "load",
                                   !.pc = "live", !.page = p]]

(* A view is opened afresh whenever the operator comes back to it; what the *)
(* page that was left has asked for goes on and reaches nobody.             *)
Open(c, p) ==
    /\ FreeSlot(c)
    /\ page' = [page EXCEPT ![p] = [NewPage EXCEPT !.loading = TRUE]]
    /\ call' = [d \in Calls |->
         IF d = c THEN [NoConfigCall EXCEPT !.op = "load", !.pc = "live",
                                            !.page = p]
         ELSE IF call[d].page = p THEN [call[d] EXCEPT !.page = NoPage]
         ELSE call[d]]
    /\ UNCHANGED <<serverConfig, made>>

(* updateRule, updateRoute, addCity, update, ...                            *)
Edit(p) ==
    /\ Visible(p) /\ made < MaxChanges
    /\ made' = made + 1
    /\ page' = [page EXCEPT ![p].payload = @ \cup {made + 1}]
    /\ UNCHANGED <<serverConfig, call>>

Sends(c, op, p) ==
    /\ FreeSlot(c) /\ Visible(p) /\ ~page[p].saving /\ Dirty(p)
    /\ call' = [call EXCEPT ![c] =
         [NoConfigCall EXCEPT !.op = op, !.pc = "check", !.page = p,
            !.base = page[p].version, !.content = page[p].payload,
            !.overtaken = page[p].overtaken]]

save(c, p) ==
    /\ Sends(c, "save", p)
    /\ page' = [page EXCEPT ![p].saving = TRUE]
    /\ UNCHANGED <<serverConfig, made>>

(* publish does not mark the page as saving: it can be edited, saved and    *)
(* published again meanwhile.                                               *)
publish(c, p) ==
    /\ Sends(c, "publish", p)
    /\ UNCHANGED <<serverConfig, made, page>>

----------------------------------------------------------------------------
(* The server.                                                              *)

(* The call goes on, with what it has read or with nothing but its name.    *)
Goes(c, pc)   == call' = [call EXCEPT ![c].pc = pc]
Settled(k, pc) == [NoConfigCall EXCEPT !.op = k.op, !.pc = pc, !.page = k.page]
Settles(c, pc) == call' = [call EXCEPT ![c] = Settled(@, pc)]
Fails(c)      == Settles(c, "failed")

(* getConfig: livePayload, then the draft, then the version.                *)
GetConfigLive(c) ==
    /\ call[c].pc = "live"
    /\ call' = [call EXCEPT ![c].content = live, ![c].pc = "draft"]
    /\ UNCHANGED <<serverConfig, made, page>>

GetConfigDraft(c) ==
    /\ call[c].pc = "draft"
    /\ call' = [call EXCEPT ![c].draft = stored, ![c].pc = "version"]
    /\ UNCHANGED <<serverConfig, made, page>>

GetConfigVersion(c) ==
    /\ call[c].pc = "version"
    /\ call' = [call EXCEPT ![c].base = version, ![c].pc = "ok"]
    /\ UNCHANGED <<serverConfig, made, page>>

Savable(base) == base = version

SaveDraftCheck(c) ==
    /\ call[c].pc = "check"
    /\ IF Savable(call[c].base) THEN Goes(c, "write") ELSE Fails(c)
    /\ UNCHANGED <<serverConfig, made, page>>

(* When it publishes, the page has its answer and sends the second request. *)
SaveWrite(c) ==
    /\ call[c].pc = "write"
    /\ stored' = [base |-> call[c].base, payload |-> call[c].content,
                  overtaken |-> call[c].overtaken]
    /\ Settles(c, IF call[c].op = "publish" THEN "read" ELSE "ok")
    /\ UNCHANGED <<live, version, made, page>>

PublishTakes(c) ==
    /\ call[c].pc = "read"
    /\ IF stored = NoDraft THEN Fails(c)
       ELSE call' = [call EXCEPT ![c].draft = stored, ![c].pc = "base"]
    /\ UNCHANGED <<serverConfig, made, page>>

PublishCompares(c) ==
    /\ call[c].pc = "base"
    /\ IF call[c].draft.base = version THEN Goes(c, "commit") ELSE Fails(c)
    /\ UNCHANGED <<serverConfig, made, page>>

(* A publication overtakes the requests whose await it falls into.          *)
Overtakes(c) ==
    call' = [d \in Calls |->
      IF d = c THEN Settled(call[c], "ok")
      ELSE IF call[d].pc \in {"draft", "version", "write"}
      THEN [call[d] EXCEPT !.overtaken = TRUE]
      ELSE call[d]]

(* The revision's number must be free and the draft still there.            *)
PublishCommits(c) ==
    /\ call[c].pc = "commit"
    /\ IF version = call[c].draft.base /\ stored # NoDraft
       THEN /\ live' = call[c].draft.payload
            /\ version' = version + 1
            /\ stored' = NoDraft
            /\ Overtakes(c)
       ELSE Fails(c) /\ UNCHANGED serverConfig
    /\ UNCHANGED <<made, page>>

(* The process dies or the connection is lost, at whatever step.            *)
CallLost(c) ==
    /\ call[c].pc \in AtServer \cup {"ok"}
    /\ Fails(c)
    /\ UNCHANGED <<serverConfig, made, page>>

----------------------------------------------------------------------------
(* The answers at the page.                                                 *)

Ends(c) == call' = [call EXCEPT ![c] = NoConfigCall]

(* What is shown is the draft, where there is one.                          *)
GetConfigEnds(c) ==
    /\ call[c].op = "load" /\ call[c].pc \in {"ok", "failed"}
    /\ IF call[c].page = NoPage THEN UNCHANGED page
       ELSE IF call[c].pc = "failed"
       THEN page' = [page EXCEPT ![call[c].page].loading = FALSE]
       ELSE page' = [page EXCEPT ![call[c].page] =
              [@ EXCEPT !.loading = FALSE, !.version = call[c].base,
                 !.live = call[c].content,
                 !.payload = IF call[c].draft = NoDraft THEN call[c].content
                             ELSE call[c].draft.payload,
                 !.overtaken = call[c].overtaken \/ call[c].draft.overtaken]]
    /\ Ends(c)
    /\ UNCHANGED <<serverConfig, made>>

(* A call that succeeded loads the page again; one that failed leaves it.   *)
CallEnds(c) ==
    /\ call[c].op \in {"save", "publish"} /\ call[c].pc \in {"ok", "failed"}
    /\ LET p == call[c].page IN
       IF p = NoPage THEN Ends(c) /\ UNCHANGED page
       ELSE /\ page' = [page EXCEPT
                 ![p].saving = @ /\ call[c].op # "save",
                 ![p].loading = @ \/ call[c].pc = "ok"]
            /\ IF call[c].pc = "ok" THEN StartsLoad(c, p) ELSE Ends(c)
    /\ UNCHANGED <<serverConfig, made>>

WorkspaceNext ==
    \/ \E p \in Pages, c \in Calls : Open(c, p) \/ save(c, p) \/ publish(c, p)
    \/ \E p \in Pages : Edit(p)
    \/ \E c \in Calls :
         \/ GetConfigLive(c) \/ GetConfigDraft(c) \/ GetConfigVersion(c)
         \/ SaveDraftCheck(c) \/ SaveWrite(c)
         \/ PublishTakes(c) \/ PublishCompares(c) \/ PublishCommits(c)
         \/ CallLost(c) \/ GetConfigEnds(c) \/ CallEnds(c)

----------------------------------------------------------------------------
WorkspaceSpec == WorkspaceInit /\ [][WorkspaceNext]_workspaceVars

(* No lost update: whatever two operators load, save and publish, in       *)
(* whatever order, no publication takes back a change that another one     *)
(* has put live: that is what baseVersion of saveDraft and publish is for  *)
(* (lines 186-201).  The code does not give it.                            *)
PublishedChangesStay == [][live \subseteq live']_workspaceVars

(* What baseVersion does give, with requests that overlap in any way: a    *)
(* publication takes a live change back only with content that another     *)
(* publication overtook on its way, between the reads of getConfig (lines  *)
(* 181-183) or between the check and the write of saveDraft (187-190).     *)
OnlyOvertakenWorkTakesBack ==
    [][\/ live \subseteq live'
       \/ \E c \in Calls : call[c].pc = "commit" /\ call'[c].pc = "ok"
                           /\ call[c].draft.overtaken]_workspaceVars
=============================================================================
