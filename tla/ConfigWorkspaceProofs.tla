----------------------- MODULE ConfigWorkspaceProofs -----------------------
(***************************************************************************)
(* What baseVersion gives the operators who edit one category, for any     *)
(* number of pages, changes and calls in flight, interleaved at every      *)
(* await of the server.                                                    *)
(***************************************************************************)
EXTENDS ConfigWorkspace, TLAPS

----------------------------------------------------------------------------
Content == SUBSET Nat
Draft == [base : Nat, payload : Content, overtaken : BOOLEAN]
Page  == [version : Nat, live : Content, payload : Content,
          loading : BOOLEAN, saving : BOOLEAN, overtaken : BOOLEAN]
Call  == [op : {"none", "load", "save", "publish"},
          pc : AtServer \cup {"none", "ok", "failed"},
          page : Pages \cup {NoPage}, base : Nat,
          content : Content, draft : Draft, overtaken : BOOLEAN]

WorkspaceTyped ==
    /\ live \in Content
    /\ version \in Nat \ {0}
    /\ made \in Nat
    /\ stored \in Draft
    /\ page \in [Pages -> Page]
    /\ call \in [Calls -> Call]

(* Content taken under the current version holds whatever is live.          *)
Covers(base, content) ==
    base <= version /\ (base = version => live \subseteq content)

Sound(d) == d.overtaken \/ Covers(d.base, d.payload)

(* The draft is one of the current version, or it came too late.            *)
Current(d) == d = NoDraft \/ d.overtaken \/ live \subseteq d.payload

(* What a call has read, by its step, when no publication overtook it.      *)
Reads(k) ==
    /\ k.pc \in {"check", "write", "read", "base", "commit"} => k.op # "load"
    /\ k.pc \in {"base", "commit"} => Sound(k.draft)
    /\ k.pc = "check" => k.overtaken \/ Covers(k.base, k.content)
    /\ k.pc = "write" =>
         k.overtaken \/ (k.base = version /\ live \subseteq k.content)
    /\ k.pc \in {"draft", "version"} => k.overtaken \/ k.content = live
    /\ k.pc = "version" => k.overtaken \/ Current(k.draft)
    /\ k.op = "load" /\ k.pc = "ok" =>
         \/ k.overtaken
         \/ /\ Covers(k.base, k.content)
            /\ \/ k.draft = NoDraft
               \/ k.draft.overtaken
               \/ Covers(k.base, k.draft.payload)

PageSound(g) == g.overtaken \/ Covers(g.version, g.payload)

(* Whatever the draft, a page or a call holds of the current version covers *)
(* what is live, unless a publication overtook it on its way.               *)
WorkspaceIInv ==
    /\ WorkspaceTyped
    /\ Current(stored)
    /\ stored = NoDraft \/ stored.overtaken \/ stored.base = version
    /\ \A p \in Pages : PageSound(page[p])
    /\ \A c \in Calls : Reads(call[c])

----------------------------------------------------------------------------
(* A step of one call that leaves the server's rows alone.                  *)
LEMMA CallMoves ==
    ASSUME WorkspaceIInv, NEW c \in Calls, NEW k \in Call,
           call' = [call EXCEPT ![c] = k],
           UNCHANGED <<live, version, stored>>,
           made' \in Nat, page' \in [Pages -> Page],
           \A p \in Pages : PageSound(page'[p]),
           Reads(k)
    PROVE  WorkspaceIInv'
  <1>1. /\ call' \in [Calls -> Call] /\ call'[c] = k
        /\ \A d \in Calls \ {c} : call'[d] = call[d]
    BY DEF WorkspaceIInv, WorkspaceTyped
  <1>2. WorkspaceTyped'
    BY <1>1 DEF WorkspaceIInv, WorkspaceTyped
  <1>3. (Current(stored) /\ (stored = NoDraft \/ stored.overtaken
                                \/ stored.base = version))'
    BY DEF WorkspaceIInv, Current
  <1>4. \A p \in Pages : PageSound(page[p])'
    BY DEF PageSound, Covers
  <1>5. \A d \in Calls : Reads(call'[d])
    BY <1>1 DEF WorkspaceIInv
  <1>6. \A d \in Calls : Reads(call[d])'
    BY <1>5 DEF Reads, Sound, Current, Covers
  <1> QED BY <1>2, <1>3, <1>4, <1>6 DEF WorkspaceIInv

LEMMA FailsIsQuiet ==
    ASSUME WorkspaceIInv, NEW c \in Calls, Fails(c),
           UNCHANGED <<live, version, stored, made, page>>
    PROVE  WorkspaceIInv'
  <1>1. /\ Settled(call[c], "failed") \in Call
        /\ Reads(Settled(call[c], "failed"))
    BY DEF WorkspaceIInv, WorkspaceTyped, Call, NoConfigCall, NoDraft, Draft,
           Content, Settled, AtServer, Reads
  <1>2. call' = [call EXCEPT ![c] = Settled(call[c], "failed")]
    BY DEF Fails, Settles, WorkspaceIInv, WorkspaceTyped
  <1> QED BY <1>1, <1>2, CallMoves DEF WorkspaceIInv, WorkspaceTyped

(* A request that is sent anew, with what the page holds, if anything.      *)
LEMMA FreshCall ==
    ASSUME WorkspaceIInv, NEW q \in Pages
    PROVE  /\ [NoConfigCall EXCEPT !.op = "load", !.pc = "live", !.page = q]
                \in Call
           /\ NoConfigCall \in Call
           /\ \A op \in {"save", "publish"} :
                [NoConfigCall EXCEPT !.op = op, !.pc = "check", !.page = q,
                   !.base = page[q].version, !.content = page[q].payload,
                   !.overtaken = page[q].overtaken]
                \in Call
  <1>1. page[q] \in Page
    BY DEF WorkspaceIInv, WorkspaceTyped
  <1> QED BY <1>1 DEF Call, NoConfigCall, NoDraft, Draft, Page, AtServer,
                Content

LEMMA OpenKeeps ==
    ASSUME WorkspaceIInv, NEW c \in Calls, NEW p \in Pages, Open(c, p)
    PROVE  WorkspaceIInv'
  <1> DEFINE k == [NoConfigCall EXCEPT !.op = "load", !.pc = "live", !.page = p]
  <1>0. /\ UNCHANGED <<live, version, stored, made>>
        /\ page' = [page EXCEPT ![p] = [NewPage EXCEPT !.loading = TRUE]]
        /\ call' = [d \in Calls |->
             IF d = c THEN k
             ELSE IF call[d].page = p THEN [call[d] EXCEPT !.page = NoPage]
             ELSE call[d]]
    BY DEF Open, serverConfig
  <1>1. k \in Call /\ k.pc = "live"
    BY FreshCall DEF NoConfigCall
  <1>2. Reads(k)
    BY <1>1 DEF Reads
  <1> HIDE DEF k
  <1>3. \A d \in Calls :
          \/ call'[d] = k
          \/ /\ call'[d] \in Call
             /\ call'[d].pc = call[d].pc /\ call'[d].op = call[d].op
             /\ call'[d].base = call[d].base
             /\ call'[d].content = call[d].content
             /\ call'[d].draft = call[d].draft
             /\ call'[d].overtaken = call[d].overtaken
    <2>1. \A d \in Calls : call[d] \in Call
      BY DEF WorkspaceIInv, WorkspaceTyped
    <2> QED BY <1>0, <2>1 DEF Call
  <1>4. call' \in [Calls -> Call]
    BY <1>0, <1>1, <1>3
  <1>5. [NewPage EXCEPT !.loading = TRUE] \in Page
    BY DEF NewPage, Page, Content
  <1>6. page' \in [Pages -> Page]
    BY <1>0, <1>5 DEF WorkspaceIInv, WorkspaceTyped
  <1>7. WorkspaceTyped'
    BY <1>0, <1>4, <1>6 DEF WorkspaceIInv, WorkspaceTyped
  <1>8. \A q \in Pages : PageSound(page'[q])
    <2>1. \A q \in Pages : q # p => page'[q] = page[q]
      BY <1>0 DEF WorkspaceIInv, WorkspaceTyped
    <2>2. page'[p].version = 0
      BY <1>0 DEF NewPage, WorkspaceIInv, WorkspaceTyped
    <2> QED BY <2>1, <2>2 DEF PageSound, Covers, WorkspaceIInv, WorkspaceTyped
  <1>9. \A d \in Calls : Reads(call'[d])
    BY <1>2, <1>3 DEF Reads, WorkspaceIInv
  <1>10. /\ \A q \in Pages : PageSound(page[q])'
         /\ \A d \in Calls : Reads(call[d])'
    BY <1>0, <1>8, <1>9 DEF PageSound, Covers, Reads, Sound, Current
  <1> QED BY <1>0, <1>7, <1>10 DEF WorkspaceIInv, Current

LEMMA EditKeeps ==
    ASSUME WorkspaceIInv, NEW p \in Pages, Edit(p)
    PROVE  WorkspaceIInv'
  <1>1. /\ UNCHANGED <<live, version, stored, call>> /\ made' \in Nat
        /\ page' = [page EXCEPT ![p].payload = @ \cup {made + 1}]
        /\ made + 1 \in Nat
    BY DEF Edit, serverConfig, WorkspaceIInv, WorkspaceTyped
  <1>2. /\ page' \in [Pages -> Page]
        /\ \A q \in Pages : /\ page'[q].version = page[q].version
                            /\ page[q].payload \subseteq page'[q].payload
                            /\ page'[q].overtaken = page[q].overtaken
    <2>1. page \in [Pages -> Page]
      BY DEF WorkspaceIInv, WorkspaceTyped
    <2> QED BY <1>1, <2>1 DEF Page, Content
  <1>3. \A q \in Pages : PageSound(page[q])'
    BY <1>1, <1>2 DEF WorkspaceIInv, PageSound, Covers
  <1> QED BY <1>1, <1>2, <1>3
          DEF WorkspaceIInv, WorkspaceTyped, Reads, Sound, Current, Covers

LEMMA SendsKeep ==
    ASSUME WorkspaceIInv, NEW c \in Calls, NEW p \in Pages,
           save(c, p) \/ publish(c, p)
    PROVE  WorkspaceIInv'
  <1>0. PICK op \in {"save", "publish"} :
          call' = [call EXCEPT ![c] =
                     [NoConfigCall EXCEPT !.op = op, !.pc = "check", !.page = p,
                        !.base = page[p].version, !.content = page[p].payload,
                        !.overtaken = page[p].overtaken]]
    BY DEF save, publish, Sends
  <1> DEFINE k == [NoConfigCall EXCEPT !.op = op, !.pc = "check", !.page = p,
                     !.base = page[p].version, !.content = page[p].payload,
                     !.overtaken = page[p].overtaken]
  <1>1. k \in Call
    BY FreshCall
  <1>2. /\ k.pc = "check" /\ k.op # "load" /\ k.base = page[p].version
        /\ k.content = page[p].payload /\ k.overtaken = page[p].overtaken
    BY DEF NoConfigCall
  <1>3. Reads(k)
    BY <1>2 DEF Reads, WorkspaceIInv, PageSound
  <1>4. /\ page' \in [Pages -> Page]
        /\ \A q \in Pages : /\ page'[q].version = page[q].version
                            /\ page'[q].payload = page[q].payload
                            /\ page'[q].overtaken = page[q].overtaken
    <2>1. CASE save(c, p)
      BY <2>1 DEF save, WorkspaceIInv, WorkspaceTyped, Page
    <2>2. CASE publish(c, p)
      BY <2>2 DEF publish, WorkspaceIInv, WorkspaceTyped
    <2> QED BY <2>1, <2>2
  <1>5. UNCHANGED <<live, version, stored, made>>
    BY DEF save, publish, serverConfig
  <1>6. call' = [call EXCEPT ![c] = k]
    BY <1>0
  <1>7. \A q \in Pages : PageSound(page'[q])
    BY <1>4 DEF PageSound, WorkspaceIInv
  <1> HIDE DEF k
  <1> QED BY <1>1, <1>3, <1>4, <1>5, <1>6, <1>7, CallMoves
          DEF WorkspaceIInv, WorkspaceTyped

----------------------------------------------------------------------------
(* The server's steps.                                                      *)
LEMMA GetConfigKeeps ==
    ASSUME WorkspaceIInv, NEW c \in Calls,
           GetConfigLive(c) \/ GetConfigDraft(c) \/ GetConfigVersion(c)
    PROVE  WorkspaceIInv'
  <1>1. /\ call[c] \in Call /\ Reads(call[c]) /\ Current(stored)
        /\ live \in Content /\ version \in Nat /\ stored \in Draft
    BY DEF WorkspaceIInv, WorkspaceTyped
  <1>2. UNCHANGED <<live, version, stored, made, page>>
    BY DEF GetConfigLive, GetConfigDraft, GetConfigVersion, serverConfig
  <1>3. CASE GetConfigLive(c)
    <2> DEFINE k == [call[c] EXCEPT !.content = live, !.pc = "draft"]
    <2>1. k \in Call /\ call' = [call EXCEPT ![c] = k]
      BY <1>1, <1>3 DEF GetConfigLive, Call, AtServer, WorkspaceIInv,
                        WorkspaceTyped
    <2>2. Reads(k)
      BY <1>1 DEF Reads, Call
    <2> HIDE DEF k
    <2> QED BY <1>2, <2>1, <2>2, CallMoves DEF WorkspaceIInv, WorkspaceTyped
  <1>4. CASE GetConfigDraft(c)
    <2> DEFINE k == [call[c] EXCEPT !.draft = stored, !.pc = "version"]
    <2>1. k \in Call /\ call' = [call EXCEPT ![c] = k]
      BY <1>1, <1>4 DEF GetConfigDraft, Call, AtServer, WorkspaceIInv,
                        WorkspaceTyped
    <2>2. Reads(k)
      BY <1>1, <1>4 DEF Reads, Call, GetConfigDraft
    <2> HIDE DEF k
    <2> QED BY <1>2, <2>1, <2>2, CallMoves DEF WorkspaceIInv, WorkspaceTyped
  <1>5. CASE GetConfigVersion(c)
    <2> DEFINE k == [call[c] EXCEPT !.base = version, !.pc = "ok"]
    <2>1. k \in Call /\ call' = [call EXCEPT ![c] = k]
      BY <1>1, <1>5 DEF GetConfigVersion, Call, AtServer, WorkspaceIInv,
                        WorkspaceTyped
    <2>2. Reads(k)
      BY <1>1, <1>5 DEF Reads, Call, GetConfigVersion, Covers, Current
    <2> HIDE DEF k
    <2> QED BY <1>2, <2>1, <2>2, CallMoves DEF WorkspaceIInv, WorkspaceTyped
  <1> QED BY <1>3, <1>4, <1>5

LEMMA SaveDraftCheckKeeps ==
    ASSUME WorkspaceIInv, NEW c \in Calls, SaveDraftCheck(c)
    PROVE  WorkspaceIInv'
  <1>1. /\ UNCHANGED <<live, version, stored, made, page>>
        /\ call[c].op # "load" /\ call[c] \in Call
        /\ call[c].overtaken \/ Covers(call[c].base, call[c].content)
    BY DEF SaveDraftCheck, serverConfig, WorkspaceIInv, WorkspaceTyped, Reads
  <1>2. CASE Savable(call[c].base)
    <2> DEFINE k == [call[c] EXCEPT !.pc = "write"]
    <2>1. k \in Call /\ call' = [call EXCEPT ![c] = k]
      BY <1>1, <1>2 DEF SaveDraftCheck, Goes, Call, AtServer, WorkspaceIInv,
                        WorkspaceTyped
    <2>2. Reads(k)
      BY <1>1, <1>2 DEF Reads, Call, Savable, Covers
    <2> HIDE DEF k
    <2> QED BY <1>1, <2>1, <2>2, CallMoves DEF WorkspaceIInv, WorkspaceTyped
  <1>3. CASE ~Savable(call[c].base)
    BY <1>1, <1>3, FailsIsQuiet DEF SaveDraftCheck
  <1> QED BY <1>2, <1>3

(* The draft that is written is of the current version, or overtaken.       *)
LEMMA SaveWriteKeeps ==
    ASSUME WorkspaceIInv, NEW c \in Calls, SaveWrite(c)
    PROVE  WorkspaceIInv'
  <1>0. PICK pc \in {"ok", "read"} : Settles(c, pc)
    BY DEF SaveWrite
  <1> DEFINE k == Settled(call[c], pc)
  <1>1. /\ call[c] \in Call /\ call[c].op # "load" /\ call[c].pc = "write"
        /\ call[c].overtaken
             \/ (call[c].base = version /\ live \subseteq call[c].content)
        /\ stored' = [base |-> call[c].base, payload |-> call[c].content,
                      overtaken |-> call[c].overtaken]
        /\ UNCHANGED <<live, version, made, page>>
        /\ call' = [call EXCEPT ![c] = k]
    BY <1>0 DEF SaveWrite, Settles, WorkspaceIInv, WorkspaceTyped, Reads
  <1>2. k \in Call /\ k.pc \in {"read", "ok"} /\ k.op # "load"
    BY <1>1 DEF Settled, NoConfigCall, NoDraft, Draft, Content, Call, AtServer
  <1> HIDE DEF k
  <1>3. /\ call' \in [Calls -> Call] /\ call'[c] = k
        /\ \A d \in Calls \ {c} : call'[d] = call[d]
    BY <1>1, <1>2 DEF WorkspaceIInv, WorkspaceTyped
  <1>4. /\ stored' \in Draft /\ stored'.overtaken = call[c].overtaken
        /\ stored'.base = call[c].base /\ stored'.payload = call[c].content
    BY <1>1 DEF Call, Draft
  <1>5. WorkspaceTyped'
    BY <1>1, <1>3, <1>4 DEF WorkspaceIInv, WorkspaceTyped
  <1>6. \A d \in Calls : Reads(call'[d])
    BY <1>2, <1>3 DEF Reads, WorkspaceIInv
  <1>7. \A d \in Calls : Reads(call[d])'
    BY <1>1, <1>6 DEF Reads, Sound, Current, Covers
  <1>8. \A p \in Pages : PageSound(page[p])'
    BY <1>1 DEF WorkspaceIInv, PageSound, Covers
  <1>9. /\ Current(stored)'
        /\ (stored.overtaken \/ stored.base = version)'
    BY <1>1, <1>4 DEF Current
  <1> QED BY <1>5, <1>7, <1>8, <1>9 DEF WorkspaceIInv

LEMMA PublishTakesKeeps ==
    ASSUME WorkspaceIInv, NEW c \in Calls, PublishTakes(c)
    PROVE  WorkspaceIInv'
  <1>1. /\ call[c] \in Call /\ call[c].op # "load" /\ stored \in Draft
        /\ UNCHANGED <<live, version, stored, made, page>>
        /\ version \in Nat
    BY DEF PublishTakes, serverConfig, WorkspaceIInv, WorkspaceTyped, Reads
  <1>2. CASE stored = NoDraft
    BY <1>1, <1>2, FailsIsQuiet DEF PublishTakes
  <1>3. CASE stored # NoDraft
    <2> DEFINE k == [call[c] EXCEPT !.draft = stored, !.pc = "base"]
    <2>1. k \in Call /\ k.pc = "base" /\ k.draft = stored /\ k.op # "load"
      BY <1>1 DEF Call, AtServer
    <2>2. call' = [call EXCEPT ![c] = k]
      BY <1>1, <1>3 DEF PublishTakes
    <2>3. Sound(stored)
      BY <1>1, <1>3 DEF Sound, Current, Covers, WorkspaceIInv
    <2>4. Reads(k)
      BY <2>1, <2>3 DEF Reads
    <2> HIDE DEF k
    <2> QED BY <1>1, <2>1, <2>2, <2>4, CallMoves
            DEF WorkspaceIInv, WorkspaceTyped
  <1> QED BY <1>2, <1>3

LEMMA PublishComparesKeeps ==
    ASSUME WorkspaceIInv, NEW c \in Calls, PublishCompares(c)
    PROVE  WorkspaceIInv'
  <1>1. /\ call[c] \in Call /\ call[c].op # "load" /\ Sound(call[c].draft)
        /\ UNCHANGED <<live, version, stored, made, page>>
    BY DEF PublishCompares, serverConfig, WorkspaceIInv, WorkspaceTyped, Reads
  <1>2. CASE call[c].draft.base = version
    <2> DEFINE k == [call[c] EXCEPT !.pc = "commit"]
    <2>1. /\ k \in Call /\ k.pc = "commit" /\ k.draft = call[c].draft
          /\ k.op # "load"
      BY <1>1 DEF Call, AtServer
    <2>2. call' = [call EXCEPT ![c] = k]
      BY <1>1, <1>2 DEF PublishCompares, Goes
    <2>3. Reads(k)
      BY <1>1, <2>1 DEF Reads
    <2> HIDE DEF k
    <2> QED BY <1>1, <2>1, <2>2, <2>3, CallMoves
            DEF WorkspaceIInv, WorkspaceTyped
  <1>3. CASE call[c].draft.base # version
    BY <1>1, <1>3, FailsIsQuiet DEF PublishCompares
  <1> QED BY <1>2, <1>3

(* What goes live holds what was live, unless it was overtaken; whoever has *)
(* read the version before has read one that is past, or is overtaken now.  *)
TakesBackOvertaken ==
    \E c \in Calls : call[c].pc = "commit" /\ call'[c].pc = "ok"
                       /\ call[c].draft.overtaken

LEMMA PublishCommitsKeeps ==
    ASSUME WorkspaceIInv, NEW c \in Calls, PublishCommits(c)
    PROVE  WorkspaceIInv' /\ (live \subseteq live' \/ TakesBackOvertaken)
  <1>1. /\ call[c] \in Call /\ call[c].op # "load" /\ call[c].pc = "commit"
        /\ Sound(call[c].draft) /\ version \in Nat
        /\ UNCHANGED <<made, page>>
        /\ call \in [Calls -> Call]
    BY DEF PublishCommits, WorkspaceIInv, WorkspaceTyped, Reads
  <1>2. CASE ~(version = call[c].draft.base /\ stored # NoDraft)
    BY <1>1, <1>2, FailsIsQuiet DEF PublishCommits, serverConfig
  <1>3. CASE version = call[c].draft.base /\ stored # NoDraft
    <2> DEFINE k == Settled(call[c], "ok")
    <2>1. /\ live' = call[c].draft.payload /\ version' = version + 1
          /\ stored' = NoDraft /\ Overtakes(c)
      BY <1>1, <1>3 DEF PublishCommits
    <2>2. k \in Call /\ k.pc = "ok" /\ k.op # "load"
      BY <1>1 DEF Settled, NoConfigCall, NoDraft, Draft, Content, Call, AtServer
    <2>3. \A d \in Calls :
            call'[d] = IF d = c THEN k
                       ELSE IF call[d].pc \in {"draft", "version", "write"}
                       THEN [call[d] EXCEPT !.overtaken = TRUE]
                       ELSE call[d]
      BY <2>1 DEF Overtakes
    <2> HIDE DEF k
    <2>4. call' \in [Calls -> Call]
      <3>1. call' = [d \in Calls |-> call'[d]]
        BY <2>1 DEF Overtakes
      <3>2. ASSUME NEW d \in Calls PROVE call'[d] \in Call
        <4>1. /\ call[d] \in Call
              /\ [call[d] EXCEPT !.overtaken = TRUE] \in Call
          BY <1>1 DEF Call
        <4> QED BY <2>2, <2>3, <4>1
      <3> QED BY <3>1, <3>2
    <2>5. live' \in Content /\ NoDraft \in Draft
      BY <1>1, <2>1 DEF Call, Draft, NoDraft, Content
    <2>6. WorkspaceTyped'
      BY <1>1, <2>1, <2>4, <2>5 DEF WorkspaceIInv, WorkspaceTyped
    <2>7. \A b \in Nat : \A x : Covers(b, x) => Covers(b, x)'
      BY <1>1, <2>1 DEF Covers
    <2>8. \A d \in Calls : Reads(call[d])'
      <3>1. Reads(call[c])'
        BY <2>2, <2>3 DEF Reads
      <3>2. ASSUME NEW d \in Calls \ {c} PROVE Reads(call[d])'
        <4>1. /\ Reads(call[d]) /\ call[d] \in Call
              /\ call[d].base \in Nat /\ call[d].draft.base \in Nat
          BY <1>1 DEF WorkspaceIInv, Call, Draft
        <4>2. CASE call[d].pc \in {"draft", "version", "write"}
          <5>1. /\ call'[d].overtaken /\ call'[d].pc = call[d].pc
                /\ call'[d].op = call[d].op
            BY <2>3, <4>1, <4>2 DEF Call
          <5> QED BY <4>1, <4>2, <5>1 DEF Reads
        <4>3. CASE call[d].pc \notin {"draft", "version", "write"}
          <5>1. call'[d] = call[d]
            BY <2>3, <4>3
          <5> QED BY <2>7, <4>1, <4>3, <5>1 DEF Reads, Sound
        <4> QED BY <4>2, <4>3
      <3> QED BY <3>1, <3>2
    <2>9. \A p \in Pages : PageSound(page[p])'
      <3>1. \A p \in Pages : page[p].version \in Nat
        BY DEF WorkspaceIInv, WorkspaceTyped, Page
      <3> QED BY <1>1, <2>7, <3>1 DEF WorkspaceIInv, PageSound
    <2>10. WorkspaceIInv'
      BY <2>1, <2>6, <2>8, <2>9 DEF WorkspaceIInv, Current
    <2>11. CASE call[c].draft.overtaken
      BY <1>1, <2>2, <2>3, <2>10, <2>11 DEF TakesBackOvertaken
    <2>12. CASE ~call[c].draft.overtaken
      BY <1>1, <1>3, <2>1, <2>10, <2>12 DEF Sound, Covers
    <2> QED BY <2>11, <2>12
  <1> QED BY <1>2, <1>3

----------------------------------------------------------------------------
(* The answers at the page.                                                 *)
LEMMA IdleCall ==
    ASSUME WorkspaceIInv
    PROVE  NoConfigCall \in Call /\ Reads(NoConfigCall)
  BY DEF NoConfigCall, NoDraft, Call, Draft, Content, Reads

(* What a page shows after a load covers what is live, if it is current.    *)
LEMMA GetConfigEndsKeeps ==
    ASSUME WorkspaceIInv, NEW c \in Calls, GetConfigEnds(c)
    PROVE  WorkspaceIInv'
  <1>1. /\ call[c] \in Call /\ Reads(call[c]) /\ call[c].op = "load"
        /\ page \in [Pages -> Page]
        /\ UNCHANGED <<live, version, stored, made>> /\ made \in Nat
        /\ call' = [call EXCEPT ![c] = NoConfigCall]
        /\ \A p \in Pages : PageSound(page[p])
    BY DEF GetConfigEnds, Ends, serverConfig, WorkspaceIInv, WorkspaceTyped
  <1>2. /\ page' \in [Pages -> Page]
        /\ \A p \in Pages : PageSound(page'[p])
    <2>1. CASE call[c].page = NoPage
      BY <1>1, <2>1 DEF GetConfigEnds
    <2>2. CASE call[c].page # NoPage /\ call[c].pc = "failed"
      <3>1. page' = [page EXCEPT ![call[c].page].loading = FALSE]
        BY <2>2 DEF GetConfigEnds
      <3>2. /\ page' \in [Pages -> Page]
            /\ \A p \in Pages : /\ page'[p].version = page[p].version
                                /\ page'[p].payload = page[p].payload
                                /\ page'[p].overtaken = page[p].overtaken
        BY <1>1, <3>1 DEF Page
      <3> QED BY <1>1, <3>2 DEF PageSound
    <2>3. CASE call[c].page # NoPage /\ call[c].pc # "failed"
      <3>1. PICK p \in Pages : p = call[c].page
        BY <1>1, <2>3 DEF Call
      <3> DEFINE shown == IF call[c].draft = NoDraft THEN call[c].content
                          ELSE call[c].draft.payload
                 late  == call[c].overtaken \/ call[c].draft.overtaken
                 new == [page[p] EXCEPT !.loading = FALSE,
                           !.version = call[c].base, !.live = call[c].content,
                           !.payload = shown, !.overtaken = late]
      <3>2. page' = [page EXCEPT ![p] = new]
        BY <1>1, <2>3, <3>1 DEF GetConfigEnds
      <3>3. call[c].pc = "ok"
        BY <2>3 DEF GetConfigEnds
      <3>4. late \/ Covers(call[c].base, shown)
        BY <1>1, <3>3 DEF Reads
      <3>5. shown \in Content /\ late \in BOOLEAN
        BY <1>1 DEF Call, Draft
      <3> HIDE DEF shown, late
      <3>6. /\ new \in Page /\ new.version = call[c].base
            /\ new.payload = shown /\ new.overtaken = late
        BY <1>1, <3>5 DEF Page, Call
      <3> HIDE DEF new
      <3> QED BY <1>1, <3>2, <3>4, <3>6 DEF PageSound
    <2> QED BY <2>1, <2>2, <2>3
  <1> QED BY <1>1, <1>2, IdleCall, CallMoves

LEMMA CallEndsKeeps ==
    ASSUME WorkspaceIInv, NEW c \in Calls, CallEnds(c)
    PROVE  WorkspaceIInv'
  <1>1. /\ call[c] \in Call /\ page \in [Pages -> Page]
        /\ UNCHANGED <<live, version, stored, made>> /\ made \in Nat
        /\ \A p \in Pages : PageSound(page[p])
    BY DEF CallEnds, serverConfig, WorkspaceIInv, WorkspaceTyped
  <1>2. CASE call[c].page = NoPage
    <2>1. call' = [call EXCEPT ![c] = NoConfigCall] /\ UNCHANGED page
      BY <1>2 DEF CallEnds, Ends
    <2> QED BY <1>1, <2>1, IdleCall, CallMoves
  <1>3. CASE call[c].page # NoPage
    <2>1. PICK p \in Pages : p = call[c].page
      BY <1>1, <1>3 DEF Call
    <2>2. /\ page' = [page EXCEPT
                 ![p].saving = @ /\ call[c].op # "save",
                 ![p].loading = @ \/ call[c].pc = "ok"]
          /\ IF call[c].pc = "ok" THEN StartsLoad(c, p) ELSE Ends(c)
      BY <1>3, <2>1 DEF CallEnds
    <2>3. /\ page' \in [Pages -> Page]
          /\ \A q \in Pages : /\ page'[q].version = page[q].version
                              /\ page'[q].payload = page[q].payload
                              /\ page'[q].overtaken = page[q].overtaken
      BY <1>1, <2>2 DEF Page
    <2>4. \A q \in Pages : PageSound(page'[q])
      BY <1>1, <2>3 DEF PageSound
    <2>5. CASE call[c].pc = "ok"
      <3> DEFINE k == [NoConfigCall EXCEPT !.op = "load", !.pc = "live",
                                           !.page = p]
      <3>1. k \in Call /\ k.pc = "live" /\ call' = [call EXCEPT ![c] = k]
        BY <2>2, <2>5, FreshCall DEF NoConfigCall, StartsLoad
      <3>2. Reads(k)
        BY <3>1 DEF Reads
      <3> HIDE DEF k
      <3> QED BY <1>1, <2>3, <2>4, <3>1, <3>2, CallMoves
    <2>6. CASE call[c].pc # "ok"
      BY <1>1, <2>2, <2>3, <2>4, <2>6, IdleCall, CallMoves DEF Ends
    <2> QED BY <2>5, <2>6
  <1> QED BY <1>2, <1>3

----------------------------------------------------------------------------
LEMMA WorkspaceInitEstablishes == WorkspaceInit => WorkspaceIInv
  <1> SUFFICES ASSUME WorkspaceInit PROVE WorkspaceIInv
    OBVIOUS
  <1>1. NewPage \in Page /\ NewPage.version = 0
    BY DEF NewPage, Page, Content
  <1>2. NoDraft \in Draft
    BY DEF NoDraft, Draft, Content
  <1>3. NoConfigCall \in Call /\ NoConfigCall.pc = "none"
    BY DEF NoConfigCall, NoDraft, Call, Draft, Content
  <1>4. WorkspaceTyped
    BY <1>1, <1>2, <1>3 DEF WorkspaceInit, WorkspaceTyped, Content
  <1>5. \A c \in Calls : Reads(call[c])
    BY <1>3 DEF WorkspaceInit, Reads
  <1>6. \A p \in Pages : PageSound(page[p])
    BY <1>1 DEF WorkspaceInit, PageSound, Covers
  <1> QED BY <1>4, <1>5, <1>6 DEF WorkspaceInit, WorkspaceIInv, Current

LEMMA WorkspaceStepKeeps ==
    ASSUME WorkspaceIInv, [WorkspaceNext]_workspaceVars
    PROVE  WorkspaceIInv' /\ (live \subseteq live' \/ TakesBackOvertaken)
  <1> DEFINE Goal == WorkspaceIInv' /\ (live \subseteq live' \/ TakesBackOvertaken)
  <1>1. CASE UNCHANGED workspaceVars
    BY <1>1 DEF workspaceVars, WorkspaceIInv, WorkspaceTyped, PageSound, Covers,
                Reads, Sound, Current
  <1>2. ASSUME NEW p \in Pages, NEW c \in Calls,
               Open(c, p) \/ save(c, p) \/ publish(c, p)
        PROVE  Goal
    BY <1>2, OpenKeeps, SendsKeep DEF Open, save, publish, serverConfig
  <1>3. ASSUME NEW p \in Pages, Edit(p)
        PROVE  Goal
    BY <1>3, EditKeeps DEF Edit, serverConfig
  <1>4. ASSUME NEW c \in Calls,
               \/ GetConfigLive(c) \/ GetConfigDraft(c) \/ GetConfigVersion(c)
        PROVE  Goal
    BY <1>4, GetConfigKeeps
       DEF GetConfigLive, GetConfigDraft, GetConfigVersion, serverConfig
  <1>5. ASSUME NEW c \in Calls, SaveDraftCheck(c) PROVE Goal
    BY <1>5, SaveDraftCheckKeeps DEF SaveDraftCheck, serverConfig
  <1>6. ASSUME NEW c \in Calls, SaveWrite(c) PROVE Goal
    BY <1>6, SaveWriteKeeps DEF SaveWrite
  <1>7. ASSUME NEW c \in Calls, PublishTakes(c) PROVE Goal
    BY <1>7, PublishTakesKeeps DEF PublishTakes, serverConfig
  <1>8. ASSUME NEW c \in Calls, PublishCompares(c) PROVE Goal
    BY <1>8, PublishComparesKeeps DEF PublishCompares, serverConfig
  <1>9. ASSUME NEW c \in Calls, PublishCommits(c) PROVE Goal
    BY <1>9, PublishCommitsKeeps
  <1>10. ASSUME NEW c \in Calls, CallLost(c) PROVE Goal
    BY <1>10, FailsIsQuiet DEF CallLost, serverConfig
  <1>11. ASSUME NEW c \in Calls, GetConfigEnds(c) \/ CallEnds(c) PROVE Goal
    BY <1>11, GetConfigEndsKeeps, CallEndsKeeps
       DEF GetConfigEnds, CallEnds, serverConfig
  <1> QED BY <1>1, <1>2, <1>3, <1>4, <1>5, <1>6, <1>7, <1>8, <1>9, <1>10, <1>11
          DEF WorkspaceNext

(* However many operators load, edit, save and publish, whichever calls are *)
(* lost, and wherever the requests overlap: a publication takes a live      *)
(* change back only with content that another publication overtook between  *)
(* the reads of getConfig (config-center.service.ts:181-183) or between the *)
(* check and the write of saveDraft (187-190).                              *)
THEOREM NoLostPublication == WorkspaceSpec => OnlyOvertakenWorkTakesBack
  <1>1. WorkspaceInit => WorkspaceIInv
    BY WorkspaceInitEstablishes
  <1>2. WorkspaceIInv /\ [WorkspaceNext]_workspaceVars => WorkspaceIInv'
    BY WorkspaceStepKeeps
  <1>3. WorkspaceIInv /\ [WorkspaceNext]_workspaceVars
          => [\/ live \subseteq live'
              \/ \E c \in Calls : call[c].pc = "commit" /\ call'[c].pc = "ok"
                                  /\ call[c].draft.overtaken]_workspaceVars
    BY WorkspaceStepKeeps DEF TakesBackOvertaken
  <1> QED BY <1>1, <1>2, <1>3, PTL DEF WorkspaceSpec, OnlyOvertakenWorkTakesBack
=============================================================================
