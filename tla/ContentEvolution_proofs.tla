----------------------- MODULE ContentEvolution_proofs -----------------------
(* What holds of ContentEvolution for any number of workspaces, packs, campaigns *)
(* and proposals: what is published stays as it is and resolves, statuses are    *)
(* about the drafts there are, activations were compatible, bindings replay.     *)
EXTENDS ContentEvolution, SequenceTheorems, TLAPS

\* StatusHonest with what a status promises: one that is not open has valid drafts.
Honest ==
    \A w \in Workspaces : workspaces[w] # Nothing =>
        /\ workspaces[w].report # Nothing => (workspaces[w].report = TRUE <=> Valid(workspaces[w].drafts))
        /\ workspaces[w].status # "open" => workspaces[w].report = TRUE

\* What campaigns and proposals name is published, and no report is out of date.
BoundPublished ==
    \A c \in Campaigns : bindings[c] # Nothing => Published(bindings[c].pack, bindings[c].version)
ProposalsSound ==
    \A p \in Proposals : proposals[p] # Nothing =>
        /\ Published(proposals[p].pack, proposals[p].from)
        /\ Published(proposals[p].pack, proposals[p].to)
        /\ proposals[p].compatible = TRUE =>
              Removes(proposals[p].pack, proposals[p].from, proposals[p].to) = {}
Activations == {n \in DOMAIN log : log[n].type = "CampaignContentRevisionActivated"}
ActivationsSound ==
    \A n \in Activations : /\ Published(log[n].pack, log[n].from)
                           /\ Published(log[n].pack, log[n].version)
                           /\ Removes(log[n].pack, log[n].from, log[n].version) = {}

\* BindingReplays, with the last event that binds the campaign named by what it is.
IsLast(c, n) == n \in BindingEvents(c) /\ \A m \in BindingEvents(c) : m <= n
BindingOf(n) == [pack |-> log[n].pack, version |-> log[n].version, hash |-> log[n].hash,
                 sequence |-> n]
BoundByLast(c) == IF BindingEvents(c) = {} THEN bindings[c] = Nothing
                  ELSE \E n \in BindingEvents(c) : IsLast(c, n) /\ bindings[c] = BindingOf(n)

IInv == /\ TypeOK /\ Honest /\ PacksResolve
        /\ BoundPublished /\ ProposalsSound /\ ActivationsSound
        /\ \A c \in Campaigns : BoundByLast(c)

PacksStay == \A id \in DOMAIN packs : packs[id] # Nothing => packs'[id] = packs[id]

-----------------------------------------------------------------------------
(* Authoring *)

\* Publishing touches nothing published, so what campaigns rely on stays true.
LEMMA AuthoringKeeps ==
    ASSUME IInv, PacksStay, UNCHANGED revising,
           packs' \in [Namespaces \X Versions -> (SUBSET Definitions) \cup {Nothing}]
    PROVE  /\ BoundPublished' /\ ProposalsSound' /\ ActivationsSound'
           /\ \A c \in Campaigns : BoundByLast(c)'
<1>1. /\ bindings' = bindings /\ proposals' = proposals /\ checkpoints' = checkpoints
      /\ log' = log /\ cut' = cut
  BY DEF revising
<1>2. ASSUME NEW pack \in Namespaces, NEW v \in Versions, Published(pack, v)
      PROVE  packs'[<<pack, v>>] = packs[<<pack, v>>]
  BY <1>2 DEF PacksStay, Published, IInv, TypeOK
<1>3. ASSUME NEW pack \in Namespaces, NEW from \in Versions, NEW to \in Versions,
             Published(pack, from), Published(pack, to)
      PROVE  /\ Published(pack, from)' /\ Published(pack, to)'
             /\ Removes(pack, from, to)' = Removes(pack, from, to)
  BY <1>2, <1>3 DEF Published, Removes, PackKeys
<1>4. BoundPublished'
  <2>. SUFFICES ASSUME NEW c \in Campaigns, bindings[c] # Nothing
                PROVE  Published(bindings[c].pack, bindings[c].version)'
    BY <1>1 DEF BoundPublished, Published
  <2>1. bindings[c] \in BindingStates
    BY DEF IInv, TypeOK
  <2>2. bindings[c].pack \in Namespaces /\ bindings[c].version \in Versions
    BY <2>1 DEF BindingStates
  <2>. QED  BY <1>1, <1>2, <2>2 DEF IInv, BoundPublished, Published
<1>5. ProposalsSound'
  <2>. SUFFICES ASSUME NEW p \in Proposals, proposals[p] # Nothing
                PROVE  /\ Published(proposals[p].pack, proposals[p].from)'
                       /\ Published(proposals[p].pack, proposals[p].to)'
                       /\ proposals[p].compatible = TRUE =>
                             Removes(proposals[p].pack, proposals[p].from, proposals[p].to)' = {}
    BY <1>1 DEF ProposalsSound
  <2>1. proposals[p] \in ProposalStates
    BY DEF IInv, TypeOK
  <2>2. /\ proposals[p].pack \in Namespaces /\ proposals[p].from \in Versions
        /\ proposals[p].to \in Versions
    BY <2>1 DEF ProposalStates
  <2>. QED  BY <1>1, <1>3, <2>2 DEF IInv, ProposalsSound
<1>6. ActivationsSound'
  <2>. SUFFICES ASSUME NEW n \in Activations
                PROVE  /\ Published(log[n].pack, log[n].from)'
                       /\ Published(log[n].pack, log[n].version)'
                       /\ Removes(log[n].pack, log[n].from, log[n].version)' = {}
    BY <1>1 DEF ActivationsSound, Activations
  <2>1. log[n] \in Events /\ log[n].type = "CampaignContentRevisionActivated"
    BY ElementOfSeq DEF IInv, TypeOK, Activations
  <2>2. /\ log[n].pack \in Namespaces /\ log[n].from \in Versions
        /\ log[n].version \in Versions
    BY <2>1 DEF Events
  <2>. QED  BY <1>1, <1>3, <2>2 DEF IInv, ActivationsSound
<1>7. ASSUME NEW c \in Campaigns PROVE BoundByLast(c)'
  BY <1>1 DEF IInv, BoundByLast, BindingEvents, IsLast, BindingOf
<1>. QED  BY <1>4, <1>5, <1>6, <1>7

\* What Valid promises of the pack made from the drafts.
LEMMA ValidResolves ==
    ASSUME NEW drafts, Valid(drafts)
    PROVE  /\ \A d, e \in Content(drafts) : d.key = e.key => d = e
           /\ \A d \in Content(drafts) : d.ref \in KeysOf(Content(drafts)) \cup {Nothing}
BY DEF Valid, Content, Written

\* The four commands of a workspace, on the parts of the invariant about workspaces
\* and packs.
LEMMA AuthoringSteps ==
    ASSUME IInv, NEW w \in Workspaces, NEW who \in Principals,
           \/ \E ns \in Namespaces : CreateAuthoringWorkspace(w, ns, who)
           \/ \E i \in Drafts, d \in Definitions : UpsertDraftDefinition(w, who, i, d)
           \/ ValidateAuthoringWorkspace(w, who)
           \/ \E v \in Versions : PublishAuthoringWorkspace(w, who, v)
    PROVE  /\ workspaces' \in [Workspaces -> WorkspaceStates \cup {Nothing}]
           /\ packs' \in [Namespaces \X Versions -> (SUBSET Definitions) \cup {Nothing}]
           /\ Honest' /\ PacksResolve' /\ PacksStay /\ UNCHANGED revising
<1>. /\ workspaces \in [Workspaces -> WorkspaceStates \cup {Nothing}]
     /\ packs \in [Namespaces \X Versions -> (SUBSET Definitions) \cup {Nothing}]
     /\ Honest /\ PacksResolve
  BY DEF IInv, TypeOK
<1>1. ASSUME Owned(w, who)
      PROVE  /\ workspaces[w] \in WorkspaceStates /\ workspaces[w].namespace \in Namespaces
             /\ workspaces[w].drafts \in [Drafts -> Definitions \cup {Nothing}]
  BY <1>1 DEF Owned, WorkspaceStates
<1>2. ASSUME NEW state \in WorkspaceStates, workspaces' = [workspaces EXCEPT ![w] = state],
             state.report # Nothing => (state.report = TRUE <=> Valid(state.drafts)),
             state.status # "open" => state.report = TRUE
      PROVE  workspaces' \in [Workspaces -> WorkspaceStates \cup {Nothing}] /\ Honest'
  <2>1. workspaces' \in [Workspaces -> WorkspaceStates \cup {Nothing}]
    BY <1>2
  <2>2. workspaces'[w] = state /\ \A u \in Workspaces \ {w} : workspaces'[u] = workspaces[u]
    BY <1>2
  <2>3. ASSUME NEW drafts PROVE Valid(drafts)' <=> Valid(drafts)
    BY DEF Valid, Written, Content, KeysOf
  <2>. QED  BY <1>2, <2>1, <2>2 DEF Honest
<1>3. ASSUME packs' = packs PROVE PacksResolve' /\ PacksStay
  BY <1>3 DEF PacksResolve, PacksStay
<1>4. ASSUME NEW ns \in Namespaces, CreateAuthoringWorkspace(w, ns, who)
      PROVE  Honest' /\ workspaces' \in [Workspaces -> WorkspaceStates \cup {Nothing}]
  <2>. DEFINE state == [namespace |-> ns, owner |-> who, status |-> "open", report |-> Nothing,
                        drafts |-> [i \in Drafts |-> Nothing]]
  <2>1. state \in WorkspaceStates /\ state.report = Nothing /\ state.status = "open"
    BY DEF WorkspaceStates
  <2>. HIDE DEF state
  <2>2. workspaces' = [workspaces EXCEPT ![w] = state]
    BY <1>4 DEF CreateAuthoringWorkspace, state
  <2>. QED  BY <1>2, <2>1, <2>2
<1>5. ASSUME NEW i \in Drafts, NEW d \in Definitions, UpsertDraftDefinition(w, who, i, d)
      PROVE  Honest' /\ workspaces' \in [Workspaces -> WorkspaceStates \cup {Nothing}]
  <2>. DEFINE state == [workspaces[w] EXCEPT !.drafts[i] = d, !.status = "open", !.report = Nothing]
  <2>1. Owned(w, who)
    BY <1>5 DEF UpsertDraftDefinition
  <2>2. state \in WorkspaceStates /\ state.report = Nothing /\ state.status = "open"
    BY <1>1, <2>1 DEF WorkspaceStates
  <2>3. workspaces' = [workspaces EXCEPT ![w] = state]
    BY <1>5 DEF UpsertDraftDefinition
  <2>. HIDE DEF state
  <2>. QED  BY <1>2, <2>2, <2>3
<1>. DEFINE valid == Valid(workspaces[w].drafts)
<1>6. valid \in BOOLEAN
  BY DEF Valid
<1>7. ASSUME ValidateAuthoringWorkspace(w, who)
      PROVE  Honest' /\ workspaces' \in [Workspaces -> WorkspaceStates \cup {Nothing}]
  <2>. DEFINE state == [workspaces[w] EXCEPT !.report = valid,
                                             !.status = IF valid THEN "valid" ELSE "open"]
  <2>1. Owned(w, who) /\ workspaces' = [workspaces EXCEPT ![w] = state]
    BY <1>7 DEF ValidateAuthoringWorkspace
  <2>2. /\ state \in WorkspaceStates /\ state.report = valid /\ state.drafts = workspaces[w].drafts
        /\ state.status # "open" => valid
    <3>. HIDE DEF valid
    <3>. QED  BY <1>1, <1>6, <2>1 DEF WorkspaceStates
  <2>3. state.report = TRUE <=> Valid(state.drafts)
    BY <2>2
  <2>4. state.status # "open" => state.report = TRUE
    BY <2>2, <2>3
  <2>. HIDE DEF state
  <2>. QED  BY <1>2, <2>1, <2>2, <2>3, <2>4
<1>8. ASSUME NEW v \in Versions, PublishAuthoringWorkspace(w, who, v)
      PROVE  /\ Honest' /\ workspaces' \in [Workspaces -> WorkspaceStates \cup {Nothing}]
             /\ packs' \in [Namespaces \X Versions -> (SUBSET Definitions) \cup {Nothing}]
             /\ PacksResolve' /\ PacksStay
  <2>. DEFINE id == <<workspaces[w].namespace, v>>
              made == Content(workspaces[w].drafts)
  <2>1. /\ Owned(w, who) /\ workspaces[w] \in WorkspaceStates
        /\ id \in Namespaces \X Versions /\ made \in SUBSET Definitions
    BY <1>1, <1>8 DEF PublishAuthoringWorkspace, Content, Written
  <2>2. CASE valid /\ Unpublished(id)
    <3>. DEFINE state == [workspaces[w] EXCEPT !.report = TRUE, !.status = "published"]
    <3>1. workspaces' = [workspaces EXCEPT ![w] = state] /\ packs' = [packs EXCEPT ![id] = made]
      BY <1>8, <2>2 DEF PublishAuthoringWorkspace
    <3>2. state \in WorkspaceStates /\ state.report = TRUE /\ state.drafts = workspaces[w].drafts
      BY <2>1 DEF WorkspaceStates
    <3>3. Valid(state.drafts)
      BY <2>2, <3>2
    <3>4. Honest' /\ workspaces' \in [Workspaces -> WorkspaceStates \cup {Nothing}]
      <4>. HIDE DEF state
      <4>. QED  BY <1>2, <3>1, <3>2, <3>3
    <3>5. /\ \A d, e \in made : d.key = e.key => d = e
          /\ \A d \in made : d.ref \in KeysOf(made) \cup {Nothing}
      BY <2>2, ValidResolves
    <3>. HIDE DEF made
    <3>6. PacksStay /\ packs' \in [Namespaces \X Versions -> (SUBSET Definitions) \cup {Nothing}]
      BY <2>1, <2>2, <3>1 DEF PacksStay, Unpublished
    <3>7. PacksResolve'
      BY <2>1, <3>1, <3>5 DEF PacksResolve, KeysOf
    <3>. QED  BY <3>4, <3>6, <3>7
  <2>3. CASE ~(valid /\ Unpublished(id))
    <3>. DEFINE state == [workspaces[w] EXCEPT !.report = valid]
    <3>1. workspaces' = [workspaces EXCEPT ![w] = state] /\ packs' = packs
      BY <1>8, <2>3 DEF PublishAuthoringWorkspace
    <3>2. /\ state \in WorkspaceStates /\ state.report = valid
          /\ state.drafts = workspaces[w].drafts /\ state.status = workspaces[w].status
      <4>. HIDE DEF valid
      <4>. QED  BY <1>6, <2>1 DEF WorkspaceStates
    <3>3. state.report = TRUE <=> Valid(state.drafts)
      BY <3>2
    <3>4. workspaces[w].status # "open" => valid
      BY <2>1, NothingAssumption DEF Owned, Honest
    <3>5. state.status # "open" => state.report = TRUE
      BY <3>2, <3>3, <3>4
    <3>. HIDE DEF state
    <3>. QED  BY <1>2, <1>3, <3>1, <3>2, <3>3, <3>5
  <2>. QED  BY <2>2, <2>3
<1>9. UNCHANGED revising
  BY DEF CreateAuthoringWorkspace, UpsertDraftDefinition, ValidateAuthoringWorkspace,
         PublishAuthoringWorkspace
<1>10. (\A v \in Versions : ~PublishAuthoringWorkspace(w, who, v)) => packs' = packs
  BY DEF CreateAuthoringWorkspace, UpsertDraftDefinition, ValidateAuthoringWorkspace
<1>. QED  BY <1>3, <1>4, <1>5, <1>7, <1>8, <1>9, <1>10

-----------------------------------------------------------------------------
(* The campaign's commands *)

\* A step that appends new to the history, the first events of which may be cut.
Extends(new) == /\ log' = log \o new
                /\ cut' \subseteq cut \cup (Len(log) + 1)..Len(log') /\ cut \subseteq cut'

LEMMA HistoryGrows ==
    ASSUME IInv, NEW new \in Seq(Events), Len(log) + Len(new) <= MaxLog, Extends(new)
    PROVE  /\ log' \in Seq(Events) /\ Len(log') = Len(log) + Len(new) /\ Len(log') <= MaxLog
           /\ Len(log) \in Nat /\ DOMAIN log = 1..Len(log) /\ DOMAIN log' = 1..Len(log')
           /\ \A n \in DOMAIN log : log'[n] = log[n] /\ log[n] \in Events
           /\ \A n \in DOMAIN log' \ DOMAIN log : n - Len(log) \in 1..Len(new) /\ log'[n] = new[n - Len(log)]
           /\ cut' \subseteq DOMAIN log' /\ \A n \in DOMAIN log : n \in cut' <=> n \in cut
<1>1. log \in Seq(Events) /\ cut \subseteq DOMAIN log
  BY DEF IInv, TypeOK
<1>2. Len(new) \in Nat /\ Len(log) \in Nat /\ DOMAIN log = 1..Len(log)
  BY <1>1
<1>3. log' \in Seq(Events) /\ Len(log') = Len(log) + Len(new)
  BY <1>1 DEF Extends
<1>4. DOMAIN log' = 1..Len(log')
  BY <1>3
<1>5. \A n \in DOMAIN log : log'[n] = log[n] /\ log[n] \in Events
  BY <1>1, <1>2 DEF Extends
<1>6. \A n \in DOMAIN log' \ DOMAIN log : n - Len(log) \in 1..Len(new) /\ log'[n] = new[n - Len(log)]
  BY <1>1, <1>2, <1>3, <1>4 DEF Extends
<1>7. cut' \subseteq DOMAIN log' /\ \A n \in DOMAIN log : n \in cut' <=> n \in cut
  BY <1>1, <1>2, <1>3, <1>4 DEF Extends
<1>. QED  BY <1>2, <1>3, <1>4, <1>5, <1>6, <1>7

\* The history keeps its sound activations and takes sound ones only.
LEMMA ActivationsStaySound ==
    ASSUME IInv, NEW new \in Seq(Events), Len(log) + Len(new) <= MaxLog, Extends(new),
           packs' = packs,
           \A i \in 1..Len(new) : new[i].type = "CampaignContentRevisionActivated" =>
               /\ Published(new[i].pack, new[i].from) /\ Published(new[i].pack, new[i].version)
               /\ Removes(new[i].pack, new[i].from, new[i].version) = {}
    PROVE  ActivationsSound'
<1>1. SUFFICES ASSUME NEW n \in DOMAIN log', log'[n].type = "CampaignContentRevisionActivated"
               PROVE  /\ Published(log'[n].pack, log'[n].from)
                      /\ Published(log'[n].pack, log'[n].version)
                      /\ Removes(log'[n].pack, log'[n].from, log'[n].version) = {}
  BY DEF ActivationsSound, Activations, Published, Removes, PackKeys
<1>2. CASE n \in DOMAIN log
  BY <1>1, <1>2, HistoryGrows DEF IInv, ActivationsSound, Activations
<1>3. CASE n \notin DOMAIN log
  <2>1. n - Len(log) \in 1..Len(new) /\ log'[n] = new[n - Len(log)]
    BY <1>3, HistoryGrows
  <2>2. PICK i \in 1..Len(new) : log'[n] = new[i]
    BY <2>1
  <2>. QED  BY <1>1, <2>2
<1>. QED  BY <1>2, <1>3

\* A campaign's binding is as it was when nothing new binds it.
LEMMA NothingBinds ==
    ASSUME IInv, NEW new \in Seq(Events), Len(log) + Len(new) <= MaxLog, Extends(new),
           NEW c \in Campaigns, bindings'[c] = bindings[c],
           \A i \in 1..Len(new) : \/ Len(log) + i \in cut'
                                  \/ new[i].campaign # c
                                  \/ new[i].type = "CheckpointCreated"
    PROVE  BoundByLast(c)'
<1>. DEFINE old == BindingEvents(c)
            now == {n \in DOMAIN log' \ cut' : log'[n].campaign = c /\ log'[n].type # "CheckpointCreated"}
<1>1. now = old
  <2>1. ASSUME NEW n \in DOMAIN log PROVE n \in now <=> n \in old
    BY HistoryGrows DEF BindingEvents
  <2>2. ASSUME NEW n \in DOMAIN log' \ DOMAIN log PROVE n \notin now
    <3>1. /\ n - Len(log) \in 1..Len(new) /\ log'[n] = new[n - Len(log)]
          /\ Len(log) + (n - Len(log)) = n
      BY HistoryGrows
    <3>. QED  BY <3>1
  <2>3. old \subseteq DOMAIN log /\ now \subseteq DOMAIN log' /\ DOMAIN log \subseteq DOMAIN log'
    BY HistoryGrows DEF BindingEvents
  <2>. QED  BY <2>1, <2>2, <2>3
<1>2. BindingEvents(c)' = old
  BY <1>1 DEF BindingEvents
<1>3. ASSUME NEW n \in old PROVE IsLast(c, n)' <=> IsLast(c, n)
  BY <1>2 DEF IsLast
<1>4. ASSUME NEW n \in old PROVE BindingOf(n)' = BindingOf(n)
  BY HistoryGrows DEF BindingOf, BindingEvents
<1>5. BoundByLast(c)
  BY DEF IInv
<1>. HIDE DEF old, now
<1>. QED  BY <1>2, <1>3, <1>4, <1>5 DEF BoundByLast, old

\* The binding is what the newest event says, if that event binds the campaign.
LEMMA NewestBinds ==
    ASSUME IInv, NEW new \in Seq(Events), Len(log) + Len(new) <= MaxLog, Extends(new),
           NEW c \in Campaigns, Len(new) # 0, NEW n \in Nat, n = Len(log'), n \notin cut',
           log'[n].campaign = c, log'[n].type # "CheckpointCreated", bindings'[c] = BindingOf(n)'
    PROVE  BoundByLast(c)'
<1>. DEFINE now == {m \in DOMAIN log' \ cut' : log'[m].campaign = c /\ log'[m].type # "CheckpointCreated"}
<1>1. BindingEvents(c)' = now
  BY DEF BindingEvents
<1>2. n \in now /\ \A m \in now : m <= n
  BY HistoryGrows
<1>3. IsLast(c, n)'
  BY <1>1, <1>2 DEF IsLast
<1>. HIDE DEF now
<1>. QED  BY <1>1, <1>2, <1>3 DEF BoundByLast

\* What holds of workspaces and packs holds after a command that leaves them alone.
LEMMA AuthoringStays ==
    ASSUME IInv, UNCHANGED authoring
    PROVE  /\ Honest' /\ PacksResolve' /\ workspaces' = workspaces /\ packs' = packs
           /\ workspaces' \in [Workspaces -> WorkspaceStates \cup {Nothing}]
           /\ packs' \in [Namespaces \X Versions -> (SUBSET Definitions) \cup {Nothing}]
<1>1. workspaces' = workspaces /\ packs' = packs
  BY DEF authoring
<1>2. \A w \in Workspaces : Valid(workspaces[w].drafts)' <=> Valid(workspaces[w].drafts)
  BY <1>1 DEF Valid, Written, Content, KeysOf
<1>. QED  BY <1>1, <1>2 DEF IInv, TypeOK, Honest, PacksResolve, KeysOf

LEMMA BindKeeps ==
    ASSUME IInv, NEW c \in Campaigns, NEW pack \in Namespaces, NEW v \in Versions,
           BindCampaignContent(c, pack, v)
    PROVE  IInv'
<1>. DEFINE new == << BoundEvent(c, pack, v) >>
<1>. PICK n \in Nat : n = Len(log) + 1
  BY DEF IInv, TypeOK
<1>1. /\ Published(pack, v) /\ bindings[c] = Nothing /\ Len(log) < MaxLog
      /\ log' = Append(log, BoundEvent(c, pack, v))
      /\ \/ bindings' = [bindings EXCEPT ![c] = Binding(pack, v, n)] /\ cut' = cut
         \/ cut' = cut \cup {Len(log')} /\ bindings' = bindings
      /\ proposals' = proposals /\ checkpoints' = checkpoints /\ UNCHANGED authoring
  BY DEF BindCampaignContent, Stored, Raises
<1>2. packs[<<pack, v>>] \in SUBSET Definitions /\ n \in 1..MaxLog
  <2>1. <<pack, v>> \in Namespaces \X Versions /\ Len(log) \in Nat
    BY DEF IInv, TypeOK
  <2>2. packs[<<pack, v>>] \in SUBSET Definitions
    BY <1>1, <2>1 DEF Published, IInv, TypeOK
  <2>. QED  BY <1>1, <2>1, <2>2, ContentBounds
<1>3. /\ new \in Seq(Events) /\ Len(new) = 1 /\ new[1] = BoundEvent(c, pack, v)
      /\ \A i \in 1..Len(new) : i = 1
  BY <1>2 DEF BoundEvent, Events
<1>4. new[1].type = "CampaignContentBound" /\ new[1].campaign = c
  BY <1>3 DEF BoundEvent
<1>5. Extends(new) /\ Len(log) + Len(new) <= MaxLog
  <2>1. log \in Seq(Events) /\ Len(log) \in Nat
    BY DEF IInv, TypeOK
  <2>2. Len(log') = n /\ log' = log \o new
    BY <1>1, <2>1 DEF new
  <2>. HIDE DEF new
  <2>. QED  BY <1>1, <1>2, <1>3, <2>1, <2>2 DEF Extends
<1>. HIDE DEF new
<1>6. /\ log' \in Seq(Events) /\ Len(log') = Len(log) + Len(new) /\ Len(log') <= MaxLog
      /\ Len(log) \in Nat /\ DOMAIN log = 1..Len(log) /\ DOMAIN log' = 1..Len(log')
      /\ \A m \in DOMAIN log' \ DOMAIN log : log'[m] = new[m - Len(log)]
      /\ cut' \subseteq DOMAIN log' /\ cut \subseteq DOMAIN log
  BY <1>3, <1>5, HistoryGrows DEF IInv, TypeOK
<1>7. Len(log') = n /\ log'[n] = new[1] /\ n \in DOMAIN log' /\ n \notin cut
  BY <1>3, <1>6
<1>8. Honest' /\ PacksResolve' /\ packs' = packs /\ workspaces' = workspaces
  BY <1>1, AuthoringStays
<1>9. ActivationsSound'
  BY <1>3, <1>4, <1>5, <1>8, ActivationsStaySound
<1>10. TypeOK'
  <2>1. Binding(pack, v, n) \in BindingStates
    BY <1>2 DEF Binding, BindingStates
  <2>. QED  BY <1>1, <1>6, <1>8, <2>1 DEF IInv, TypeOK
<1>11. BoundPublished' /\ ProposalsSound'
  <2>1. Binding(pack, v, n).pack = pack /\ Binding(pack, v, n).version = v
    BY DEF Binding
  <2>. QED  BY <1>1, <1>8, <2>1
            DEF IInv, TypeOK, BoundPublished, ProposalsSound, Published, Removes, PackKeys
<1>12. ASSUME NEW d \in Campaigns PROVE BoundByLast(d)'
  <2>1. CASE d = c /\ bindings' = [bindings EXCEPT ![c] = Binding(pack, v, n)] /\ cut' = cut
    <3>1. bindings'[c] = Binding(pack, v, n)
      BY <2>1 DEF IInv, TypeOK
    <3>2. bindings'[c] = BindingOf(n)'
      BY <1>3, <1>7, <3>1 DEF Binding, BindingOf, BoundEvent
    <3>3. /\ log'[n].campaign = c /\ log'[n].type # "CheckpointCreated"
          /\ n \notin cut' /\ Len(new) # 0
      BY <1>3, <1>4, <1>7, <2>1
    <3>4. BoundByLast(c)'
      BY <1>3, <1>5, <1>7, <3>2, <3>3, NewestBinds
    <3>. QED  BY <2>1, <3>4
  <2>2. CASE d # c \/ (bindings' = bindings /\ cut' = cut \cup {Len(log')})
    <3>1. bindings'[d] = bindings[d]
      BY <1>1, <2>2 DEF IInv, TypeOK
    <3>2. new[1].campaign # d \/ Len(log) + 1 \in cut'
      BY <1>4, <1>7, <2>2
    <3>3. \A i \in 1..Len(new) : \/ Len(log) + i \in cut'
                                 \/ new[i].campaign # d
                                 \/ new[i].type = "CheckpointCreated"
      BY <1>3, <3>2
    <3>. QED  BY <1>3, <1>5, <3>1, <3>3, NothingBinds
  <2>. QED  BY <1>1, <2>1, <2>2
<1>. QED  BY <1>8, <1>9, <1>10, <1>11, <1>12 DEF IInv

\* A new proposal is judged by nothing yet; a dry run judges the versions it names.
LEMMA ProposalKeeps ==
    ASSUME IInv, NEW p \in Proposals, NEW state \in ProposalStates,
           proposals' = [proposals EXCEPT ![p] = state],
           UNCHANGED <<bindings, checkpoints, log, cut>>, UNCHANGED authoring,
           Published(state.pack, state.from), Published(state.pack, state.to),
           state.compatible = TRUE => Removes(state.pack, state.from, state.to) = {}
    PROVE  IInv'
<1>1. Honest' /\ PacksResolve' /\ packs' = packs /\ workspaces' = workspaces
  BY AuthoringStays
<1>2. TypeOK'
  BY <1>1 DEF IInv, TypeOK
<1>3. proposals'[p] = state /\ \A q \in Proposals \ {p} : proposals'[q] = proposals[q]
  BY DEF IInv, TypeOK
<1>4. ProposalsSound'
  BY <1>1, <1>3 DEF IInv, ProposalsSound, Published, Removes, PackKeys
<1>5. BoundPublished' /\ ActivationsSound'
  BY <1>1 DEF IInv, BoundPublished, ActivationsSound, Activations, Published, Removes, PackKeys
<1>6. \A c \in Campaigns : BoundByLast(c)'
  BY DEF IInv, BoundByLast, IsLast, BindingEvents, BindingOf
<1>. QED  BY <1>1, <1>2, <1>4, <1>5, <1>6 DEF IInv

LEMMA ProposeKeeps ==
    ASSUME IInv, NEW c \in Campaigns, NEW p \in Proposals, NEW v \in Versions,
           ProposeContentRevision(c, p, v)
    PROVE  IInv'
<1>. DEFINE state == [campaign |-> c, pack |-> bindings[c].pack, from |-> bindings[c].version,
                      to |-> v, status |-> "proposed", compatible |-> Nothing,
                      checkpoint |-> Nothing]
<1>1. bindings[c] \in BindingStates /\ Published(bindings[c].pack, v)
      /\ Published(bindings[c].pack, bindings[c].version)
  BY DEF ProposeContentRevision, MayPropose, IInv, TypeOK, BoundPublished
<1>2. state \in ProposalStates
  BY <1>1 DEF BindingStates, ProposalStates
<1>3. /\ Published(state.pack, state.from) /\ Published(state.pack, state.to)
      /\ state.compatible # TRUE
  BY <1>1, NothingAssumption
<1>4. proposals' = [proposals EXCEPT ![p] = state]
  BY DEF ProposeContentRevision
<1>5. UNCHANGED <<bindings, checkpoints, log, cut>> /\ UNCHANGED authoring
  BY DEF ProposeContentRevision
<1>. HIDE DEF state
<1>. QED  BY <1>2, <1>3, <1>4, <1>5, ProposalKeeps

LEMMA DryRunKeeps ==
    ASSUME IInv, NEW p \in Proposals, DryRunContentRevision(p)
    PROVE  IInv'
<1>. DEFINE compatible == Removes(proposals[p].pack, proposals[p].from, proposals[p].to) = {}
            state == [proposals[p] EXCEPT !.compatible = compatible,
                          !.status = IF compatible THEN "validated" ELSE "requires_branch"]
<1>1. proposals[p] \in ProposalStates /\ compatible \in BOOLEAN
  BY DEF DryRunContentRevision, IInv, TypeOK
<1>2. /\ state \in ProposalStates /\ state.compatible = compatible
      /\ state.pack = proposals[p].pack /\ state.from = proposals[p].from
      /\ state.to = proposals[p].to
  <2>. HIDE DEF compatible
  <2>. QED  BY <1>1 DEF ProposalStates
<1>3. /\ proposals' = [proposals EXCEPT ![p] = state]
      /\ UNCHANGED <<bindings, checkpoints, log, cut>> /\ UNCHANGED authoring
  BY DEF DryRunContentRevision
<1>4. Published(state.pack, state.from) /\ Published(state.pack, state.to)
  <2>. HIDE DEF compatible, state
  <2>. QED  BY <1>2 DEF IInv, ProposalsSound, DryRunContentRevision
<1>5. state.compatible = TRUE => Removes(state.pack, state.from, state.to) = {}
  <2>1. state.compatible = TRUE => compatible
    BY <1>2
  <2>2. compatible => Removes(state.pack, state.from, state.to) = {}
    <3>. HIDE DEF state
    <3>. QED  BY <1>2
  <2>. QED  BY <2>1, <2>2
<1>. HIDE DEF state
<1>. QED  BY <1>2, <1>3, <1>4, <1>5, ProposalKeeps

\* A checkpoint binds nothing, whether its append raises or not.
LEMMA CheckpointKeeps ==
    ASSUME IInv, NEW c \in Campaigns, NEW k \in Checkpoints,
           Stored(CheckpointEvent(c, k)), cut' = cut \/ cut' = cut \cup {Len(log')},
           \/ checkpoints' = checkpoints
           \/ checkpoints' = [checkpoints EXCEPT ![k] = [campaign |-> c, source |-> Len(log)]],
           UNCHANGED <<bindings, proposals>>, UNCHANGED authoring
    PROVE  IInv'
<1>. DEFINE new == << CheckpointEvent(c, k) >>
<1>1. /\ log \in Seq(Events) /\ Len(log) \in Nat /\ Len(log) < MaxLog
      /\ log' = Append(log, CheckpointEvent(c, k))
  BY DEF IInv, TypeOK, Stored
<1>2. /\ new \in Seq(Events) /\ Len(new) = 1 /\ \A i \in 1..Len(new) : i = 1
      /\ new[1].type = "CheckpointCreated"
  BY <1>1, ContentBounds DEF CheckpointEvent, Events
<1>3. Extends(new) /\ Len(log) + Len(new) <= MaxLog
  <2>1. Len(log') = Len(log) + 1 /\ log' = log \o new
    BY <1>1 DEF new
  <2>. HIDE DEF new
  <2>. QED  BY <1>1, <1>2, <2>1, ContentBounds DEF Extends
<1>. HIDE DEF new
<1>4. Honest' /\ PacksResolve' /\ packs' = packs /\ workspaces' = workspaces
  BY AuthoringStays
<1>5. ActivationsSound'
  BY <1>2, <1>3, <1>4, ActivationsStaySound
<1>6. log' \in Seq(Events) /\ Len(log') <= MaxLog /\ cut' \subseteq DOMAIN log'
  BY <1>2, <1>3, HistoryGrows
<1>7. TypeOK'
  <2>1. Len(log) \in 0..MaxLog
    BY <1>1, ContentBounds
  <2>2. checkpoints' \in [Checkpoints -> [campaign: Campaigns, source: 0..MaxLog] \cup {Nothing}]
    BY <2>1 DEF IInv, TypeOK
  <2>. QED  BY <1>4, <1>6, <2>2 DEF IInv, TypeOK
<1>8. BoundPublished' /\ ProposalsSound'
  BY <1>4 DEF IInv, BoundPublished, ProposalsSound, Published, Removes, PackKeys
<1>9. ASSUME NEW d \in Campaigns PROVE BoundByLast(d)'
  BY <1>2, <1>3, NothingBinds
<1>. QED  BY <1>4, <1>5, <1>7, <1>8, <1>9 DEF IInv

\* An activation's report was made for the packs it is made from.
LEMMA ActivateKeeps ==
    ASSUME IInv, NEW p \in Proposals, NEW k \in Checkpoints, ActivateContentRevision(p, k)
    PROVE  IInv'
<1>. DEFINE new == ActivationEvents(p, k)
            state == [proposals[p] EXCEPT !.status = "activated", !.checkpoint = k]
<1>. PICK c : c = proposals[p].campaign
  OBVIOUS
<1>. PICK n \in Nat : n = Len(log) + 2
  BY DEF IInv, TypeOK
<1>1. /\ proposals[p] \in ProposalStates /\ c \in Campaigns /\ proposals[p].pack \in Namespaces
      /\ proposals[p].from \in Versions /\ proposals[p].to \in Versions
      /\ proposals[p] # Nothing /\ proposals[p].compatible = TRUE
  BY DEF ActivateContentRevision, MayActivate, IInv, TypeOK, ProposalStates
<1>2. /\ Published(proposals[p].pack, proposals[p].from)
      /\ Published(proposals[p].pack, proposals[p].to)
      /\ Removes(proposals[p].pack, proposals[p].from, proposals[p].to) = {}
  BY <1>1 DEF IInv, ProposalsSound
<1>3. packs[<<proposals[p].pack, proposals[p].to>>] \in SUBSET Definitions
  <2>1. <<proposals[p].pack, proposals[p].to>> \in Namespaces \X Versions
    BY <1>1
  <2>. QED  BY <1>2, <2>1 DEF IInv, TypeOK, Published
<1>4. /\ log \in Seq(Events) /\ Len(log) \in 0..MaxLog /\ n \in 1..MaxLog
      /\ log' = log \o new
      /\ checkpoints' = [checkpoints EXCEPT ![k] = [campaign |-> c, source |-> Len(log)]]
      /\ UNCHANGED authoring
  BY ContentBounds DEF ActivateContentRevision, IInv, TypeOK
<1>5. \/ /\ bindings' = [bindings EXCEPT ![c] = Binding(proposals[p].pack, proposals[p].to, n)]
         /\ proposals' = [proposals EXCEPT ![p] = state]
         /\ cut' = cut
      \/ cut' = cut \cup {Len(log')} /\ bindings' = bindings /\ proposals' = proposals
  BY DEF ActivateContentRevision, Raises
<1>6. /\ new \in Seq(Events) /\ Len(new) = 2 /\ \A i \in 1..Len(new) : i = 1 \/ i = 2
      /\ new[1].type = "CheckpointCreated" /\ new[2] = ActivationEvent(p, k)
  <2>1. CheckpointEvent(c, k) \in Events /\ CheckpointEvent(c, k).type = "CheckpointCreated"
    BY <1>1, <1>4 DEF CheckpointEvent, Events
  <2>2. ActivationEvent(p, k) \in Events
    BY <1>1, <1>3 DEF ActivationEvent, Events
  <2>. QED  BY <2>1, <2>2 DEF ActivationEvents
<1>7. /\ new[2].campaign = c /\ new[2].type = "CampaignContentRevisionActivated"
      /\ new[2].pack = proposals[p].pack /\ new[2].from = proposals[p].from
      /\ new[2].version = proposals[p].to
      /\ new[2].hash = packs[<<proposals[p].pack, proposals[p].to>>]
  BY <1>6 DEF ActivationEvent
<1>. HIDE DEF new
<1>8. Extends(new) /\ Len(log) + Len(new) <= MaxLog /\ Len(log') = n
  <2>1. Len(log') = Len(log) + Len(new)
    <3>1. log \in Seq(Events) /\ new \in Seq(Events) /\ log' = log \o new
      BY <1>4, <1>6
    <3>. QED  BY <3>1
  <2>2. Len(log') = n
    BY <1>4, <1>6, <2>1
  <2>. QED  BY <1>4, <1>5, <1>6, <2>2 DEF Extends
<1>9. /\ log' \in Seq(Events) /\ Len(log') <= MaxLog /\ cut' \subseteq DOMAIN log'
      /\ log'[n] = new[2] /\ n \notin cut
  <2>1. /\ log' \in Seq(Events) /\ Len(log') <= MaxLog /\ cut' \subseteq DOMAIN log'
        /\ DOMAIN log = 1..Len(log) /\ DOMAIN log' = 1..Len(log')
        /\ \A m \in DOMAIN log' \ DOMAIN log : log'[m] = new[m - Len(log)]
        /\ cut \subseteq DOMAIN log
    BY <1>6, <1>8, HistoryGrows DEF IInv, TypeOK
  <2>2. n \in DOMAIN log' \ DOMAIN log /\ n - Len(log) = 2
    BY <1>4, <1>8, <2>1
  <2>. QED  BY <2>1, <2>2
<1>10. Honest' /\ PacksResolve' /\ packs' = packs /\ workspaces' = workspaces
  BY <1>4, AuthoringStays
<1>11. ActivationsSound'
  <2>1. \A i \in 1..Len(new) : new[i].type = "CampaignContentRevisionActivated" =>
            /\ Published(new[i].pack, new[i].from) /\ Published(new[i].pack, new[i].version)
            /\ Removes(new[i].pack, new[i].from, new[i].version) = {}
    BY <1>2, <1>6, <1>7
  <2>. QED  BY <1>6, <1>8, <1>10, <2>1, ActivationsStaySound
<1>12. /\ state \in ProposalStates /\ state.pack = proposals[p].pack
       /\ state.from = proposals[p].from /\ state.to = proposals[p].to
       /\ state.compatible = proposals[p].compatible
  BY <1>1 DEF ProposalStates
<1>. HIDE DEF state
<1>13. TypeOK'
  <2>1. Binding(proposals[p].pack, proposals[p].to, n) \in BindingStates
    BY <1>1, <1>3, <1>4 DEF Binding, BindingStates
  <2>2. bindings' \in [Campaigns -> BindingStates \cup {Nothing}]
    BY <1>5, <2>1 DEF IInv, TypeOK
  <2>3. proposals' \in [Proposals -> ProposalStates \cup {Nothing}]
    BY <1>5, <1>12 DEF IInv, TypeOK
  <2>4. checkpoints' \in [Checkpoints -> [campaign: Campaigns, source: 0..MaxLog] \cup {Nothing}]
    BY <1>1, <1>4 DEF IInv, TypeOK
  <2>. QED  BY <1>9, <1>10, <2>2, <2>3, <2>4 DEF IInv, TypeOK
<1>14. BoundPublished'
  <2>1. /\ Binding(proposals[p].pack, proposals[p].to, n).pack = proposals[p].pack
        /\ Binding(proposals[p].pack, proposals[p].to, n).version = proposals[p].to
    BY DEF Binding
  <2>. QED  BY <1>2, <1>5, <1>10, <2>1 DEF IInv, TypeOK, BoundPublished, Published
<1>15. ProposalsSound'
  BY <1>2, <1>5, <1>10, <1>12 DEF IInv, TypeOK, ProposalsSound, Published, Removes, PackKeys
<1>16. ASSUME NEW d \in Campaigns PROVE BoundByLast(d)'
  <2>1. CASE d = c /\ cut' = cut
    <3>1. bindings'[c] = Binding(proposals[p].pack, proposals[p].to, n)
      BY <1>4, <1>5, <1>8, <1>9, <2>1 DEF IInv, TypeOK
    <3>2. bindings'[c] = BindingOf(n)'
      BY <1>7, <1>9, <3>1 DEF Binding, BindingOf
    <3>3. /\ log'[n].campaign = c /\ log'[n].type # "CheckpointCreated"
          /\ n \notin cut' /\ Len(new) # 0
      BY <1>6, <1>7, <1>9, <2>1
    <3>4. BoundByLast(c)'
      BY <1>1, <1>6, <1>8, <3>2, <3>3, NewestBinds
    <3>. QED  BY <2>1, <3>4
  <2>2. CASE d # c \/ (bindings' = bindings /\ cut' = cut \cup {Len(log')})
    <3>1. bindings'[d] = bindings[d]
      BY <1>5, <2>2 DEF IInv, TypeOK
    <3>2. new[2].campaign # d \/ Len(log) + 2 \in cut'
      BY <1>7, <1>8, <2>2
    <3>3. \A i \in 1..Len(new) : \/ Len(log) + i \in cut'
                                 \/ new[i].campaign # d
                                 \/ new[i].type = "CheckpointCreated"
      BY <1>6, <3>2
    <3>. QED  BY <1>6, <1>8, <3>1, <3>3, NothingBinds
  <2>. QED  BY <1>5, <2>1, <2>2
<1>. QED  BY <1>10, <1>11, <1>13, <1>14, <1>15, <1>16 DEF IInv

-----------------------------------------------------------------------------
(* The invariant *)

LEMMA InitContent == Init => IInv
<1>. SUFFICES ASSUME Init PROVE IInv
  OBVIOUS
<1>1. TypeOK
  BY ContentBounds DEF Init, TypeOK
<1>2. Honest /\ PacksResolve /\ BoundPublished /\ ProposalsSound
  BY DEF Init, Honest, PacksResolve, BoundPublished, ProposalsSound
<1>3. DOMAIN log = {}
  BY DEF Init
<1>4. ActivationsSound /\ \A c \in Campaigns : BoundByLast(c)
  BY <1>3 DEF Init, ActivationsSound, Activations, BoundByLast, BindingEvents
<1>. QED  BY <1>1, <1>2, <1>4 DEF IInv

LEMMA NextContent == IInv /\ [Next]_vars => IInv'
<1>. SUFFICES ASSUME IInv, [Next]_vars PROVE IInv'
  OBVIOUS
<1>1. ASSUME NEW w \in Workspaces, NEW who \in Principals,
             \/ \E ns \in Namespaces : CreateAuthoringWorkspace(w, ns, who)
             \/ \E i \in Drafts, d \in Definitions : UpsertDraftDefinition(w, who, i, d)
             \/ ValidateAuthoringWorkspace(w, who)
             \/ \E v \in Versions : PublishAuthoringWorkspace(w, who, v)
      PROVE  IInv'
  <2>1. /\ workspaces' \in [Workspaces -> WorkspaceStates \cup {Nothing}]
        /\ packs' \in [Namespaces \X Versions -> (SUBSET Definitions) \cup {Nothing}]
        /\ Honest' /\ PacksResolve' /\ PacksStay /\ UNCHANGED revising
    BY <1>1, AuthoringSteps
  <2>2. TypeOK'
    BY <2>1 DEF IInv, TypeOK, revising
  <2>3. /\ BoundPublished' /\ ProposalsSound' /\ ActivationsSound'
        /\ \A c \in Campaigns : BoundByLast(c)'
    BY <2>1, AuthoringKeeps
  <2>. QED  BY <2>1, <2>2, <2>3 DEF IInv
<1>2. ASSUME NEW c \in Campaigns, NEW pack \in Namespaces, NEW v \in Versions,
             BindCampaignContent(c, pack, v)
      PROVE  IInv'
  BY <1>2, BindKeeps
<1>3. ASSUME NEW c \in Campaigns, NEW p \in Proposals, NEW v \in Versions,
             ProposeContentRevision(c, p, v)
      PROVE  IInv'
  BY <1>3, ProposeKeeps
<1>4. ASSUME NEW c \in Campaigns, NEW k \in Checkpoints, CreateCheckpoint(c, k)
      PROVE  IInv'
  BY <1>4, CheckpointKeeps DEF CreateCheckpoint, Raises
<1>5. ASSUME NEW p \in Proposals, DryRunContentRevision(p) PROVE IInv'
  BY <1>5, DryRunKeeps
<1>6. ASSUME NEW p \in Proposals, NEW k \in Checkpoints, ActivateContentRevision(p, k)
      PROVE  IInv'
  BY <1>6, ActivateKeeps
<1>7. ASSUME NEW p \in Proposals, NEW k \in Checkpoints, ActivateStopsAtCheckpoint(p, k)
      PROVE  IInv'
  <2>. PICK c \in Campaigns : c = proposals[p].campaign
    BY <1>7 DEF ActivateStopsAtCheckpoint, MayActivate, IInv, TypeOK, ProposalStates
  <2>1. /\ Stored(CheckpointEvent(c, k)) /\ cut' = cut \cup {Len(log')}
        /\ checkpoints' = checkpoints /\ UNCHANGED <<bindings, proposals>> /\ UNCHANGED authoring
    BY <1>7 DEF ActivateStopsAtCheckpoint, Raises
  <2>. QED  BY <2>1, CheckpointKeeps
<1>8. CASE UNCHANGED vars
  <2>1. UNCHANGED revising /\ UNCHANGED authoring /\ PacksStay
    BY <1>8 DEF vars, revising, authoring, PacksStay
  <2>2. TypeOK'
    BY <1>8 DEF vars, IInv, TypeOK
  <2>. QED  BY <2>1, <2>2, AuthoringStays, AuthoringKeeps DEF IInv
<1>. QED  BY <1>1, <1>2, <1>3, <1>4, <1>5, <1>6, <1>7, <1>8 DEF Next

\* What is published is sound and stays, reports are about what they were made for, and
\* a binding says what the last event said that bound the campaign: whatever is edited,
\* published, bound, proposed and activated in whatever order, with appends that raise.
THEOREM ContentInvariant == Spec => []IInv
BY InitContent, NextContent, PTL DEF Spec

-----------------------------------------------------------------------------
(* Theorems *)

\* Workspaces, packs, bindings, proposals, checkpoints and events are what they should be.
THEOREM TypeCorrect == Spec => []TypeOK
<1>1. IInv => TypeOK
  BY DEF IInv
<1>. QED  BY <1>1, ContentInvariant, PTL

\* No order of edits, validations and refused publications leaves a workspace with a
\* status or a report that its drafts do not have.
THEOREM StatusesAreHonest == Spec => []StatusHonest
<1>1. IInv => StatusHonest
  <2>. SUFFICES ASSUME IInv, NEW w \in Workspaces, workspaces[w] # Nothing
                PROVE  /\ workspaces[w].report # Nothing =>
                              workspaces[w].report = Valid(workspaces[w].drafts)
                       /\ workspaces[w].status # "open" => workspaces[w].report = TRUE
    BY DEF StatusHonest
  <2>1. workspaces[w].report \in BOOLEAN \cup {Nothing}
    BY DEF IInv, TypeOK, WorkspaceStates
  <2>2. Valid(workspaces[w].drafts) \in BOOLEAN
    BY DEF Valid
  <2>. QED  BY <2>1, <2>2 DEF IInv, Honest
<1>. QED  BY <1>1, ContentInvariant, PTL

\* Every reference of every published pack is to one definition of the pack.
THEOREM PublishedPacksResolve == Spec => []PacksResolve
<1>1. IInv => PacksResolve
  BY DEF IInv
<1>. QED  BY <1>1, ContentInvariant, PTL

\* The live binding is the one replay makes of the last event that binds the campaign,
\* over any number of revisions.
THEOREM BindingsReplay == Spec => []BindingReplays
<1>1. IInv => BindingReplays
  <2>. SUFFICES ASSUME IInv, NEW c \in Campaigns
                PROVE  IF BindingEvents(c) = {} THEN bindings[c] = Nothing
                       ELSE bindings[c] = BindingOf(CHOOSE n \in BindingEvents(c) :
                                                        \A m \in BindingEvents(c) : m <= n)
    BY DEF BindingReplays, BindingOf
  <2>1. CASE BindingEvents(c) = {}
    BY <2>1 DEF IInv, BoundByLast
  <2>2. CASE BindingEvents(c) # {}
    <3>1. PICK n \in BindingEvents(c) : IsLast(c, n) /\ bindings[c] = BindingOf(n)
      BY <2>2 DEF IInv, BoundByLast
    <3>2. \A m \in BindingEvents(c) : m \in Nat
      BY DEF BindingEvents, IInv, TypeOK
    <3>3. \A o \in BindingEvents(c) : (\A m \in BindingEvents(c) : m <= o) => o = n
      BY <3>1, <3>2 DEF IsLast
    <3>4. (CHOOSE o \in BindingEvents(c) : \A m \in BindingEvents(c) : m <= o) = n
      BY <3>1, <3>3, Zenon DEF IsLast
    <3>. QED  BY <2>2, <3>1, <3>4
  <2>. QED  BY <2>1, <2>2
<1>. QED  BY <1>1, ContentInvariant, PTL

\* No activation on record removed a definition of the version its proposal was made for,
\* whatever became of the proposal's id between dry run and activation.
THEOREM ActivationsCompatible == Spec => []ActivationsWereCompatible
<1>1. IInv => ActivationsWereCompatible
  BY DEF IInv, ActivationsSound, Activations, ActivationsWereCompatible
<1>. QED  BY <1>1, ContentInvariant, PTL

\* No command changes a published version, or the workspace it came from.
THEOREM PublishedStays == Spec => PublishedImmutable
<1>. DEFINE Kept == /\ PacksStay
                    /\ \A w \in Workspaces :
                           (workspaces[w] # Nothing /\ workspaces[w].status = "published")
                               => workspaces'[w] = workspaces[w]
<1>1. IInv /\ [Next]_vars => Kept
  <2>. SUFFICES ASSUME IInv, [Next]_vars PROVE Kept
    OBVIOUS
  <2>1. ASSUME NEW w \in Workspaces, NEW who \in Principals,
               \/ \E ns \in Namespaces : CreateAuthoringWorkspace(w, ns, who)
               \/ \E i \in Drafts, d \in Definitions : UpsertDraftDefinition(w, who, i, d)
               \/ ValidateAuthoringWorkspace(w, who)
               \/ \E v \in Versions : PublishAuthoringWorkspace(w, who, v)
        PROVE  Kept
    <3>1. workspaces[w] = Nothing \/ Owned(w, who)
      BY <2>1 DEF CreateAuthoringWorkspace, UpsertDraftDefinition, ValidateAuthoringWorkspace,
                  PublishAuthoringWorkspace
    <3>2. \A u \in Workspaces \ {w} : workspaces'[u] = workspaces[u]
      BY <2>1 DEF IInv, TypeOK, CreateAuthoringWorkspace, UpsertDraftDefinition,
                  ValidateAuthoringWorkspace, PublishAuthoringWorkspace
    <3>. QED  BY <2>1, <3>1, <3>2, AuthoringSteps DEF Owned
  <2>2. CASE UNCHANGED authoring
    BY <2>2 DEF authoring, PacksStay
  <2>3. UNCHANGED vars => UNCHANGED authoring
    BY DEF vars, authoring
  <2>. QED  BY <2>1, <2>2, <2>3 DEF Next, BindCampaignContent, ProposeContentRevision,
                CreateCheckpoint, DryRunContentRevision, ActivateContentRevision,
                ActivateStopsAtCheckpoint
<1>2. Kept => [/\ \A id \in DOMAIN packs : packs[id] # Nothing => packs'[id] = packs[id]
               /\ \A w \in Workspaces :
                      (workspaces[w] # Nothing /\ workspaces[w].status = "published")
                          => workspaces'[w] = workspaces[w]]_vars
  BY DEF PacksStay
<1>. QED  BY <1>1, <1>2, ContentInvariant, PTL DEF Spec, PublishedImmutable
=============================================================================
