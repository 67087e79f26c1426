-------------------------- MODULE ContentEvolution --------------------------
(* Content, from a draft to the pack a campaign plays by: the authoring         *)
(* workspaces of application/full_service.py and the revision workflow of       *)
(* application/evolution_service.py, with CreateCheckpoint of                   *)
(* platform_service.py, which an activation calls.                              *)
(*                                                                              *)
(* Every command holds execute's lock and is one action.  A command that raises *)
(* before it changed anything is no step; one whose append raises QueueFull     *)
(* after the event was stored (StoreRaises) is a step of its own.  A content    *)
(* hash is the content: two packs with one sha256 are taken to be one content.  *)
EXTENDS Naturals, Sequences, FiniteSets

CONSTANTS Workspaces, Namespaces, Versions, Drafts, Principals,
          Definitions,  \* what a draft may say: [key, data, sound, ref], key and ref
                        \* without their namespace; sound: its type, licence, fields are there
          Campaigns, Proposals, Checkpoints,
          Nothing,      \* Python's None
          StoreRaises,  \* may an append raise after it stored its event
          MaxLog        \* bound: events of the campaigns' streams

ASSUME DefinitionsAssumption ==
    \A d \in Definitions : DOMAIN d = {"key", "data", "sound", "ref"} /\ d.sound \in BOOLEAN
ASSUME ContentBounds == StoreRaises \in BOOLEAN /\ MaxLog \in Nat
ASSUME NothingAssumption == Nothing \notin BOOLEAN

VARIABLES workspaces,  \* authoring_workspaces
          packs,       \* published_packs: packs[<<pack_id, version>>]
          bindings,    \* campaign_content_bindings
          proposals,   \* content_revision_proposals
          checkpoints, \* checkpoints
          log,         \* the campaigns' events in the store
          cut          \* history: events whose append raised QueueFull

authoring == <<workspaces, packs>>
revising == <<bindings, proposals, checkpoints, log, cut>>
vars == <<workspaces, packs, bindings, proposals, checkpoints, log, cut>>

Init ==
    /\ workspaces = [w \in Workspaces |-> Nothing]
    /\ packs = [id \in Namespaces \X Versions |-> Nothing]
    /\ bindings = [c \in Campaigns |-> Nothing]
    /\ proposals = [p \in Proposals |-> Nothing]
    /\ checkpoints = [k \in Checkpoints |-> Nothing]
    /\ log = <<>>
    /\ cut = {}

-----------------------------------------------------------------------------
(* Authoring *)

KeysOf(definitions) == {d.key : d \in definitions}

Written(drafts) == {i \in Drafts : drafts[i] # Nothing}
Content(drafts) == {drafts[i] : i \in Written(drafts)}

\* Wrong variant of Valid: references are not looked up.
ValidLoose(drafts) ==
    /\ \A i \in Written(drafts) : drafts[i].sound
    /\ \A i, j \in Written(drafts) : drafts[i].key = drafts[j].key => i = j

\* _quality_report: each draft has its type, licence and fields, no two have the same
\* key, and a reference is to the key of some draft.
Valid(drafts) ==
    /\ \A i \in Written(drafts) : /\ drafts[i].sound
                                  /\ drafts[i].ref \in KeysOf(Content(drafts)) \cup {Nothing}
    /\ \A i, j \in Written(drafts) : drafts[i].key = drafts[j].key => i = j

\* Wrong variant of Owned: a published workspace can still be written.
OwnedStill(w, who) == workspaces[w] # Nothing /\ workspaces[w].owner = who

\* _workspace_owned
Owned(w, who) == /\ workspaces[w] # Nothing
                 /\ workspaces[w].owner = who
                 /\ workspaces[w].status # "published"

CreateAuthoringWorkspace(w, ns, who) ==
    /\ workspaces[w] = Nothing
    /\ workspaces' = [workspaces EXCEPT ![w] =
           [namespace |-> ns, owner |-> who, status |-> "open", report |-> Nothing,
            drafts |-> [i \in Drafts |-> Nothing]]]
    /\ UNCHANGED packs /\ UNCHANGED revising

\* Wrong variant of UpsertDraftDefinition: the validation outlives the edit.
UpsertKeepsStatus(w, who, i, d) ==
    /\ Owned(w, who)
    /\ workspaces' = [workspaces EXCEPT ![w].drafts[i] = d]
    /\ UNCHANGED packs /\ UNCHANGED revising

UpsertDraftDefinition(w, who, i, d) ==
    /\ Owned(w, who)
    /\ workspaces' = [workspaces EXCEPT ![w].drafts[i] = d, ![w].status = "open",
                                        ![w].report = Nothing]
    /\ UNCHANGED packs /\ UNCHANGED revising

ValidateAuthoringWorkspace(w, who) ==
    /\ Owned(w, who)
    /\ LET valid == Valid(workspaces[w].drafts) IN
           workspaces' = [workspaces EXCEPT ![w].report = valid,
                                            ![w].status = IF valid THEN "valid" ELSE "open"]
    /\ UNCHANGED packs /\ UNCHANGED revising

Unpublished(id) == packs[id] = Nothing

\* The report is made anew and kept even if publishing is then refused.
PublishAuthoringWorkspace(w, who, version) ==
    /\ Owned(w, who)
    /\ LET valid == Valid(workspaces[w].drafts)
           id == <<workspaces[w].namespace, version>>
       IN  IF valid /\ Unpublished(id)
           THEN /\ packs' = [packs EXCEPT ![id] = Content(workspaces[w].drafts)]
                /\ workspaces' = [workspaces EXCEPT ![w].report = TRUE, ![w].status = "published"]
           ELSE /\ workspaces' = [workspaces EXCEPT ![w].report = valid]
                /\ UNCHANGED packs
    /\ UNCHANGED revising

-----------------------------------------------------------------------------
(* The campaign's binding and its revisions *)

Published(pack, version) == packs[<<pack, version>>] # Nothing
PackKeys(pack, version) == KeysOf(packs[<<pack, version>>])

\* Wrong variant of Binding: it counts from the event before its own.
BindingBefore(pack, version, sequence) ==
    [pack |-> pack, version |-> version, hash |-> packs[<<pack, version>>],
     sequence |-> sequence - 1]

Binding(pack, version, sequence) ==
    [pack |-> pack, version |-> version, hash |-> packs[<<pack, version>>], sequence |-> sequence]

\* The event is stored, and its sequence is its place.
Stored(event) == Len(log) < MaxLog /\ log' = Append(log, event)

\* QueueFull leaves the append, and the handler before it did anything else.
Raises == StoreRaises /\ cut' = cut \cup {Len(log')}

BoundEvent(c, pack, version) ==
    [type |-> "CampaignContentBound", campaign |-> c, pack |-> pack, version |-> version,
     hash |-> packs[<<pack, version>>]]

BindCampaignContent(c, pack, version) ==
    /\ bindings[c] = Nothing
    /\ Published(pack, version)
    /\ Stored(BoundEvent(c, pack, version))
    /\ \/ bindings' = [bindings EXCEPT ![c] = Binding(pack, version, Len(log) + 1)] /\ UNCHANGED cut
       \/ Raises /\ UNCHANGED bindings
    /\ UNCHANGED <<proposals, checkpoints>> /\ UNCHANGED authoring

MayPropose(c, to) == bindings[c] # Nothing /\ Published(bindings[c].pack, to)

\* A proposal id used before names the new proposal from now on.
ProposeContentRevision(c, p, to) ==
    /\ MayPropose(c, to)
    /\ proposals' = [proposals EXCEPT ![p] =
           [campaign |-> c, pack |-> bindings[c].pack, from |-> bindings[c].version, to |-> to,
            status |-> "proposed", compatible |-> Nothing, checkpoint |-> Nothing]]
    /\ UNCHANGED <<bindings, checkpoints, log, cut>> /\ UNCHANGED authoring

\* _diff between the two versions the proposal names, whatever is bound by now.
Removes(pack, from, to) == PackKeys(pack, from) \ PackKeys(pack, to)

DryRunContentRevision(p) ==
    /\ proposals[p] # Nothing
    /\ LET compatible == Removes(proposals[p].pack, proposals[p].from, proposals[p].to) = {} IN
           proposals' = [proposals EXCEPT
               ![p].compatible = compatible,
               ![p].status = IF compatible THEN "validated" ELSE "requires_branch"]
    /\ UNCHANGED <<bindings, checkpoints, log, cut>> /\ UNCHANGED authoring

CheckpointEvent(c, k) ==
    [type |-> "CheckpointCreated", campaign |-> c, checkpoint |-> k, source |-> Len(log)]

CreateCheckpoint(c, k) ==
    /\ checkpoints[k] = Nothing
    /\ Stored(CheckpointEvent(c, k))
    /\ \/ checkpoints' = [checkpoints EXCEPT ![k] = [campaign |-> c, source |-> Len(log)]] /\ UNCHANGED cut
       \/ Raises /\ UNCHANGED checkpoints
    /\ UNCHANGED <<bindings, proposals>> /\ UNCHANGED authoring

\* Wrong variant of MayActivate: any report will do.
MayActivateDryRun(p, k) == /\ proposals[p] # Nothing
                           /\ proposals[p].compatible # Nothing
                           /\ checkpoints[k] = Nothing

MayActivate(p, k) == /\ proposals[p] # Nothing
                     /\ proposals[p].compatible = TRUE
                     /\ checkpoints[k] = Nothing

ActivationEvent(p, k) ==
    [type |-> "CampaignContentRevisionActivated", campaign |-> proposals[p].campaign,
     pack |-> proposals[p].pack, from |-> proposals[p].from, version |-> proposals[p].to,
     hash |-> packs[<<proposals[p].pack, proposals[p].to>>], checkpoint |-> k]

\* The checkpoint and the activation, two appends.
ActivationEvents(p, k) == << CheckpointEvent(proposals[p].campaign, k), ActivationEvent(p, k) >>

ActivateContentRevision(p, k) ==
    /\ MayActivate(p, k)
    /\ Len(log) + 2 <= MaxLog
    /\ log' = log \o ActivationEvents(p, k)
    /\ checkpoints' = [checkpoints EXCEPT
           ![k] = [campaign |-> proposals[p].campaign, source |-> Len(log)]]
    /\ \/ /\ bindings' = [bindings EXCEPT ![proposals[p].campaign] =
                             Binding(proposals[p].pack, proposals[p].to, Len(log) + 2)]
          /\ proposals' = [proposals EXCEPT ![p].status = "activated", ![p].checkpoint = k]
          /\ UNCHANGED cut
       \/ Raises /\ UNCHANGED <<bindings, proposals>>
    /\ UNCHANGED authoring

\* QueueFull out of the first of the two appends.
ActivateStopsAtCheckpoint(p, k) ==
    /\ MayActivate(p, k)
    /\ Stored(CheckpointEvent(proposals[p].campaign, k))
    /\ Raises
    /\ UNCHANGED <<bindings, proposals, checkpoints>> /\ UNCHANGED authoring

-----------------------------------------------------------------------------
Next ==
    \/ \E w \in Workspaces, who \in Principals :
           \/ \E ns \in Namespaces : CreateAuthoringWorkspace(w, ns, who)
           \/ \E i \in Drafts, d \in Definitions : UpsertDraftDefinition(w, who, i, d)
           \/ ValidateAuthoringWorkspace(w, who)
           \/ \E v \in Versions : PublishAuthoringWorkspace(w, who, v)
    \/ \E c \in Campaigns :
           \/ \E pack \in Namespaces, v \in Versions : BindCampaignContent(c, pack, v)
           \/ \E p \in Proposals, v \in Versions : ProposeContentRevision(c, p, v)
           \/ \E k \in Checkpoints : CreateCheckpoint(c, k)
    \/ \E p \in Proposals :
           \/ DryRunContentRevision(p)
           \/ \E k \in Checkpoints : ActivateContentRevision(p, k) \/ ActivateStopsAtCheckpoint(p, k)

Spec == Init /\ [][Next]_vars

-----------------------------------------------------------------------------
(* Properties *)

WorkspaceStates ==
    [namespace: Namespaces, owner: Principals, status: {"open", "valid", "published"},
     report: BOOLEAN \cup {Nothing}, drafts: [Drafts -> Definitions \cup {Nothing}]]
BindingStates ==
    [pack: Namespaces, version: Versions, hash: SUBSET Definitions, sequence: 1..MaxLog]
ProposalStates ==
    [campaign: Campaigns, pack: Namespaces, from: Versions, to: Versions,
     status: {"proposed", "validated", "requires_branch", "activated"},
     compatible: BOOLEAN \cup {Nothing}, checkpoint: Checkpoints \cup {Nothing}]
Events ==
    [type: {"CampaignContentBound"}, campaign: Campaigns, pack: Namespaces,
     version: Versions, hash: SUBSET Definitions]
    \cup [type: {"CheckpointCreated"}, campaign: Campaigns, checkpoint: Checkpoints, source: 0..MaxLog]
    \cup [type: {"CampaignContentRevisionActivated"}, campaign: Campaigns, pack: Namespaces,
          from: Versions, version: Versions, hash: SUBSET Definitions, checkpoint: Checkpoints]

TypeOK ==
    /\ workspaces \in [Workspaces -> WorkspaceStates \cup {Nothing}]
    /\ packs \in [Namespaces \X Versions -> (SUBSET Definitions) \cup {Nothing}]
    /\ bindings \in [Campaigns -> BindingStates \cup {Nothing}]
    /\ proposals \in [Proposals -> ProposalStates \cup {Nothing}]
    /\ checkpoints \in [Checkpoints -> [campaign: Campaigns, source: 0..MaxLog] \cup {Nothing}]
    /\ log \in Seq(Events) /\ Len(log) <= MaxLog
    /\ cut \subseteq DOMAIN log

\* A workspace's status and report are about the drafts it holds now: an edit after a
\* validation takes both back.
StatusHonest ==
    \A w \in Workspaces : workspaces[w] # Nothing =>
        /\ workspaces[w].report # Nothing => workspaces[w].report = Valid(workspaces[w].drafts)
        /\ workspaces[w].status # "open" => workspaces[w].report = TRUE

\* A published version never changes, nor does the workspace it was published from
\* ("published workspace is immutable"), whoever edits or publishes what next.
PublishedImmutable ==
    [][/\ \A id \in DOMAIN packs : packs[id] # Nothing => packs'[id] = packs[id]
       /\ \A w \in Workspaces : (workspaces[w] # Nothing /\ workspaces[w].status = "published")
              => workspaces'[w] = workspaces[w]]_vars

\* In a published pack a key names one definition and every reference one of the
\* pack's own: InstantiateEncounterTemplate looks both up without a check.
PacksResolve ==
    \A id \in DOMAIN packs : packs[id] # Nothing =>
        /\ \A d, e \in packs[id] : d.key = e.key => d = e
        /\ \A d \in packs[id] : d.ref \in KeysOf(packs[id]) \cup {Nothing}

BindingEvents(c) ==
    {n \in DOMAIN log \ cut : log[n].campaign = c /\ log[n].type # "CheckpointCreated"}

\* replay_snapshot's content_binding is the live one: the last event that binds the
\* campaign says all that the binding does, its sequence included.  The live side
\* lacks the events whose append raised, and nothing else, whatever came after them.
BindingReplays ==
    \A c \in Campaigns :
        IF BindingEvents(c) = {} THEN bindings[c] = Nothing
        ELSE LET n == CHOOSE n \in BindingEvents(c) : \A m \in BindingEvents(c) : m <= n
             IN  bindings[c] = [pack |-> log[n].pack, version |-> log[n].version,
                                hash |-> log[n].hash, sequence |-> n]

\* No activation removes a definition of the version its proposal started from, though
\* a proposal id can be taken over by another proposal after its dry run.
ActivationsWereCompatible ==
    \A n \in DOMAIN log : log[n].type = "CampaignContentRevisionActivated" =>
        Removes(log[n].pack, log[n].from, log[n].version) = {}

\* evolution_service.py says of itself that it "rejects removals of definitions in the
\* baseline automatic path": no step takes a key away from a bound campaign.
NoKeyLost ==
    [][\A c \in Campaigns : bindings[c] # Nothing =>
           KeysOf(bindings[c].hash) \subseteq KeysOf(bindings'[c].hash)]_vars
=============================================================================
