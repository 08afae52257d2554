------------------------------ MODULE MCParts -------------------------------
(***************************************************************************)
(* The smaller components share no variable.  One run checks them all: the *)
(* first state chooses a part, and only that part moves.                   *)
(***************************************************************************)
EXTENDS Drafts, ChatLevel, Identities, Media, Link, Agents, Antenna,
        Sessions, FloodGuard, Avatars, Pipeline, Backup, Presence, TLC

CONSTANT Parts  \* the parts an instance checks

VARIABLE part

Symmetry == Permutations(Desks) \cup Permutations(Loads)

PartsInit ==
    /\ part \in Parts
    /\ DraftsInit
    /\ ChatLevelInit
    /\ IdentitiesInit
    /\ MediaInit
    /\ LinkInit
    /\ AgentsInit
    /\ AntennaInit
    /\ SessionsInit
    /\ FloodGuardInit
    /\ AvatarsInit
    /\ PipelineInit
    /\ BackupInit
    /\ PresenceInit
    \* The parts that do not move begin in one way only.
    /\ part # "drafts" => drafts[1] = NoDraft
    /\ part # "levels" => \A k \in DOMAIN defaults : defaults[k] = "auto"
    /\ part # "link" => ~paired /\ ~status.muted
    /\ part # "antenna" => conf = Cleared /\ deaf = {}
    /\ part # "avatars" => \A j \in Contacts : picture[j] = NoPicture

ButDrafts == <<part, levelVars, identityVars, mediaVars, linkVars, agentVars,
                   antennaVars, sessionVars, guardVars, avatarVars, pipeVars,
                   backupVars, presenceVars>>
ButChatLevel == <<part, draftVars, identityVars, mediaVars, linkVars, agentVars,
                   antennaVars, sessionVars, guardVars, avatarVars, pipeVars,
                   backupVars, presenceVars>>
ButIdentities == <<part, draftVars, levelVars, mediaVars, linkVars, agentVars,
                   antennaVars, sessionVars, guardVars, avatarVars, pipeVars,
                   backupVars, presenceVars>>
ButMedia == <<part, draftVars, levelVars, identityVars, linkVars, agentVars,
                   antennaVars, sessionVars, guardVars, avatarVars, pipeVars,
                   backupVars, presenceVars>>
ButLink == <<part, draftVars, levelVars, identityVars, mediaVars,
                   agentVars, antennaVars, sessionVars, guardVars, avatarVars,
                   pipeVars, backupVars, presenceVars>>
ButAgents == <<part, draftVars, levelVars, identityVars, mediaVars, linkVars,
                   antennaVars, sessionVars, guardVars, avatarVars, pipeVars,
                   backupVars, presenceVars>>
ButAntenna == <<part, draftVars, levelVars, identityVars, mediaVars, linkVars,
                   agentVars, sessionVars, guardVars, avatarVars, pipeVars,
                   backupVars, presenceVars>>
ButSessions == <<part, draftVars, levelVars, identityVars, mediaVars, linkVars,
                   agentVars, antennaVars, guardVars, avatarVars, pipeVars,
                   backupVars, presenceVars>>
ButFloodGuard == <<part, draftVars, levelVars, identityVars, mediaVars, linkVars,
                   agentVars, antennaVars, sessionVars, avatarVars, pipeVars,
                   backupVars, presenceVars>>
ButAvatars == <<part, draftVars, levelVars, identityVars, mediaVars, linkVars,
                   agentVars, antennaVars, sessionVars, guardVars, pipeVars,
                   backupVars, presenceVars>>
ButPipeline == <<part, draftVars, levelVars, identityVars, mediaVars, linkVars,
                   agentVars, antennaVars, sessionVars, guardVars, avatarVars,
                   backupVars, presenceVars>>
ButBackup == <<part, draftVars, levelVars, identityVars, mediaVars, linkVars,
                   agentVars, antennaVars, sessionVars, guardVars, avatarVars,
                   pipeVars, presenceVars>>
ButPresence == <<part, draftVars, levelVars, identityVars, mediaVars, linkVars,
                   agentVars, antennaVars, sessionVars, guardVars, avatarVars,
                   pipeVars, backupVars>>

DraftsMoves == part = "drafts" /\ DraftsNext /\ UNCHANGED ButDrafts
ChatLevelMoves == part = "levels" /\ ChatLevelNext /\ UNCHANGED ButChatLevel
IdentitiesMoves == part = "identities" /\ IdentitiesNext /\ UNCHANGED ButIdentities
MediaMoves == part = "media" /\ MediaNext /\ UNCHANGED ButMedia
LinkMoves == part = "link" /\ LinkNext /\ UNCHANGED ButLink
AgentsMoves == part = "agents" /\ AgentsNext /\ UNCHANGED ButAgents
AntennaMoves == part = "antenna" /\ AntennaNext /\ UNCHANGED ButAntenna
SessionsMoves == part = "sessions" /\ SessionsNext /\ UNCHANGED ButSessions
FloodGuardMoves == part = "guard" /\ FloodGuardNext /\ UNCHANGED ButFloodGuard
AvatarsMoves == part = "avatars" /\ AvatarsNext /\ UNCHANGED ButAvatars

\* The inbound side twice, for their product is too large to enumerate: a life
\* of the process with no page open, and a page while the process serves.
PipelineMoves ==
    /\ part \in {"pipeline", "pages"} /\ PipelineNext /\ UNCHANGED ButPipeline
    /\ \/ part = "pipeline" /\ UNCHANGED watch
       \/ /\ part = "pages" /\ UNCHANGED <<shell, receipts>>
          /\ \A l \in Loops \ {"inbound"} : loop'[l] = loop[l]

BackupMoves == part = "backup" /\ BackupNext /\ UNCHANGED ButBackup
PresenceMoves == part = "presence" /\ PresenceNext /\ UNCHANGED ButPresence

PartsNext ==
    \/ DraftsMoves
    \/ ChatLevelMoves
    \/ IdentitiesMoves
    \/ MediaMoves
    \/ LinkMoves
    \/ AgentsMoves
    \/ AntennaMoves
    \/ SessionsMoves
    \/ FloodGuardMoves
    \/ AvatarsMoves
    \/ PipelineMoves
    \/ BackupMoves
    \/ PresenceMoves

partsVars == <<draftVars, ButDrafts>>

PartsSpec == PartsInit /\ [][PartsNext]_partsVars

\* The fairness of the parts that state one.
PartsFairness ==
    /\ WF_identityVars(part = "identities" /\ SweepIdentities)
    /\ WF_mediaVars(part = "media" /\ DownloadNextPendingMedia)
    /\ WF_mediaVars(part = "media" /\ BackToWork)
    /\ \A w \in Fetchers : WF_mediaVars(part = "media" /\ Fetch(w))
    /\ \A c \in Callers :
          /\ WF_antennaVars(part = "antenna" /\ Inject(c))
          /\ WF_antennaVars(part = "antenna" /\ CallStep(c))

FairPartsSpec == PartsSpec /\ PartsFairness

PartsTypeOK ==
    /\ DraftsTypeOK
    /\ ChatLevelTypeOK
    /\ IdentitiesTypeOK
    /\ MediaTypeOK
    /\ LinkTypeOK
    /\ AgentsTypeOK
    /\ AntennaTypeOK
    /\ SessionsTypeOK
    /\ FloodGuardTypeOK
    /\ AvatarsTypeOK
    /\ PipelineTypeOK
    /\ BackupTypeOK
    /\ PresenceTypeOK
=============================================================================
