---------------------------- MODULE PartsProofs -----------------------------
(***************************************************************************)
(* What the run of the smaller components has to do with each of them: a   *)
(* behaviour of MCParts is a behaviour of every part, so what is proved    *)
(* of a part holds in it.                                                  *)
(***************************************************************************)
EXTENDS MCParts, AdapterProofs, OwnerProofs, AgentsProofs

\* A part that does not move stutters.
LEMMA PartsStep ==
    ASSUME [PartsNext]_partsVars
    PROVE  /\ [DraftsNext]_draftVars
           /\ [ChatLevelNext]_levelVars
           /\ [IdentitiesNext]_identityVars
           /\ [MediaNext]_mediaVars
           /\ [LinkNext]_linkVars
           /\ [AgentsNext]_agentVars
           /\ [AntennaNext]_antennaVars
           /\ [SessionsNext]_sessionVars
           /\ [FloodGuardNext]_guardVars
           /\ [AvatarsNext]_avatarVars
           /\ [PipelineNext]_pipeVars
           /\ [BackupNext]_backupVars
           /\ [PresenceNext]_presenceVars
<1> USE DEF PartsNext, partsVars, DraftsMoves, ChatLevelMoves,
        IdentitiesMoves, MediaMoves, LinkMoves, AgentsMoves, AntennaMoves,
        SessionsMoves, FloodGuardMoves, AvatarsMoves, PipelineMoves,
        BackupMoves, PresenceMoves, ButDrafts, ButChatLevel, ButIdentities,
        ButMedia, ButLink, ButAgents, ButAntenna, ButSessions, ButFloodGuard,
        ButAvatars, ButPipeline, ButBackup, ButPresence
<1>1. [DraftsNext]_draftVars
  OBVIOUS
<1>2. [ChatLevelNext]_levelVars
  OBVIOUS
<1>3. [IdentitiesNext]_identityVars
  OBVIOUS
<1>4. [MediaNext]_mediaVars
  OBVIOUS
<1>5. [LinkNext]_linkVars
  OBVIOUS
<1>6. [AgentsNext]_agentVars
  OBVIOUS
<1>7. [AntennaNext]_antennaVars
  OBVIOUS
<1>8. [SessionsNext]_sessionVars
  OBVIOUS
<1>9. [FloodGuardNext]_guardVars
  OBVIOUS
<1>10. [AvatarsNext]_avatarVars
  OBVIOUS
<1>11. [PipelineNext]_pipeVars
  OBVIOUS
<1>12. [BackupNext]_backupVars
  OBVIOUS
<1>13. [PresenceNext]_presenceVars
  OBVIOUS
<1> QED BY <1>1, <1>2, <1>3, <1>4, <1>5, <1>6, <1>7, <1>8, <1>9, <1>10,
     <1>11, <1>12, <1>13

\* Whatever part the first state chooses, each part behaves as its own
\* specification says.
THEOREM PartsAreParts ==
    PartsSpec => /\ DraftsSpec
                 /\ ChatLevelSpec
                 /\ IdentitiesSpec
                 /\ MediaSpec
                 /\ LinkSpec
                 /\ AgentsSpec
                 /\ AntennaSpec
                 /\ SessionsSpec
                 /\ FloodGuardSpec
                 /\ AvatarsSpec
                 /\ PipelineSpec
                 /\ BackupSpec
                 /\ PresenceSpec
<1>1. PartsInit => /\ DraftsInit
                   /\ ChatLevelInit
                   /\ IdentitiesInit
                   /\ MediaInit
                   /\ LinkInit
                   /\ AgentsInit
                   /\ AntennaInit
                   /\ SessionsInit
                   /\ FloodGuardInit
                   /\ AvatarsInit
                   /\ PipelineInit
                   /\ BackupInit
                   /\ PresenceInit
  BY DEF PartsInit
<1>2. [PartsNext]_partsVars =>
         /\ [DraftsNext]_draftVars
         /\ [ChatLevelNext]_levelVars
         /\ [IdentitiesNext]_identityVars
         /\ [MediaNext]_mediaVars
         /\ [LinkNext]_linkVars
         /\ [AgentsNext]_agentVars
         /\ [AntennaNext]_antennaVars
         /\ [SessionsNext]_sessionVars
         /\ [FloodGuardNext]_guardVars
         /\ [AvatarsNext]_avatarVars
         /\ [PipelineNext]_pipeVars
         /\ [BackupNext]_backupVars
         /\ [PresenceNext]_presenceVars
  BY PartsStep
<1> QED BY <1>1, <1>2, PTL DEF PartsSpec, DraftsSpec, ChatLevelSpec,
     IdentitiesSpec, MediaSpec, LinkSpec, AgentsSpec, AntennaSpec,
     SessionsSpec, FloodGuardSpec, AvatarsSpec, PipelineSpec, BackupSpec,
     PresenceSpec

\* The type invariant of the run: all parts keep their types.
THEOREM PartsTypes == PartsSpec => []PartsTypeOK
<1>1. MediaInv => MediaTypeOK
  BY DEF MediaInv
<1>2. IdentitiesInv => IdentitiesTypeOK
  BY DEF IdentitiesInv
<1>3. /\ DraftsTypeOK
      /\ ChatLevelTypeOK
      /\ IdentitiesTypeOK
      /\ MediaTypeOK
      /\ LinkTypeOK
      /\ AgentsTypeOK
      /\ AntennaTypeOK
      /\ SessionsTypeOK
      /\ FloodGuardTypeOK
      /\ AvatarsTypeOK
      /\ PipelineTypeOK
      /\ BackupTypeOK
      /\ PresenceTypeOK
      => PartsTypeOK
  BY DEF PartsTypeOK
<1> QED BY <1>1, <1>2, <1>3, PartsAreParts, DraftsTypes, ChatLevelTypes,
     IdentitiesInvariant, MediaInvariant, LinkTypeCorrect, AgentsTypes,
     AntennaTypes, SessionsTypes, FloodGuardTypes, AvatarsTypes,
     PipelineTypes, BackupTypes, PresenceTypes, PTL
=============================================================================
