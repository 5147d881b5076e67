------------------------- MODULE PboxServices_proofs -------------------------
(***************************************************************************)
(* What the services around a box keep side by side: each takes the steps  *)
(* of its own specification or none, so that what is proved of it alone    *)
(* holds of it here.                                                       *)
(***************************************************************************)
EXTENDS PboxServices, AgentServices_proofs, HostServices_proofs

-----------------------------------------------------------------------------
(***************************************************************************)
(* Every service follows its own specification.                            *)
(***************************************************************************)

LEMMA AdmissionPart == ServicesSpec => AdmissionSpec
<1>1. ServicesInit => AdmissionInit
    BY DEF ServicesInit
<1>2. [ServicesNext]_servicesVars => [AdmissionNext]_admissionVars
    BY DEF ServicesNext, OthersStay, GuestStays, servicesVars, guestVars
<1>3. QED  BY <1>1, <1>2, PTL DEF ServicesSpec, AdmissionSpec

LEMMA TransferPart == ServicesSpec => TransferSpec
<1>1. ServicesInit => TransferInit
    BY DEF ServicesInit
<1>2. [ServicesNext]_servicesVars => [TransferNext]_transferVars
    BY DEF ServicesNext, OthersStay, GuestStays, servicesVars, guestVars
<1>3. QED  BY <1>1, <1>2, PTL DEF ServicesSpec, TransferSpec

LEMMA ExecPart == ServicesSpec => ExecSpec
<1>1. ServicesInit => ExecInit
    BY DEF ServicesInit
<1>2. [ServicesNext]_servicesVars => [ExecNext]_execVars
    BY DEF ServicesNext, OthersStay, GuestStays, servicesVars, guestVars
<1>3. QED  BY <1>1, <1>2, PTL DEF ServicesSpec, ExecSpec

LEMMA ForwardPart == ServicesSpec => ForwardSpec
<1>1. ServicesInit => ForwardInit
    BY DEF ServicesInit
<1>2. [ServicesNext]_servicesVars => [ForwardNext]_forwardVars
    BY DEF ServicesNext, OthersStay, GuestStays, servicesVars, guestVars
<1>3. QED  BY <1>1, <1>2, PTL DEF ServicesSpec, ForwardSpec

LEMMA ReversePart == ServicesSpec => ReverseSpec
<1>1. ServicesInit => ReverseInit
    BY DEF ServicesInit
<1>2. [ServicesNext]_servicesVars => [ReverseNext]_reverseVars
    BY DEF ServicesNext, OthersStay, GuestStays, servicesVars, guestVars
<1>3. QED  BY <1>1, <1>2, PTL DEF ServicesSpec, ReverseSpec

LEMMA CachePart == ServicesSpec => CacheSpec
<1>1. ServicesInit => CacheInit
    BY DEF ServicesInit
<1>2. [ServicesNext]_servicesVars => [CacheNext]_cacheVars
    BY DEF ServicesNext, OthersStay, HostStays, servicesVars, hostVars
<1>3. QED  BY <1>1, <1>2, PTL DEF ServicesSpec, CacheSpec

LEMMA ApplyPart == ServicesSpec => ApplySpec
<1>1. ServicesInit => ApplyInit
    BY DEF ServicesInit
<1>2. [ServicesNext]_servicesVars => [ApplyNext]_applyVars
    BY DEF ServicesNext, OthersStay, HostStays, servicesVars, hostVars
<1>3. QED  BY <1>1, <1>2, PTL DEF ServicesSpec, ApplySpec

LEMMA CommandPart == ServicesSpec => CommandSpec
<1>1. ServicesInit => CommandInit
    BY DEF ServicesInit
<1>2. [ServicesNext]_servicesVars => [CommandNext]_commandVars
    BY DEF ServicesNext, OthersStay, HostStays, servicesVars, hostVars
<1>3. QED  BY <1>1, <1>2, PTL DEF ServicesSpec, CommandSpec

LEMMA InventoryPart == ServicesSpec => InventorySpec
<1>1. ServicesInit => InventoryInit
    BY DEF ServicesInit
<1>2. [ServicesNext]_servicesVars => [InventoryNext]_inventoryVars
    BY DEF ServicesNext, OthersStay, HostStays, servicesVars, hostVars
<1>3. QED  BY <1>1, <1>2, PTL DEF ServicesSpec, InventorySpec

LEMMA TemplatesPart == ServicesSpec => TemplatesSpec
<1>1. ServicesInit => TemplatesInit
    BY DEF ServicesInit
<1>2. [ServicesNext]_servicesVars => [TemplatesNext]_templateVars
    BY DEF ServicesNext, OthersStay, HostStays, servicesVars, hostVars
<1>3. QED  BY <1>1, <1>2, PTL DEF ServicesSpec, TemplatesSpec

LEMMA ConfigPart == ServicesSpec => ConfigSpec
<1>1. ServicesInit => ConfigInit
    BY DEF ServicesInit
<1>2. [ServicesNext]_servicesVars => [ConfigNext]_configVars
    BY DEF ServicesNext, OthersStay, HostStays, servicesVars, hostVars
<1>3. QED  BY <1>1, <1>2, PTL DEF ServicesSpec, ConfigSpec

LEMMA AccessPart == ServicesSpec => AccessSpec
<1>1. ServicesInit => AccessInit
    BY DEF ServicesInit
<1>2. [ServicesNext]_servicesVars => [AccessNext]_accessVars
    BY DEF ServicesNext, OthersStay, HostStays, servicesVars, hostVars
<1>3. QED  BY <1>1, <1>2, PTL DEF ServicesSpec, AccessSpec

LEMMA SupervisionPart == ServicesSpec => SupervisionSpec
<1>1. ServicesInit => SupervisionInit
    BY DEF ServicesInit
<1>2. [ServicesNext]_servicesVars => [SupervisionNext]_supervisionVars
    BY DEF ServicesNext, OthersStay, GuestStays, servicesVars, guestVars
<1>3. QED  BY <1>1, <1>2, PTL DEF ServicesSpec, SupervisionSpec

LEMMA TerminalPart == ServicesSpec => TerminalSpec
<1>1. ServicesInit => TerminalInit
    BY DEF ServicesInit
<1>2. [ServicesNext]_servicesVars => [TerminalNext]_terminalVars
    BY DEF ServicesNext, OthersStay, HostStays, servicesVars, hostVars
<1>3. QED  BY <1>1, <1>2, PTL DEF ServicesSpec, TerminalSpec

\* The service examined stays the one it was.
LEMMA ServiceKnown == ServicesSpec => [](service \in Services)
<1>1. ServicesInit => service \in Services
    BY DEF ServicesInit
<1>2. service \in Services /\ [ServicesNext]_servicesVars => (service \in Services)'
    BY DEF ServicesNext, Of, servicesVars
<1>3. QED  BY <1>1, <1>2, PTL DEF ServicesSpec

-----------------------------------------------------------------------------
(***************************************************************************)
(* The promises of the services.                                           *)
(***************************************************************************)

\* The agent's permits add up whatever happens next to its listener.
THEOREM PermitsAreHeld == ServicesSpec => []PermitsHeld
BY AdmissionAssumption, AdmissionPart, PermitsNeverLeak, PTL

\* What a command says of a box has happened to it, and what the list shows of it
\* was so, for any number of commands, boxes and daemons (main.rs, inventory.rs).
THEOREM AnswersAreTrue == ServicesSpec => []AnswersTrue
<1>1. CommandSpec => []CommandInv
    BY BoxCommandsAssumption, CommandInvariant
<1>2. CommandInv => ReportsHappened /\ GraceGiven
    BY CommandTold
<1>3. InventoryInv => FreshStateShown /\ DeletionShown
    BY InventoryTold
<1>4. ReportsHappened /\ GraceGiven /\ FreshStateShown /\ DeletionShown => AnswersTrue
    BY DEF AnswersTrue
<1>5. QED  BY <1>1, <1>2, <1>3, <1>4, CommandPart, InventoryPart, InventoryInvariant, PTL

\* Ansible reads a checkout that no other command changes, and what a run leaves
\* in the box and in its record is what it says (recipes.rs, ansible.rs).
THEOREM RecipesAreSound == ServicesSpec => []RecipesSound
<1>1. CacheInv => CheckoutApplied
    BY CacheTold
<1>2. ApplyInv => RunRecorded /\ CheckpointTold /\ BridgeQuiet
    BY ApplyTold
<1>3. CheckoutApplied /\ RunRecorded /\ CheckpointTold /\ BridgeQuiet => RecipesSound
    BY DEF RecipesSound
<1>4. QED  BY <1>1, <1>2, <1>3, CachePart, CacheInvariant, ApplyPart, ApplyInvariant, PTL

\* A box is made where its storages are and of a template that is there, whoever
\* stores it first and on whatever site (main.rs, images.rs).
THEOREM TemplatesAreSound == ServicesSpec => []TemplatesSound
<1>1. TemplatesInv => TemplateThere /\ ChoiceHolds /\ RaceAbsorbed /\ ScratchRemoved
    BY TemplatesTold
<1>2. TemplateThere /\ ChoiceHolds /\ RaceAbsorbed /\ ScratchRemoved => TemplatesSound
    BY DEF TemplatesSound
<1>3. QED  BY <1>1, <1>2, TemplatesPart, TemplatesInvariant, PTL

\* However many commands change the configuration and wherever they are killed,
\* the file is one that a command wrote as a whole (main.rs, config.rs).
THEOREM ConfigIsSound == ServicesSpec => []ConfigSound
<1>1. ConfigInv => /\ TempFilesOwned /\ OverridesStayOut /\ VerifiedSaved /\ IdentityAsked
                   /\ KeyThere /\ EchoReturns
    BY ConfigTold
<1>2. TempFilesOwned /\ OverridesStayOut /\ VerifiedSaved /\ IdentityAsked /\ KeyThere /\ EchoReturns
          => ConfigSound
    BY DEF ConfigSound
<1>3. QED  BY <1>1, <1>2, ConfigPart, ConfigInvariant, PTL

\* Whoever enters through the relay was shown the box by PVE within the lifetime of
\* the credential, and every request to PVE gives its slot back (pbox-relay: access.rs).
THEOREM AccessIsSound == ServicesSpec => []AccessSound
<1>1. AccessInv => IssuersCounted /\ EntryFollowsVisibility /\ RefusedForReason /\ CheckMeansKey
    BY AccessTold
<1>2. IssuersCounted /\ EntryFollowsVisibility /\ RefusedForReason /\ CheckMeansKey => AccessSound
    BY DEF AccessSound
<1>3. QED  BY <1>1, <1>2, AccessPart, AccessInvariant, PTL

\* Data moves whole through the agent: the output of a command, both directions of a
\* forwarded connection, whichever side listens, and every copied file, for any sizes
\* and any capacities of the channels between (main.rs, reverse.rs, fs.rs).
THEOREM DataIsWhole == ServicesSpec => []DataWhole
<1>1. ExecSpec => []ExecInv
    BY ExecAssumption, ExecInvariant
<1>2. ForwardSpec => []ForwardInv
    BY ForwardAssumption, ForwardInvariant
<1>3. ReverseSpec => []ReverseInv
    BY ReverseAssumption, ReverseInvariant
<1>4. TransferSpec => []NothingTorn /\ []TempsOwned /\ []CopyComplete
    BY TransferAssumption, TransfersNeverTorn, NoTempLeftBehind, CopiesComplete
<1>5. ExecInv => ExecComplete
    BY ExecAssumption, ExecTold
<1>6. ForwardInv => ForwardComplete
    BY ForwardAssumption, ForwardTold
<1>7. ReverseInv => ReverseComplete
    BY ReverseAssumption, ReverseTold
<1>8. ExecComplete /\ ForwardComplete /\ ReverseComplete /\ NothingTorn /\ TempsOwned /\ CopyComplete => DataWhole
    BY DEF DataWhole
<1>9. QED  BY <1>1, <1>2, <1>3, <1>4, <1>5, <1>6, <1>7, <1>8, ExecPart, ForwardPart, ReversePart, TransferPart, PTL

\* The agent's update and restart end no terminal and no program in it, whatever
\* supervises the agent (main.rs, update.rs: the signal a restart sends).
THEOREM TerminalsAreKept == ServicesSpec => TerminalsSurvive
BY SupervisionAssumption, SupervisionPart, TerminalsOutliveAgents, PTL

\* What reaches the program is what was typed, only a meant key detaches, and an exit
\* status follows all output, whatever the connection and the user do (main.rs from
\* run_ssh on, ssh_input.rs, TerminalInput).
THEOREM TerminalIsFaithful == ServicesSpec => []TerminalFaithful
<1>1. InputFaithful /\ DetachMeant /\ OutputWhole => TerminalFaithful
    BY DEF TerminalFaithful
<1>2. QED  BY <1>1, TerminalClientAssumption, TerminalPart, ClientIsFaithful, PTL

\* The state of every service stays within the values and the limits the code gives
\* it: its queues, permits, attempts and stages.
THEOREM TypesAreKept == ServicesSpec => []ServicesTypeOK
<1>1. ServicesSpec => []AdmissionTypeOK /\ []TransferTypeOK
    BY AdmissionAssumption, AdmissionPart, AdmissionStaysTyped,
       TransferAssumption, TransferPart, TransferTyped, PTL
<1>2. ServicesSpec => []ExecTypeOK /\ []ForwardTypeOK /\ []ReverseTypeOK
    <2>1. ExecInv => ExecTypeOK
        BY ExecAssumption, ExecTold
    <2>2. ForwardInv => ForwardTypeOK
        BY ForwardAssumption, ForwardTold
    <2>3. ReverseInv => ReverseTypeOK
        BY ReverseAssumption, ReverseTold
    <2>4. ExecSpec => []ExecInv
        BY ExecAssumption, ExecInvariant
    <2>5. ForwardSpec => []ForwardInv
        BY ForwardAssumption, ForwardInvariant
    <2>6. ReverseSpec => []ReverseInv
        BY ReverseAssumption, ReverseInvariant
    <2>7. QED  BY <2>1, <2>2, <2>3, <2>4, <2>5, <2>6, ExecPart, ForwardPart, ReversePart, PTL
<1>3. ServicesSpec => []SupervisionTypeOK /\ []TerminalTypeOK
    <2>1. SupervisionSpec => []SupervisionInv
        BY SupervisionAssumption, SupervisionInvariant
    <2>2. TerminalSpec => [](TerminalInv /\ HeldShape)
        BY TerminalClientAssumption, TerminalInvariant
    <2>3. TerminalInv /\ HeldShape => TerminalTypeOK
        BY TerminalTold
    <2>4. QED  BY <2>1, <2>2, <2>3, SupervisionTold, SupervisionPart, TerminalPart, PTL
<1>4. ServicesSpec => []CommandTypeOK /\ []InventoryTypeOK
    <2>1. CommandSpec => []CommandInv
        BY BoxCommandsAssumption, CommandInvariant
    <2>2. CommandInv => CommandTypeOK
        BY CommandTold
    <2>3. InventoryInv => InventoryTypeOK
        BY InventoryTold
    <2>4. QED  BY <2>1, <2>2, <2>3, CommandPart, InventoryPart, InventoryInvariant, PTL
<1>5. ServicesSpec => []CacheTypeOK /\ []ApplyTypeOK
    <2>1. CacheInv => CacheTypeOK
        BY CacheTold
    <2>2. ApplyInv => ApplyTypeOK
        BY ApplyTold
    <2>3. QED  BY <2>1, <2>2, CachePart, CacheInvariant, ApplyPart, ApplyInvariant, PTL
<1>6. ServicesSpec => []TemplatesTypeOK /\ []ConfigTypeOK /\ []AccessTypeOK
    <2>1. TemplatesInv => TemplatesTypeOK
        BY TemplatesTold
    <2>2. ConfigInv => ConfigTypeOK
        BY ConfigTold
    <2>3. AccessInv => AccessTypeOK
        BY AccessTold
    <2>4. QED  BY <2>1, <2>2, <2>3, TemplatesPart, TemplatesInvariant, ConfigPart, ConfigInvariant,
              AccessPart, AccessInvariant, PTL
<1>7. /\ AdmissionTypeOK /\ TransferTypeOK /\ ExecTypeOK /\ ForwardTypeOK /\ ReverseTypeOK
      /\ SupervisionTypeOK /\ TerminalTypeOK /\ CommandTypeOK /\ InventoryTypeOK /\ CacheTypeOK
      /\ ApplyTypeOK /\ TemplatesTypeOK /\ ConfigTypeOK /\ AccessTypeOK /\ service \in Services
      => ServicesTypeOK
    BY ServicesAssumption DEF ServicesTypeOK, ServiceNames
<1>8. QED  BY <1>1, <1>2, <1>3, <1>4, <1>5, <1>6, <1>7, ServiceKnown, PTL
=============================================================================
