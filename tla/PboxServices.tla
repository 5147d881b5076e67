---------------------------- MODULE PboxServices ----------------------------
(***************************************************************************)
(* The services around one box side by side: those of its agent, and those *)
(* of the command line.  They share no state that these modules model, so  *)
(* each is examined by itself: "service" names the one whose steps are     *)
(* taken.                                                                  *)
(***************************************************************************)
EXTENDS
    AgentAdmission, ExecPipes, FileTransfer, TcpForward, ReverseForward, GuestSupervision,
    RecipeCache, RecipeApply, BoxCommands, Inventory, TerminalClient, ImageTemplates,
    LocalConfig, RelayAccess

CONSTANT Services  \* the services examined

ServiceNames ==
    {"admission", "exec", "files", "forward", "reverse", "supervision", "cache", "apply", "commands",
     "inventory", "terminal", "templates", "config", "access"}

ASSUME ServicesAssumption == Services \subseteq ServiceNames

VARIABLE service

guestVars ==
    <<admissionVars, execVars, transferVars, forwardVars, reverseVars, supervisionVars>>
hostVars ==
    <<cacheVars, applyVars, commandVars, inventoryVars, terminalVars, templateVars, configVars,
      accessVars>>
servicesVars == <<service, guestVars, hostVars>>

\* Where a service starts in several ways, the others do not multiply them.
Elsewhere(s, one) == service = s \/ one

ServicesInit ==
    /\ service \in Services
    /\ AdmissionInit
    /\ ExecInit /\ Elsewhere("exec", kin = "none")
    \* a directory that exists is left by the other copy
    /\ TransferInit /\ Elsewhere("files", sameName) /\ ~directory
    /\ ForwardInit /\ ReverseInit
    /\ SupervisionInit
    /\ Elsewhere("supervision",
           /\ box = [init |-> "other", app |-> FALSE, shared |-> TRUE] /\ disk = "new"
           /\ \A c \in Controllers : update[c].kills)
    /\ CacheInit
    /\ Elsewhere("cache",
           cache = Absent /\ autoSync /\ \A c \in RecipeCalls : cacheCall[c].kind = "sync")
    /\ ApplyInit
    /\ Elsewhere("apply", settings = [policy |-> "never", rollback |-> TRUE, able |-> TRUE, shared |-> TRUE])
    /\ CommandInit
    /\ Elsewhere("commands",
           power = "running"
           /\ \A c \in BoxCalls : cmd[c].force /\ cmd[c].kind = CHOOSE k \in BoxKinds : TRUE)
    /\ InventoryInit /\ Elsewhere("inventory", \A b \in Boxes : vessel[b] = "running")
    /\ TerminalInit
    /\ Elsewhere("terminal", use = [interactive |-> TRUE, view |-> TRUE, named |-> TRUE])
    /\ TemplatesInit
    /\ Elsewhere("templates",
           /\ online = Nodes /\ skopeo /\ natives = 0
           /\ site = [n \in Nodes |-> CHOOSE l \in Layouts : TRUE]
           /\ ask = [c \in Preparations |-> CHOOSE r \in Requests : TRUE])
    /\ ConfigInit
    /\ Elsewhere("config",
           values = Defaults /\ environment /\ \A c \in Settings : tuning[c] = Waiting("set", TRUE))
    /\ AccessInit /\ Elsewhere("access", \A c \in Visitors : visit[c].kind = "key")

GuestStays(s) ==
    /\ s # "admission" => UNCHANGED admissionVars
    /\ s # "exec" => UNCHANGED execVars
    /\ s # "files" => UNCHANGED transferVars
    /\ s # "forward" => UNCHANGED forwardVars
    /\ s # "reverse" => UNCHANGED reverseVars
    /\ s # "supervision" => UNCHANGED supervisionVars
HostStays(s) ==
    /\ s # "cache" => UNCHANGED cacheVars
    /\ s # "apply" => UNCHANGED applyVars
    /\ s # "commands" => UNCHANGED commandVars
    /\ s # "inventory" => UNCHANGED inventoryVars
    /\ s # "terminal" => UNCHANGED terminalVars
    /\ s # "templates" => UNCHANGED templateVars
    /\ s # "config" => UNCHANGED configVars
    /\ s # "access" => UNCHANGED accessVars
\* Only service s takes a step.
Of(s) == service = s /\ UNCHANGED service
OthersStay(s) == GuestStays(s) /\ HostStays(s)

ServicesNext ==
    \/ Of("admission") /\ AdmissionNext /\ OthersStay("admission")
    \/ Of("exec") /\ ExecNext /\ OthersStay("exec")
    \/ Of("files") /\ TransferNext /\ OthersStay("files")
    \/ Of("forward") /\ ForwardNext /\ OthersStay("forward")
    \/ Of("reverse") /\ ReverseNext /\ OthersStay("reverse")
    \/ Of("supervision") /\ SupervisionNext /\ OthersStay("supervision")
    \/ Of("cache") /\ CacheNext /\ OthersStay("cache")
    \/ Of("apply") /\ ApplyNext /\ OthersStay("apply")
    \/ Of("commands") /\ CommandNext /\ OthersStay("commands")
    \/ Of("inventory") /\ InventoryNext /\ OthersStay("inventory")
    \/ Of("terminal") /\ TerminalNext /\ OthersStay("terminal")
    \/ Of("templates") /\ TemplatesNext /\ OthersStay("templates")
    \/ Of("config") /\ ConfigNext /\ OthersStay("config")
    \/ Of("access") /\ AccessNext /\ OthersStay("access")

ServicesSpec == ServicesInit /\ [][ServicesNext]_servicesVars

(***************************************************************************)
(* Fairness.  The listener's stream is polled by the server, a handshake   *)
(* has a timeout of 30 seconds; every await of the agent's exec and        *)
(* forward tasks has a timeout, so those tasks are scheduled on whatever   *)
(* the other side does; the guest's loop of a reverse forward and its      *)
(* bridges are scheduled too, and its loop ends once the client is gone,   *)
(* but a failing accept is not forced to fail.  Init reaps and starts its  *)
(* children or stops, and an agent that starts goes on.  pboxd takes its   *)
(* steps and commands that look for it are run again and again.  The       *)
(* reading thread and the task of a terminal's client are scheduled, not   *)
(* what they talk to.  Nothing is assumed of callers, commands, or the     *)
(* applications at the ends of either kind of forward.                     *)
(***************************************************************************)
AdmissionFairness ==
    /\ WF_admissionVars(service = "admission" /\ AcquiresPermit)
    /\ WF_admissionVars(service = "admission" /\ (Accepts \/ AcceptFails))
    /\ \A c \in Callers : WF_admissionVars(service = "admission" /\ HandshakeFails(c))
ExecFairness ==
    /\ WF_execVars(service = "exec" /\ Waits)
    /\ WF_execVars(service = "exec" /\ Finishes)
ForwardFairness ==
    WF_forwardVars(service = "forward" /\ (Passes("target") \/ AgentIdles))
ReverseFairness ==
    /\ WF_reverseVars(service = "reverse" /\ ~Up("client") /\ GuestEnds)
    /\ WF_reverseVars(service = "reverse" /\ LoopTurn("guest"))
    /\ \A n \in Conns : WF_reverseVars(service = "reverse" /\ BridgeStep("guest", n))
SupervisionFairness ==
    /\ WF_supervisionVars(service = "supervision" /\ (InitStops \/ SpawnFails))
    /\ WF_supervisionVars(service = "supervision" /\ AgentSpawned)
    /\ WF_supervisionVars(service = "supervision" /\ HostSpawned)
    /\ WF_supervisionVars(service = "supervision" /\ ReapsAgent)
    /\ WF_supervisionVars(service = "supervision" /\ ReapsHost)
    /\ WF_supervisionVars(service = "supervision" /\ AgentStart)
InventoryFairness ==
    /\ WF_inventoryVars(service = "inventory" /\ \E d \in Daemons : LooksForDaemon(d))
    /\ \A d \in Daemons : WF_inventoryVars(service = "inventory" /\ DaemonStep(d))
TerminalFairness == WF_terminalVars(service = "terminal" /\ LocalStep)

ServicesFairSpec ==
    /\ ServicesSpec
    /\ AdmissionFairness /\ ExecFairness /\ ForwardFairness /\ ReverseFairness
    /\ SupervisionFairness /\ InventoryFairness /\ TerminalFairness

ServicesTypeOK ==
    CASE service = "admission"   -> AdmissionTypeOK
      [] service = "exec"        -> ExecTypeOK
      [] service = "files"       -> TransferTypeOK
      [] service = "forward"     -> ForwardTypeOK
      [] service = "reverse"     -> ReverseTypeOK
      [] service = "supervision" -> SupervisionTypeOK
      [] service = "cache"       -> CacheTypeOK
      [] service = "apply"       -> ApplyTypeOK
      [] service = "commands"    -> CommandTypeOK
      [] service = "inventory"   -> InventoryTypeOK
      [] service = "terminal"    -> TerminalTypeOK
      [] service = "templates"   -> TemplatesTypeOK
      [] service = "config"      -> ConfigTypeOK
      [] service = "access"      -> AccessTypeOK

\* Data moves whole: what a one-off command wrote before it was reported to have
\* ended, and what the applications at both ends of either kind of forward wrote
\* before they shut their side, arrives whole and in order; no reader sees a part
\* of a copied file, only a restart and a call dropped while it opens its temporary
\* file leave one, and a copy reported done is there.  That a forward was cut short
\* shows in no end of file: what is claimed is for ends that were asked for.
DataWhole ==
    /\ service = "exec" => ExecComplete
    /\ service = "forward" => ForwardComplete
    /\ service = "reverse" => ReverseComplete
    /\ service = "files" => NothingTorn /\ TempsOwned /\ CopyComplete

\* Ansible reads a checkout that no other command changes, and what "pbox recipe
\* apply" says of a run is so: its provenance stays recorded unless a run of the same
\* recipe replaces it, a checkpoint that stays is named, and nothing of it still
\* reaches the box unless its bridge broke, which fails the run.
RecipesSound ==
    /\ service = "cache" => CheckoutApplied
    /\ service = "apply" => RunRecorded /\ CheckpointTold /\ BridgeQuiet

\* Commands tell the truth about boxes: what one reports has happened, and a
\* restart kills no box that may still shut down by itself; what "pbox list" shows
\* was so since the last refresh began, a deletion as long as it runs.
AnswersTrue ==
    /\ service = "commands" => ReportsHappened /\ GraceGiven
    /\ service = "inventory" => FreshStateShown /\ DeletionShown

\* A box is made where both of its storages are and of a template that is there,
\* whoever stores it first, and nothing of an image built here is left behind.
TemplatesSound ==
    service = "templates" => TemplateThere /\ ChoiceHolds /\ RaceAbsorbed /\ ScratchRemoved

\* Commands that change the configuration side by side leave one that is whole, and
\* a setup that says so the connection it verified, with the token it asked about or
\* the one it loaded; a key that a keygen named is there, cut off only where one is
\* writing or was stopped, and the terminal's echo comes back.
ConfigSound ==
    service = "config" =>
        TempFilesOwned /\ OverridesStayOut /\ VerifiedSaved /\ IdentityAsked /\ KeyThere /\ EchoReturns

\* Whom PVE shows the box may enter through the relay, for the credential's time
\* and no longer, and nobody is refused before; requests to PVE give their slot back.
AccessSound ==
    service = "access" =>
        IssuersCounted /\ EntryFollowsVisibility /\ RefusedForReason /\ CheckMeansKey

\* "pbox ssh" hands the typed keys on and detaches as the keys say.
TerminalFaithful == service = "terminal" => InputFaithful /\ DetachMeant /\ OutputWhole

\* Whatever the command and its client do, the agent's side of a one-off command
\* comes to an end and gives its exec permit back, with no task of it left.
ExecReleased == service = "exec" ~> CommandOver

\* The agent's permits come back: of calls that wait to be admitted, of one-off
\* commands and of forwards whatever their other ends do, and of reverse forwards,
\* whose writes have no timeout, if the applications in the guest read.
CapacityReturns == BacklogServed /\ ExecReleased /\ ForwardReleased /\ ReverseReleased
=============================================================================
