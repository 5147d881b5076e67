----------------------------- MODULE LocalConfig -----------------------------
(***************************************************************************)
(* The user's configuration file and the commands that change it: "pbox    *)
(* config set" and "unset", "pbox relay keygen" and "pbox setup"; any      *)
(* other command only reads it.  None takes a lock, each replaces the      *)
(* whole file by the values it loaded with its own changes, and setup      *)
(* loads them before its first prompt.  A secret is asked for with the     *)
(* terminal's echo off.                                                    *)
(***************************************************************************)
EXTENDS Naturals, FiniteSets

CONSTANTS
    Settings,       \* commands
    SettingKinds,   \* what they may be
    MaxSignals      \* commands that are killed or interrupted

ASSUME SettingKindsAssumption ==
    SettingKinds \subseteq {"set", "unset", "keygen", "setup", "use"}
ASSUME SettingsAssumption == {"nobody", "user", "cut"} \cap Settings = {}
ASSUME MaxSignalsAssumption == MaxSignals \in Nat

VARIABLES
    values,      \* what the configuration file holds; without a file, the defaults
    tempFiles,   \* the commands whose temporary file is there
    relayKey,    \* the key file keygen writes: not there, generated by the user earlier or
                 \* by a command, or cut off in the write
    saver,       \* the last command that saved its values
    environment, \* whether PBOX_PVE_URL is set
    signals,
    tuning       \* the commands

configVars == <<values, tempFiles, relayKey, saver, environment, signals, tuning>>

\* The PVE URL, the API token's ID and secret together (0: not set), and relay.key-file:
\* the file that a keygen made, or a path given to "config set", which nothing checks.
Values == [url : 0..4, identity : 0..2, key : {"none", "made", "given"}]
Defaults == [url |-> 0, identity |-> 0, key |-> "none"]
FromEnvironment == 3
FromArgument == 4

\* With "option", set and unset are about the token, keygen replaces a key
\* (--force), setup does not verify (--skip-verify), and use is given a URL.
\* "wrote" is how much of a key a keygen has written, over the one in "replaced".
Waiting(kind, option) ==
    [kind |-> kind, option |-> option, at |-> "start", base |-> Defaults, next |-> Defaults,
     typed |-> FALSE, asked |-> 0, echo |-> TRUE, confirmed |-> FALSE, verified |-> Defaults,
     replaced |-> "nobody", wrote |-> "none"]
ConfigInit ==
    /\ values \in {Defaults, [url |-> 1, identity |-> 1, key |-> "made"]}
    /\ tempFiles = {}
    /\ relayKey = IF values = Defaults THEN "nobody" ELSE "user"
    /\ saver = "user"
    /\ environment \in BOOLEAN
    /\ signals = 0
    /\ tuning \in [Settings -> {Waiting(k, o) : k \in SettingKinds, o \in BOOLEAN}]

Tuned(c, becomes) == tuning' = [tuning EXCEPT ![c] = becomes]
Reaches(c, stage) == Tuned(c, [tuning[c] EXCEPT !.at = stage])
NoFileChange == UNCHANGED <<values, tempFiles, relayKey, saver, environment, signals>>

\* The environment is laid over the file and arguments over both, for the
\* commands that only read.
UnderEnvironment(v) == IF environment THEN [v EXCEPT !.url = FromEnvironment] ELSE v
UnderArguments(v, given) == IF given THEN [v EXCEPT !.url = FromArgument] ELSE v

LoadsConfig(c) ==
    /\ tuning[c].kind = "use" /\ tuning[c].at = "start"
    /\ Tuned(c, [tuning[c] EXCEPT !.at = "done",
                    !.next = UnderArguments(UnderEnvironment(values), tuning[c].option)])
    /\ NoFileChange

\* Another value of the URL or of the token, or a path to a key.
SetValue(v, of) ==
    CASE of = "token" -> [v EXCEPT !.identity = 2]
      [] of = "url"   -> [v EXCEPT !.url = 2]
      [] of = "key"   -> [v EXCEPT !.key = "given"]
UnsetValue(v, of) ==
    CASE of = "token" -> [v EXCEPT !.identity = 0]
      [] of = "url"   -> [v EXCEPT !.url = 0]
      [] of = "key"   -> [v EXCEPT !.key = "none"]
Edited(c, of) == IF tuning[c].kind = "set" THEN SetValue(values, of) ELSE UnsetValue(values, of)

\* A secret is read before the file; other values come with the command.
SecretAsked(c) == tuning[c].kind = "set" /\ tuning[c].option
Edits(c) ==
    /\ \/ tuning[c].kind = "unset" /\ tuning[c].at = "start"
       \/ tuning[c].kind = "set" /\ tuning[c].at = IF SecretAsked(c) THEN "answered" ELSE "start"
    /\ \E of \in IF tuning[c].option THEN {"token"} ELSE {"url", "key"} :
           Tuned(c, [tuning[c] EXCEPT !.at = "saves", !.base = values, !.next = Edited(c, of)])
    /\ NoFileChange

\* A file that cannot be read or parsed.
LoadFails(c) ==
    /\ tuning[c].at \in {"start", "answered", "loads"}
    /\ Reaches(c, "failed")
    /\ NoFileChange

\* An unknown key, an invalid value, a secret given as an argument.
ValueRejected(c) ==
    /\ tuning[c].kind \in {"set", "unset"} /\ tuning[c].at \in {"start", "answered"}
    /\ Reaches(c, "failed")
    /\ NoFileChange

(***************************************************************************)
(* Saving: a temporary file of its own, synced and renamed, and removed    *)
(* when a step fails.                                                      *)
(***************************************************************************)
OpensTemporary(c) ==
    /\ tuning[c].at = "saves"
    /\ tempFiles' = tempFiles \cup {c}
    /\ Reaches(c, "writes")
    /\ UNCHANGED <<values, relayKey, saver, environment, signals>>

\* Mutant: setup's answers are laid over what the file holds by then.
RenamesMerged(c) ==
    /\ tuning[c].at = "writes"
    /\ values' = IF tuning[c].kind # "setup" THEN tuning[c].next
                 ELSE [f \in DOMAIN values |->
                          IF tuning[c].next[f] # tuning[c].base[f] THEN tuning[c].next[f]
                          ELSE values[f]]
    /\ saver' = c
    /\ tempFiles' = tempFiles \ {c}
    /\ Reaches(c, "done")
    /\ UNCHANGED <<relayKey, environment, signals>>

RenamesConfig(c) ==
    /\ tuning[c].at = "writes"
    /\ values' = tuning[c].next
    /\ saver' = c
    /\ tempFiles' = tempFiles \ {c}
    /\ Reaches(c, "done")
    /\ UNCHANGED <<relayKey, environment, signals>>

\* Values that are not valid together, and a symbolic link, are refused.
SaveRefused(c) ==
    /\ tuning[c].at = "saves"
    /\ Reaches(c, "failed")
    /\ NoFileChange

SaveFails(c) ==
    /\ tuning[c].at = "writes"
    /\ tempFiles' = tempFiles \ {c}
    /\ Reaches(c, "failed")
    /\ UNCHANGED <<values, relayKey, saver, environment, signals>>

(***************************************************************************)
(* "pbox relay keygen": the key is written first, then the configuration   *)
(* names it.                                                               *)
(***************************************************************************)
LooksForKey(c) ==
    /\ tuning[c].kind = "keygen" /\ tuning[c].at = "start"
    /\ Reaches(c, IF relayKey # "nobody" /\ ~tuning[c].option THEN "failed" ELSE "generates")
    /\ NoFileChange

\* The file is written in place: it is truncated first, which ends the key that was there.
OpensKey(c) ==
    /\ tuning[c].at = "generates"
    /\ \/ /\ relayKey' = "cut"
          /\ Tuned(c, [tuning[c] EXCEPT !.at = "fills", !.replaced = relayKey, !.wrote = "some"])
       \/ Reaches(c, "failed") /\ UNCHANGED relayKey
    /\ UNCHANGED <<values, tempFiles, saver, environment, signals>>

\* The write, which may fail on the way, over what another keygen wrote too; then the
\* permissions, which may fail.
Generates(c) ==
    /\ tuning[c].at = "fills"
    /\ \/ /\ relayKey' = c
          /\ \E then \in {"loads", "failed"} :
                 Tuned(c, [tuning[c] EXCEPT !.at = then, !.wrote = "all"])
       \/ relayKey' \in {relayKey, "cut"} /\ Reaches(c, "failed")
    /\ UNCHANGED <<values, tempFiles, saver, environment, signals>>

NamesKey(c) ==
    /\ tuning[c].at = "loads"
    /\ Tuned(c, [tuning[c] EXCEPT !.at = "saves", !.base = values,
                                   !.next = [values EXCEPT !.key = "made"]])
    /\ NoFileChange

(***************************************************************************)
(* The prompt for a secret.  Handlers for the signals that end a program   *)
(* are installed, echo is turned off, and every end of the prompt restores *)
(* both.  The runtime installs a handler once in a process, so that a      *)
(* second prompt runs under the dispositions the first one restored.       *)
(***************************************************************************)
PromptOpens(c) ==
    /\ \/ SecretAsked(c) /\ tuning[c].at = "start"
       \/ tuning[c].at = "prompts"
    /\ Tuned(c, [tuning[c] EXCEPT !.at = "asks", !.echo = FALSE,
                                   !.asked = IF @ = 0 THEN 1 ELSE 2])
    /\ NoFileChange

SecretTyped(c) ==
    /\ tuning[c].at = "asks"
    /\ IF tuning[c].kind = "set" THEN Tuned(c, [tuning[c] EXCEPT !.at = "answered", !.echo = TRUE])
       ELSE Tuned(c, [tuning[c] EXCEPT !.at = "discovers", !.echo = TRUE, !.typed = TRUE,
                      !.next = [tuning[c].next EXCEPT !.identity = 2]])
    /\ NoFileChange

\* An empty line keeps the secret there is; there must be one.
SecretLeftOut(c) ==
    /\ tuning[c].at = "asks" /\ tuning[c].kind = "setup"
    /\ Tuned(c, [tuning[c] EXCEPT !.at = IF tuning[c].base.identity = 0 THEN "prompts"
                                        ELSE "discovers",
                                  !.echo = TRUE])
    /\ NoFileChange

PromptEnds(c) ==
    /\ tuning[c].at = "asks"
    /\ Tuned(c, [tuning[c] EXCEPT !.at = "failed", !.echo = TRUE])
    /\ NoFileChange

\* A signal to the prompt: caught at the first one.
Interrupted(c) ==
    /\ tuning[c].at = "asks" /\ signals < MaxSignals
    /\ signals' = signals + 1
    /\ Tuned(c, IF tuning[c].asked = 1 THEN [tuning[c] EXCEPT !.at = "failed", !.echo = TRUE]
                ELSE [tuning[c] EXCEPT !.at = "killed"])
    /\ UNCHANGED <<values, tempFiles, relayKey, saver, environment>>

Over(c) == tuning[c].at \in {"done", "failed", "killed"}
SettingKilled(c) ==
    /\ ~Over(c) /\ signals < MaxSignals
    /\ signals' = signals + 1
    /\ Reaches(c, "killed")
    /\ UNCHANGED <<values, tempFiles, relayKey, saver, environment>>

(***************************************************************************)
(* "pbox setup": values are loaded once and the answers applied to them.   *)
(***************************************************************************)
\* A prompt repeats until the value is valid; an empty line keeps the old one.
UrlsAccepted == {values.url, 2} \ {0}
StartsSetup(c) ==
    /\ tuning[c].kind = "setup" /\ tuning[c].at = "start"
    /\ \E url \in UrlsAccepted, otherToken \in BOOLEAN :
           Tuned(c, [tuning[c] EXCEPT !.at = "prompts", !.base = values, !.typed = otherToken,
                     !.next = [values EXCEPT !.url = url,
                                             !.identity = IF otherToken THEN 2 ELSE @]])
    /\ NoFileChange

PromptInputEnds(c) ==
    /\ tuning[c].at \in {"prompts", "retries", "answers", "confirms"}
    /\ Reaches(c, "failed")
    /\ NoFileChange

\* Nodes, storages and bridges are only offered; a discovery that fails is
\* tried again or done without, and one that is not to be verified is left out.
OffersChoices(c) ==
    /\ tuning[c].at = "discovers"
    /\ Reaches(c, "answers")
    /\ NoFileChange

DiscoveryFails(c) ==
    /\ tuning[c].at = "discovers" /\ ~tuning[c].option
    /\ Reaches(c, "retries")
    /\ NoFileChange

RetryAnswered(c) ==
    /\ tuning[c].at = "retries"
    /\ \E then \in {"discovers", "answers"} : Reaches(c, then)
    /\ NoFileChange

\* The answers over the values that were loaded.
WithConnection(v, answers) ==
    [v EXCEPT !.url = answers.url, !.identity = answers.identity]
Applied(c) == WithConnection(tuning[c].base, tuning[c].next)

\* Another token ID, or a secret that was typed.
IdentityChanges(c) == tuning[c].base.identity # 0 /\ tuning[c].typed
AnswersGiven(c) ==
    /\ tuning[c].at = "answers"
    /\ Tuned(c, [tuning[c] EXCEPT !.at = IF IdentityChanges(c) THEN "confirms"
                        ELSE IF tuning[c].option THEN "saves" ELSE "verifies",
                 !.next = Applied(c)])
    /\ NoFileChange

\* A refusal ends the command like the end of the input.
Confirms(c) ==
    /\ tuning[c].at = "confirms"
    /\ Tuned(c, [tuning[c] EXCEPT !.confirmed = TRUE,
                    !.at = IF tuning[c].option THEN "saves" ELSE "verifies"])
    /\ NoFileChange

\* A request to PVE with the new values; they are not saved when it fails.
VerifiesConnection(c) ==
    /\ tuning[c].at = "verifies"
    /\ \/ Reaches(c, "failed")
       \/ Tuned(c, [tuning[c] EXCEPT !.at = "saves", !.verified = tuning[c].next])
    /\ NoFileChange

SettingStep(c) ==
    \/ LoadsConfig(c) \/ Edits(c) \/ LoadFails(c) \/ ValueRejected(c)
    \/ OpensTemporary(c) \/ RenamesConfig(c) \/ SaveRefused(c) \/ SaveFails(c)
    \/ LooksForKey(c) \/ OpensKey(c) \/ Generates(c) \/ NamesKey(c)
    \/ PromptOpens(c) \/ SecretTyped(c) \/ SecretLeftOut(c) \/ PromptEnds(c)
    \/ StartsSetup(c) \/ PromptInputEnds(c) \/ OffersChoices(c) \/ DiscoveryFails(c) \/ RetryAnswered(c)
    \/ AnswersGiven(c) \/ Confirms(c) \/ VerifiesConnection(c)
ConfigNext == \E c \in Settings : SettingStep(c) \/ Interrupted(c) \/ SettingKilled(c)

ConfigSpec == ConfigInit /\ [][ConfigNext]_configVars

ConfigTypeOK ==
    /\ values \in Values
    /\ tempFiles \subseteq Settings
    /\ relayKey \in Settings \cup {"nobody", "user", "cut"}
    /\ saver \in Settings \cup {"user"}
    /\ environment \in BOOLEAN /\ signals \in 0..MaxSignals
    /\ \A c \in Settings : {tuning[c].base, tuning[c].next, tuning[c].verified} \subseteq Values

\* A temporary file is that of a command which is writing it or was killed.
TempFilesOwned == \A c \in tempFiles : tuning[c].at \in {"writes", "killed"}

\* What overrides a value for one command is never saved by another.
OverridesStayOut == values.url \notin {FromEnvironment, FromArgument}

\* After a setup that says so, the file holds the connection it verified.
VerifiedSaved ==
    \A c \in Settings :
        (saver = c /\ tuning[c].kind = "setup" /\ ~tuning[c].option) =>
            /\ values.url = tuning[c].verified.url
            /\ values.identity = tuning[c].verified.identity

\* A setup that did not ask saves the token it loaded, or it loaded none: it may put that
\* back over one that another command saved during its prompts, and brings in no other.
IdentityAsked ==
    \A c \in Settings :
        (saver = c /\ tuning[c].kind = "setup") =>
            \/ tuning[c].confirmed \/ tuning[c].base.identity = 0
            \/ values.identity = tuning[c].base.identity

\* Where the configuration names the file that a keygen made it is there; it is cut off
\* only by a keygen that is writing it or was stopped in that; and a key of before is
\* replaced only when that was asked for.  A path given to "config set" is anything.
KeyThere ==
    /\ values.key = "made" => relayKey # "nobody"
    /\ relayKey = "cut" => \E c \in Settings : tuning[c].wrote = "some"
    /\ \A c \in Settings : tuning[c].replaced = "user" => tuning[c].option

\* Echo is off at a prompt only, or where a prompt was killed.
EchoReturns == \A c \in Settings : tuning[c].echo \/ tuning[c].at \in {"asks", "killed"}
=============================================================================
