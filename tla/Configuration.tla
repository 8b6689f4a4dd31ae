---------------------------- MODULE Configuration ----------------------------
(***************************************************************************)
(* core/config_manager.rs: the cascade of environment and files a command  *)
(* takes its configuration from, with the two that feed it: the setup      *)
(* wizard (cli/setup_wizard.rs), which persists what the operator answers, *)
(* and main.rs, whose `start` and `http` set environment variables first.  *)
(* Commands are launched while a wizard writes.                            *)
(*                                                                         *)
(* A layer of the cascade is a function from the keys it has to values.  A *)
(* file that is missing, empty or no YAML mapping is a layer without keys. *)
(* Operators write some layers by hand, with as few of the keys as they    *)
(* like.  The url and the api_version that belong together are named by    *)
(* the wizard that was given them, or by Operator.  One key, port, stands  *)
(* for the three flags of `http`, and the keys that nothing but a default  *)
(* gives a value are left out.  The file in the directory of installation  *)
(* is, like the system's, written by no program: one stands for both.      *)
(***************************************************************************)
EXTENDS Naturals

CONSTANTS Wizards,
          Launches,
          Dirs,       \* working directories
          ByHand,     \* the layers that operators write by hand
          Operator,   \* the deployment that those are about
          None        \* no answer, no directory

Empty == <<>>

Places == {"env", "global", "local", "cli"}

Transports == {"stdio", "http"}

Keys == {"url", "auth_method", "api_version", "transport", "port"}

\* The variables of an environment that load_config does not read.
Credentials == {"username", "password"}

Value == [url |-> Wizards \cup {Operator},
          auth_method |-> {"basic"},
          api_version |-> Wizards \cup {Operator, "4.3.2"},
          transport |-> Transports,
          port |-> {"flag", "3000"}]

IsLayer(f) == DOMAIN f \subseteq Keys /\ \A k \in DOMAIN f : f[k] \in Value[k]

ASSUME ConfigurationAssumption ==
    /\ None \notin Wizards \cup Dirs
    /\ Empty \in ByHand /\ \A f \in ByHand : IsLayer(f)

VARIABLES
    dotenv,     \* the .env file of each directory
    local,      \* its rabbitmq-mcp.config.yml
    global,     \* ~/.rabbitmq-mcp/config.yml
    system,     \* /etc/rabbitmq-mcp/config.yml, written by no program
    phase,      \* of each wizard
    answers,    \* what it was told
    pc,         \* of each launched command
    dir,        \* its working directory
    found,      \* the layers it has read, merged
    config,     \* what load_config returned
    savedLocal, \* history: the settings meant to be in each local file
    savedGlobal,\* history: those meant to be in the global file
    expected,   \* history: the settings a launch is to find
    disturbed,  \* history: launches during which a wizard wrote
    patchy      \* history: launches with a layer that has a url or a version alone

files == <<dotenv, local, global, system>>
wizards == <<phase, answers, savedLocal, savedGlobal>>
commands == <<pc, dir, found, config, expected, patchy>>
vars == <<files, wizards, commands, disturbed>>

\* Map::extend: layer f merged on top of layer g, key by key.
Over(f, g) ==
    [k \in DOMAIN f \cup DOMAIN g |-> IF k \in DOMAIN f THEN f[k] ELSE g[k]]

\* env_overrides: the variables that have a name of its list.
EnvOverrides(env) == [k \in DOMAIN env \cap Keys |-> env[k]]

TypeOK ==
    /\ \A d \in Dirs : /\ DOMAIN dotenv[d] \subseteq Keys \cup Credentials
                       /\ IsLayer(EnvOverrides(dotenv[d])) /\ IsLayer(local[d])
    /\ IsLayer(global) /\ IsLayer(system)
    /\ phase \in [Wizards -> {"asking", "writing", "done", "failed"}]
    /\ answers \in [Wizards -> [place : Places \cup {None}, dir : Dirs \cup {None},
                                transport : Transports]]
    /\ pc \in [Launches -> {"idle", "local", "global", "system", "done", "failed"}]
    /\ dir \in [Launches -> Dirs \cup {None}]
    /\ \A l \in Launches : IsLayer(found[l]) /\ IsLayer(config[l]) /\ IsLayer(expected[l])
    /\ \A d \in Dirs : IsLayer(savedLocal[d])
    /\ IsLayer(savedGlobal)
    /\ disturbed \subseteq Launches
    /\ patchy \subseteq Launches

\* No wizard has run; there may be files written by hand.
Init ==
    /\ dotenv = [d \in Dirs |-> Empty]
    /\ local \in [Dirs -> ByHand]
    /\ global \in ByHand
    /\ system \in ByHand
    /\ phase = [u \in Wizards |-> "asking"]
    /\ answers = [u \in Wizards |-> [place |-> None, dir |-> None, transport |-> "stdio"]]
    /\ pc = [l \in Launches |-> "idle"]
    /\ dir = [l \in Launches |-> None]
    /\ found = [l \in Launches |-> Empty]
    /\ config = [l \in Launches |-> Empty]
    /\ savedLocal = local
    /\ savedGlobal = global
    /\ expected = [l \in Launches |-> Empty]
    /\ disturbed = {}
    /\ patchy = {}

Reading == {l \in Launches : pc[l] \in {"local", "global", "system"}}

-----------------------------------------------------------------------------
(* run_setup_wizard, after its prompts                                      *)

\* What wizard u was told.
Settings(u) == [url |-> u, auth_method |-> "basic", api_version |-> u,
                transport |-> answers[u].transport]

\* build_runtime_settings: the environment of the server to be, ...
RuntimeEnv(u) == Over(Settings(u), [k \in Credentials |-> u])

\* Mutant: the version is forgotten.
ConfigFieldsUnversioned(u) ==
    [k \in {"url", "auth_method", "transport"} |-> RuntimeEnv(u)[k]]

\* Mutant: all of the environment goes to the file.
ConfigFieldsWithUser(u) == RuntimeEnv(u)

\* ... and the fields picked from it that go to a config.yml file.
ConfigFields(u) ==
    [k \in {"url", "auth_method", "api_version", "transport"} |-> RuntimeEnv(u)[k]]

\* The file that answer a is about now has `contents`.  "cli" is printed only.
Puts(a, contents) ==
    /\ dotenv' = IF a.place = "env" THEN [dotenv EXCEPT ![a.dir] = contents] ELSE dotenv
    /\ local' = IF a.place = "local" THEN [local EXCEPT ![a.dir] = contents] ELSE local
    /\ global' = IF a.place = "global" THEN contents ELSE global
    /\ system' = system

\* The settings that are meant to be there from now on.
Saves(a, settings) ==
    /\ savedLocal' = IF a.place = "local" THEN [savedLocal EXCEPT ![a.dir] = settings]
                     ELSE savedLocal
    /\ savedGlobal' = IF a.place = "global" THEN settings ELSE savedGlobal

\* The operator, who runs one wizard at a time, has answered all it asks.  The first
\* half of fs::write: the file is truncated, the settings in it are lost.
Answered(u, place, d, t) ==
    /\ \A w \in Wizards : phase[w] # "writing"
    /\ phase[u] = "asking"
    /\ phase' = [phase EXCEPT ![u] = "writing"]
    /\ answers' = [answers EXCEPT ![u] = [place |-> place, dir |-> d, transport |-> t]]
    /\ Puts(answers'[u], Empty)
    /\ Saves(answers'[u], Empty)
    /\ disturbed' = disturbed \cup Reading
    /\ UNCHANGED commands

Contents(u) == IF answers[u].place = "env" THEN RuntimeEnv(u) ELSE ConfigFields(u)

\* A wizard that ends forgets where it was to write.
Ends(u, how) ==
    /\ phase[u] = "writing"
    /\ phase' = [phase EXCEPT ![u] = how]
    /\ answers' = [answers EXCEPT ![u].place = None, ![u].dir = None]

\* The second half; then the wizard prints what a client needs, and ends.
Persist(u) ==
    /\ Ends(u, "done")
    /\ Puts(answers[u], Contents(u))
    /\ Saves(answers[u], Settings(u))
    /\ UNCHANGED <<commands, disturbed>>

\* It fails or is stopped instead.
PersistFails(u) ==
    /\ Ends(u, "failed")
    /\ UNCHANGED <<files, savedLocal, savedGlobal, commands, disturbed>>

-----------------------------------------------------------------------------
(* The commands                                                             *)

\* The commands that load a configuration: the two servers and all others.
Commands == {"start", "http", "other"}

\* What main sets in the environment before it calls run_harness_server.
CommandEnv(command, flagged) ==
    CASE command = "start" -> [transport |-> "stdio"]
      [] command = "http"  -> IF flagged THEN [transport |-> "http", port |-> "flag"]
                              ELSE [transport |-> "http"]
      [] OTHER             -> Empty

\* The wizards that printed an environment: a client of stdio starts its server.
Printed == {u \in Wizards : phase[u] = "done" /\ answers[u].transport = "stdio"}

\* The environments a command may be given: some of the program's variables, set by
\* hand, or none; the block a wizard printed for the client; a .env file that docker
\* compose reads.
Environments ==
    ByHand \cup {RuntimeEnv(u) : u \in Printed} \cup {dotenv[d] : d \in Dirs}

\* The layer names url and api_version together or neither of them.
Matched(f) ==
    /\ "url" \in DOMAIN f <=> "api_version" \in DOMAIN f
    /\ "url" \in DOMAIN f => f["url"] = f["api_version"]

\* The layers read first win over those read later.
Launch(l, command, flagged, d, env) ==
    LET given == Over(CommandEnv(command, flagged), EnvOverrides(env)) IN
    /\ pc[l] = "idle"
    /\ pc' = [pc EXCEPT ![l] = "local"]
    /\ dir' = [dir EXCEPT ![l] = d]
    /\ found' = [found EXCEPT ![l] = given]
    /\ expected' = [expected EXCEPT
                       ![l] = Over(given, Over(savedLocal[d], Over(savedGlobal, system)))]
    /\ patchy' = IF \A f \in {given, savedLocal[d], savedGlobal, system} : Matched(f)
                 THEN patchy ELSE patchy \cup {l}
    /\ disturbed' = IF \E u \in Wizards : phase[u] = "writing"
                    THEN disturbed \cup {l} ELSE disturbed
    /\ UNCHANGED <<files, wizards, config>>

ReadLocal(l) ==
    /\ pc[l] = "local"
    /\ pc' = [pc EXCEPT ![l] = "global"]
    /\ found' = [found EXCEPT ![l] = Over(@, local[dir[l]])]
    /\ UNCHANGED <<files, wizards, dir, config, expected, patchy, disturbed>>

\* Mutant: the layers are merged the other way round.
ReadGlobalOver(l) ==
    /\ pc[l] = "global"
    /\ pc' = [pc EXCEPT ![l] = "system"]
    /\ found' = [found EXCEPT ![l] = Over(global, @)]
    /\ UNCHANGED <<files, wizards, dir, config, expected, patchy, disturbed>>

ReadGlobal(l) ==
    /\ pc[l] = "global"
    /\ pc' = [pc EXCEPT ![l] = "system"]
    /\ found' = [found EXCEPT ![l] = Over(@, global)]
    /\ UNCHANGED <<files, wizards, dir, config, expected, patchy, disturbed>>

\* The defaults of Config.
Defaults == [api_version |-> "4.3.2", transport |-> "stdio", port |-> "3000"]

\* serde_json::from_value: url and auth_method have no default.
Resolve(l) ==
    LET merged == Over(found[l], system) IN
    /\ pc[l] = "system"
    /\ IF {"url", "auth_method"} \subseteq DOMAIN merged
       THEN /\ pc' = [pc EXCEPT ![l] = "done"]
            /\ config' = [config EXCEPT ![l] = Over(merged, Defaults)]
       ELSE /\ pc' = [pc EXCEPT ![l] = "failed"]
            /\ config' = config
    /\ found' = [found EXCEPT ![l] = Empty]
    /\ UNCHANGED <<files, wizards, dir, expected, patchy, disturbed>>

Next ==
    \/ \E u \in Wizards :
          \/ \E place \in Places, d \in Dirs, t \in Transports : Answered(u, place, d, t)
          \/ Persist(u) \/ PersistFails(u)
    \/ \E l \in Launches :
          \/ \E command \in Commands, flagged \in BOOLEAN, d \in Dirs,
                env \in Environments : Launch(l, command, flagged, d, env)
          \/ ReadLocal(l) \/ ReadGlobal(l) \/ Resolve(l)

Spec == Init /\ [][Next]_vars

-----------------------------------------------------------------------------
\* Setting by setting, a command has what the first of these says: its own flags, its
\* environment, what was last saved for its directory, what was last saved globally,
\* the system's file, the defaults; it is refused only if none says what url or what
\* auth_method.  A wizard that writes meanwhile is the exception: its file reads as
\* empty.
SetupTakesHold ==
    \A l \in Launches \ disturbed :
        /\ pc[l] = "done" => config[l] = Over(expected[l], Defaults)
        /\ pc[l] = "failed" => ~({"url", "auth_method"} \subseteq DOMAIN expected[l])

\* A command asks a server in the API version of another one, or in the default one,
\* only if it was given a url or a version without the other: the wizards' files and
\* environments do no such thing, whatever is written while they are read.
MixedOnlyByGaps ==
    \A l \in Launches \ patchy :
        pc[l] = "done" => config[l]["api_version"] = config[l]["url"]
=============================================================================
