------------------------ MODULE ConfigurationProofs ------------------------
(***************************************************************************)
(* Proofs about Configuration, for any wizards, launched commands and      *)
(* directories, and any layers that operators write by hand.               *)
(***************************************************************************)
EXTENDS Configuration, TLAPS

AreFunctions ==
    /\ dotenv = [d \in Dirs |-> dotenv[d]]
    /\ local = [d \in Dirs |-> local[d]]
    /\ found = [l \in Launches |-> found[l]]
    /\ config = [l \in Launches |-> config[l]]
    /\ expected = [l \in Launches |-> expected[l]]

\* A wizard that writes knows where, and has disturbed all that are reading.
WritersKnown ==
    \A u \in Wizards : phase[u] = "writing" =>
        /\ answers[u].place \in Places /\ answers[u].dir \in Dirs
        /\ Reading \subseteq disturbed

\* The files are what they are meant to be.
SavedIsThere == local = savedLocal /\ global = savedGlobal

\* A launch that no wizard disturbs is to find what it has found and what the layers
\* it has still to read say.
OnTrack(l) ==
    /\ pc[l] = "local" =>
          expected[l] = Over(found[l], Over(local[dir[l]], Over(global, system)))
    /\ pc[l] = "global" => expected[l] = Over(found[l], Over(global, system))
    /\ pc[l] = "system" => expected[l] = Over(found[l], system)

\* One that is not patchy has found no gap and will find none.
GapFree(l) ==
    /\ pc[l] \in {"local", "global", "system"} => Matched(found[l]) /\ Matched(system)
    /\ pc[l] \in {"local", "global"} => Matched(global)
    /\ pc[l] = "local" => Matched(local[dir[l]])

LaunchesOnTrack ==
    /\ \A l \in Launches : pc[l] = "local" => dir[l] \in Dirs
    /\ \A l \in Launches \ disturbed : OnTrack(l)
    /\ \A l \in Launches \ patchy : GapFree(l)

Parts ==
    /\ AreFunctions /\ WritersKnown /\ SavedIsThere /\ LaunchesOnTrack
    /\ SetupTakesHold /\ MixedOnlyByGaps

IInv == TypeOK /\ Parts

-----------------------------------------------------------------------------
(* Layers                                                                   *)

LEMMA OverIsLayer ==
    ASSUME NEW f, NEW g, IsLayer(f), IsLayer(g)
    PROVE  IsLayer(Over(f, g))
  BY DEF Over, IsLayer

\* Merging is associative: layers may be merged from either end of the cascade.
LEMMA OverAssociative ==
    ASSUME NEW f, NEW g, NEW h
    PROVE  Over(Over(f, g), h) = Over(f, Over(g, h))
  BY DEF Over

\* Merging key by key makes no gap in two layers that have none.
LEMMA OverMatched ==
    ASSUME NEW f, NEW g, Matched(f), Matched(g)
    PROVE  Matched(Over(f, g))
<1>1. CASE "url" \in DOMAIN f
  BY <1>1 DEF Over, Matched
<1>2. CASE "url" \notin DOMAIN f
  BY <1>2 DEF Over, Matched
<1>3. QED
  BY <1>1, <1>2

LEMMA EmptyLayer == IsLayer(Empty) /\ Matched(Empty) /\ DOMAIN Empty = {}
  BY DEF Empty, IsLayer, Matched

\* What a wizard was told is a layer without a gap.
LEMMA SettingsLayer ==
    ASSUME TypeOK, NEW u \in Wizards
    PROVE  /\ IsLayer(Settings(u)) /\ Matched(Settings(u))
           /\ DOMAIN Settings(u) = {"url", "auth_method", "api_version", "transport"}
<1>1. answers[u].transport \in Transports
  BY DEF TypeOK
<1>2. DOMAIN Settings(u) = {"url", "auth_method", "api_version", "transport"}
  BY DEF Settings
<1>3. /\ Settings(u)["url"] = u /\ Settings(u)["auth_method"] = "basic"
      /\ Settings(u)["api_version"] = u /\ Settings(u)["transport"] = answers[u].transport
  BY DEF Settings
<1>4. QED
  BY <1>1, <1>2, <1>3 DEF IsLayer, Keys, Value, Matched

\* What it writes to a config.yml is what it was told, and what a command takes from
\* its environment, too: the credentials are dropped on either way.
LEMMA WizardLayer ==
    ASSUME TypeOK, NEW u \in Wizards
    PROVE  /\ ConfigFields(u) = Settings(u)
           /\ EnvOverrides(RuntimeEnv(u)) = Settings(u)
           /\ DOMAIN RuntimeEnv(u) \subseteq Keys \cup Credentials
<1> DEFINE Fields == {"url", "auth_method", "api_version", "transport"}
<1>1. DOMAIN Settings(u) = Fields /\ Settings(u) = [k \in Fields |-> Settings(u)[k]]
  BY DEF Settings
<1>2. DOMAIN RuntimeEnv(u) = Fields \cup Credentials
  BY <1>1 DEF RuntimeEnv, Over
<1>3. \A k \in Fields : RuntimeEnv(u)[k] = Settings(u)[k]
  BY <1>1 DEF RuntimeEnv, Over
<1>4. (Fields \cup Credentials) \cap Keys = Fields
  BY DEF Credentials, Keys
<1>5. QED
  BY <1>1, <1>2, <1>3, <1>4 DEF ConfigFields, EnvOverrides, Keys

LEMMA CommandLayer ==
    ASSUME NEW command \in Commands, NEW flagged \in BOOLEAN
    PROVE  IsLayer(CommandEnv(command, flagged))
  BY EmptyLayer DEF CommandEnv, IsLayer, Keys, Value, Transports

\* Whatever environment a command is given, it takes a layer from it.
LEMMA EnvironmentLayer ==
    ASSUME TypeOK, NEW env \in Environments
    PROVE  IsLayer(EnvOverrides(env))
<1>1. CASE env \in ByHand
  BY <1>1, ConfigurationAssumption DEF EnvOverrides, IsLayer
<1>2. CASE \E u \in Wizards : env = RuntimeEnv(u)
  BY <1>2, WizardLayer, SettingsLayer
<1>3. CASE \E d \in Dirs : env = dotenv[d]
  BY <1>3 DEF TypeOK
<1>4. QED
  BY <1>1, <1>2, <1>3 DEF Environments, Printed

-----------------------------------------------------------------------------
(* What a wizard writes                                                     *)

LEMMA PutAt ==
    ASSUME AreFunctions, NEW a, NEW contents, Puts(a, contents)
    PROVE  /\ \A d \in Dirs : /\ dotenv'[d] = IF a.place = "env" /\ a.dir = d
                                              THEN contents ELSE dotenv[d]
                              /\ local'[d] = IF a.place = "local" /\ a.dir = d
                                             THEN contents ELSE local[d]
           /\ global' = IF a.place = "global" THEN contents ELSE global
           /\ system' = system
           /\ dotenv' = [d \in Dirs |-> dotenv'[d]]
           /\ local' = [d \in Dirs |-> local'[d]]
  BY DEF Puts, AreFunctions

\* Nothing, the whole of a file or, in a .env file, the whole of an environment is put
\* at a place; what is meant to be there is what a file has.
Writes(a, contents, settings) ==
    /\ Puts(a, contents) /\ Saves(a, settings)
    /\ IsLayer(settings) /\ Matched(settings)
    /\ a.place \in {"local", "global"} => contents = settings
    /\ IsLayer(EnvOverrides(contents)) /\ DOMAIN contents \subseteq Keys \cup Credentials
    /\ UNCHANGED <<commands>>
    /\ Reading \subseteq disturbed'
    /\ disturbed \subseteq disturbed' /\ disturbed' \subseteq Launches

LEMMA WriteKeepsIInv ==
    ASSUME TypeOK, Parts, NEW a, NEW contents, NEW settings,
           Writes(a, contents, settings),
           phase' \in [Wizards -> {"asking", "writing", "done", "failed"}],
           answers' \in [Wizards -> [place : Places \cup {None}, dir : Dirs \cup {None},
                                     transport : Transports]],
           \A u \in Wizards : phase'[u] = "writing" =>
               answers'[u].place \in Places /\ answers'[u].dir \in Dirs
    PROVE  TypeOK' /\ Parts'
<1> USE DEF Writes
<1>1. /\ \A d \in Dirs : /\ DOMAIN dotenv'[d] \subseteq Keys \cup Credentials
                         /\ IsLayer(EnvOverrides(dotenv'[d])) /\ IsLayer(local'[d])
      /\ IsLayer(global') /\ IsLayer(system')
  BY PutAt DEF TypeOK, Parts
<1>2. AreFunctions'
  BY PutAt DEF commands, Parts, AreFunctions
<1>3. SavedIsThere'
  BY DEF Puts, Saves, Parts, SavedIsThere
<1>4. TypeOK'
  BY <1>1, <1>3 DEF commands, TypeOK, SavedIsThere
<1>5. Reading' = Reading
  BY DEF commands, Reading
<1>6. WritersKnown'
  BY <1>5 DEF WritersKnown
<1>7. LaunchesOnTrack'
  <2>1. \A l \in Launches \ disturbed' : pc[l] \notin {"local", "global", "system"}
    BY DEF Reading
  <2>2. ASSUME NEW l \in Launches \ patchy PROVE GapFree(l)'
    <3>1. GapFree(l) /\ (pc[l] = "local" => dir[l] \in Dirs)
      BY <2>2 DEF Parts, LaunchesOnTrack
    <3>2. system' = system
      BY PutAt DEF Parts
    <3>3. global' \in {global, settings}
      BY PutAt DEF Parts
    <3>4. pc[l] = "local" => local'[dir[l]] \in {local[dir[l]], settings}
      BY <3>1, PutAt DEF Parts
    <3>5. QED
      BY <3>1, <3>2, <3>3, <3>4 DEF commands, GapFree
  <2>3. QED
    BY <2>1, <2>2 DEF commands, Parts, LaunchesOnTrack, OnTrack
<1>8. SetupTakesHold' /\ MixedOnlyByGaps'
  BY DEF commands, Parts, SetupTakesHold, MixedOnlyByGaps
<1>9. QED
  BY <1>2, <1>3, <1>4, <1>6, <1>7, <1>8 DEF Parts

-----------------------------------------------------------------------------
LEMMA InitIInv == Init => IInv
<1> SUFFICES ASSUME Init PROVE IInv
  OBVIOUS
<1>1. /\ \A d \in Dirs : IsLayer(local[d]) /\ IsLayer(savedLocal[d])
      /\ IsLayer(global) /\ IsLayer(system) /\ IsLayer(savedGlobal)
  BY ConfigurationAssumption DEF Init
<1>2. EnvOverrides(Empty) = Empty
  BY DEF EnvOverrides, Empty
<1>3. TypeOK
  <2>1. answers \in [Wizards -> [place : Places \cup {None}, dir : Dirs \cup {None},
                                 transport : Transports]]
    BY DEF Init, Transports
  <2>2. QED
    BY <1>1, <1>2, <2>1, EmptyLayer DEF Init, TypeOK
<1>4. AreFunctions /\ SavedIsThere
  BY DEF Init, AreFunctions, SavedIsThere
<1>5. WritersKnown /\ LaunchesOnTrack /\ SetupTakesHold /\ MixedOnlyByGaps
  BY DEF Init, WritersKnown, LaunchesOnTrack, OnTrack, GapFree, SetupTakesHold,
     MixedOnlyByGaps
<1>6. QED
  BY <1>3, <1>4, <1>5 DEF IInv, Parts

LEMMA AnsweredKeepsIInv ==
    ASSUME TypeOK, Parts, NEW u \in Wizards, NEW place \in Places, NEW d \in Dirs,
           NEW t \in Transports, Answered(u, place, d, t)
    PROVE  TypeOK' /\ Parts'
<1>1. /\ answers'[u] = [place |-> place, dir |-> d, transport |-> t]
      /\ \A w \in Wizards \ {u} : answers'[w] = answers[w]
      /\ answers' \in [Wizards -> [place : Places \cup {None}, dir : Dirs \cup {None},
                                   transport : Transports]]
  BY DEF Answered, TypeOK
<1>2. phase' \in [Wizards -> {"asking", "writing", "done", "failed"}]
      /\ \A w \in Wizards \ {u} : phase'[w] # "writing"
  BY DEF Answered, TypeOK
<1>3. disturbed' = disturbed \cup Reading /\ Reading \subseteq Launches
  BY DEF Answered, Reading
<1>4. EnvOverrides(Empty) = Empty
  BY DEF EnvOverrides, Empty
<1>5. Writes(answers'[u], Empty, Empty)
  BY <1>3, <1>4, EmptyLayer DEF Answered, Writes, TypeOK
<1>6. \A w \in Wizards : phase'[w] = "writing" =>
          answers'[w].place \in Places /\ answers'[w].dir \in Dirs
  BY <1>1, <1>2
<1>7. QED
  BY <1>1, <1>2, <1>5, <1>6, WriteKeepsIInv

\* How a wizard that ends leaves the wizards.
LEMMA EndsAt ==
    ASSUME TypeOK, Parts, NEW u \in Wizards, NEW how \in {"done", "failed"}, Ends(u, how)
    PROVE  /\ phase' \in [Wizards -> {"asking", "writing", "done", "failed"}]
           /\ answers' \in [Wizards -> [place : Places \cup {None}, dir : Dirs \cup {None},
                                         transport : Transports]]
           /\ \A w \in Wizards : phase'[w] = "writing" =>
                  /\ phase[w] = "writing"
                  /\ answers'[w].place \in Places /\ answers'[w].dir \in Dirs
<1>1. phase' \in [Wizards -> {"asking", "writing", "done", "failed"}]
      /\ \A w \in Wizards : phase'[w] = "writing" => w # u /\ phase[w] = "writing"
  BY DEF Ends, TypeOK
<1>2. answers' \in [Wizards -> [place : Places \cup {None}, dir : Dirs \cup {None},
                                transport : Transports]]
      /\ \A w \in Wizards \ {u} : answers'[w] = answers[w]
  BY DEF Ends, TypeOK
<1>3. QED
  BY <1>1, <1>2 DEF Parts, WritersKnown

LEMMA PersistKeepsIInv ==
    ASSUME TypeOK, Parts, NEW u \in Wizards, Persist(u)
    PROVE  TypeOK' /\ Parts'
<1>1. Reading \subseteq disturbed
  BY DEF Persist, Ends, Parts, WritersKnown
<1>2. EnvOverrides(Settings(u)) = Settings(u)
  BY SettingsLayer DEF EnvOverrides, Keys, Settings
<1>3. IsLayer(EnvOverrides(Contents(u))) /\ DOMAIN Contents(u) \subseteq Keys \cup Credentials
  BY <1>2, SettingsLayer, WizardLayer DEF Contents, IsLayer
<1>4. answers[u].place \in {"local", "global"} => Contents(u) = Settings(u)
  BY WizardLayer DEF Contents
<1>5. Writes(answers[u], Contents(u), Settings(u))
  BY <1>1, <1>3, <1>4, SettingsLayer DEF Persist, Writes, TypeOK
<1>6. QED
  BY <1>5, EndsAt, WriteKeepsIInv DEF Persist

LEMMA PersistFailsKeepsIInv ==
    ASSUME TypeOK, Parts, NEW u \in Wizards, PersistFails(u)
    PROVE  TypeOK' /\ Parts'
<1>1. TypeOK'
  BY EndsAt DEF PersistFails, files, commands, TypeOK
<1>2. WritersKnown'
  <2>1. Reading' = Reading
    BY DEF PersistFails, commands, Reading
  <2>2. QED
    BY <2>1, EndsAt DEF PersistFails, Parts, WritersKnown
<1>3. LaunchesOnTrack'
  BY DEF PersistFails, files, commands, Parts, LaunchesOnTrack, OnTrack, GapFree
<1>4. QED
  BY <1>1, <1>2, <1>3
  DEF PersistFails, files, commands, Parts, AreFunctions, SavedIsThere, SetupTakesHold,
      MixedOnlyByGaps

LEMMA LaunchKeepsIInv ==
    ASSUME TypeOK, Parts, NEW l \in Launches, NEW command \in Commands,
           NEW flagged \in BOOLEAN, NEW d \in Dirs, NEW env \in Environments,
           Launch(l, command, flagged, d, env)
    PROVE  TypeOK' /\ Parts'
<1> DEFINE given == Over(CommandEnv(command, flagged), EnvOverrides(env))
           whole == Over(given, Over(savedLocal[d], Over(savedGlobal, system)))
           Unbroken == \A f \in {given, savedLocal[d], savedGlobal, system} : Matched(f)
<1>1. IsLayer(given) /\ IsLayer(whole)
  BY CommandLayer, EnvironmentLayer, OverIsLayer DEF TypeOK
<1>2. /\ found'[l] = given /\ pc'[l] = "local" /\ dir'[l] = d /\ expected'[l] = whole
      /\ \A m \in Launches \ {l} : /\ found'[m] = found[m] /\ pc'[m] = pc[m]
                                   /\ dir'[m] = dir[m] /\ expected'[m] = expected[m]
      /\ found' = [m \in Launches |-> found'[m]]
      /\ expected' = [m \in Launches |-> expected'[m]]
      /\ patchy' = IF Unbroken THEN patchy ELSE patchy \cup {l}
      /\ patchy \subseteq patchy' /\ disturbed \subseteq disturbed'
  BY DEF Launch, TypeOK, Parts, AreFunctions
<1>3. l \notin patchy' =>
          Matched(given) /\ Matched(local[d]) /\ Matched(global) /\ Matched(system)
  BY <1>2 DEF Parts, SavedIsThere
<1>4. whole = Over(given, Over(local[d], Over(global, system)))
  BY DEF Parts, SavedIsThere
<1> HIDE DEF given, whole, Unbroken
<1>5. TypeOK'
  <2>1. \A m \in Launches : IsLayer(found'[m]) /\ IsLayer(expected'[m])
    BY <1>1, <1>2 DEF TypeOK
  <2>2. /\ pc' \in [Launches -> {"idle", "local", "global", "system", "done", "failed"}]
        /\ dir' \in [Launches -> Dirs \cup {None}]
        /\ disturbed' \subseteq Launches /\ patchy' \subseteq Launches
    BY <1>2 DEF Launch, TypeOK
  <2>3. QED
    BY <2>1, <2>2 DEF Launch, files, wizards, TypeOK
<1>6. AreFunctions' /\ SavedIsThere'
  BY <1>2 DEF Launch, files, wizards, Parts, AreFunctions, SavedIsThere
<1>7. WritersKnown'
  <2>1. Reading' = Reading \cup {l}
    BY <1>2 DEF Reading
  <2>2. QED
    BY <2>1 DEF Launch, wizards, Parts, WritersKnown
<1>8. LaunchesOnTrack'
  <2>1. \A m \in Launches : pc'[m] = "local" => dir'[m] \in Dirs
    BY <1>2 DEF Parts, LaunchesOnTrack
  <2>2. ASSUME NEW m \in Launches \ disturbed' PROVE OnTrack(m)'
    <3>1. CASE m = l
      BY <1>2, <1>4, <3>1 DEF OnTrack, Launch, files
    <3>2. CASE m # l
      <4>1. OnTrack(m)
        BY <1>2, <2>2 DEF Parts, LaunchesOnTrack
      <4>2. QED
        BY <1>2, <3>2, <4>1 DEF Launch, files, OnTrack
    <3>3. QED
      BY <3>1, <3>2
  <2>3. ASSUME NEW m \in Launches \ patchy' PROVE GapFree(m)'
    <3>1. CASE m = l
      BY <1>2, <1>3, <2>3, <3>1 DEF GapFree, Launch, files
    <3>2. CASE m # l
      <4>1. GapFree(m)
        BY <1>2, <2>3 DEF Parts, LaunchesOnTrack
      <4>2. QED
        BY <1>2, <3>2, <4>1 DEF Launch, files, GapFree
    <3>3. QED
      BY <3>1, <3>2
  <2>4. QED
    BY <2>1, <2>2, <2>3 DEF LaunchesOnTrack
<1>9. SetupTakesHold' /\ MixedOnlyByGaps'
  BY <1>2 DEF Launch, Parts, SetupTakesHold, MixedOnlyByGaps
<1>10. QED
  BY <1>5, <1>6, <1>7, <1>8, <1>9 DEF Parts

\* A command reads one more layer, and goes on to the next.
Reads(l, to, layer) ==
    /\ pc[l] \in {"local", "global"}
    /\ pc' = [pc EXCEPT ![l] = to]
    /\ found' = [found EXCEPT ![l] = Over(found[l], layer)]
    /\ UNCHANGED <<files, wizards, dir, config, expected, patchy, disturbed>>

LEMMA ReadKeepsIInv ==
    ASSUME TypeOK, Parts, NEW l \in Launches, NEW to \in {"global", "system"}, NEW layer,
           Reads(l, to, layer), IsLayer(layer),
           l \notin disturbed => OnTrack(l)',
           l \notin patchy => GapFree(l)'
    PROVE  TypeOK' /\ Parts'
<1> USE DEF Reads
<1>1. /\ found'[l] = Over(found[l], layer) /\ pc'[l] = to
      /\ \A m \in Launches \ {l} : found'[m] = found[m] /\ pc'[m] = pc[m]
      /\ found' = [m \in Launches |-> found'[m]]
  BY DEF TypeOK, Parts, AreFunctions
<1>2. TypeOK'
  <2>1. \A m \in Launches : IsLayer(found'[m])
    BY <1>1, OverIsLayer DEF TypeOK
  <2>2. pc' \in [Launches -> {"idle", "local", "global", "system", "done", "failed"}]
    BY DEF TypeOK
  <2>3. QED
    BY <2>1, <2>2 DEF files, wizards, TypeOK
<1>3. AreFunctions' /\ SavedIsThere'
  BY <1>1 DEF files, wizards, Parts, AreFunctions, SavedIsThere
<1>4. WritersKnown'
  <2>1. Reading' = Reading
    BY <1>1 DEF Reading
  <2>2. QED
    BY <2>1 DEF wizards, Parts, WritersKnown
<1>5. LaunchesOnTrack'
  <2>1. \A m \in Launches : pc'[m] = "local" => dir'[m] \in Dirs
    BY <1>1 DEF Parts, LaunchesOnTrack
  <2>2. \A m \in Launches \ disturbed : OnTrack(m)'
    BY <1>1 DEF files, Parts, LaunchesOnTrack, OnTrack
  <2>3. \A m \in Launches \ patchy : GapFree(m)'
    BY <1>1 DEF files, Parts, LaunchesOnTrack, GapFree
  <2>4. QED
    BY <2>1, <2>2, <2>3 DEF LaunchesOnTrack
<1>6. SetupTakesHold' /\ MixedOnlyByGaps'
  BY <1>1 DEF Parts, SetupTakesHold, MixedOnlyByGaps
<1>7. QED
  BY <1>2, <1>3, <1>4, <1>5, <1>6 DEF Parts

LEMMA ReadLocalKeepsIInv ==
    ASSUME TypeOK, Parts, NEW l \in Launches, ReadLocal(l)
    PROVE  TypeOK' /\ Parts'
<1> DEFINE layer == local[dir[l]]
<1>1. dir[l] \in Dirs /\ IsLayer(layer)
  BY DEF ReadLocal, TypeOK, Parts, LaunchesOnTrack
<1>2. found'[l] = Over(found[l], layer) /\ pc'[l] = "global"
  BY DEF ReadLocal, TypeOK, Parts, AreFunctions
<1>3. ASSUME l \notin disturbed PROVE OnTrack(l)'
  <2>1. expected[l] = Over(found[l], Over(layer, Over(global, system)))
    BY <1>3 DEF ReadLocal, Parts, LaunchesOnTrack, OnTrack
  <2>2. expected[l] = Over(Over(found[l], layer), Over(global, system))
    BY <2>1, OverAssociative
  <2>3. QED
    BY <1>2, <2>2 DEF ReadLocal, files, OnTrack
<1>4. ASSUME l \notin patchy PROVE GapFree(l)'
  <2>1. GapFree(l)
    BY <1>4 DEF Parts, LaunchesOnTrack
  <2>2. Matched(Over(found[l], layer)) /\ Matched(global) /\ Matched(system)
    BY <2>1, OverMatched DEF ReadLocal, GapFree
  <2>3. QED
    BY <1>2, <2>2 DEF ReadLocal, files, GapFree
<1>5. Reads(l, "global", layer)
  BY DEF ReadLocal, Reads, TypeOK, Parts, AreFunctions
<1>6. QED
  BY <1>1, <1>3, <1>4, <1>5, ReadKeepsIInv

LEMMA ReadGlobalKeepsIInv ==
    ASSUME TypeOK, Parts, NEW l \in Launches, ReadGlobal(l)
    PROVE  TypeOK' /\ Parts'
<1>1. IsLayer(global)
  BY DEF TypeOK
<1>2. found'[l] = Over(found[l], global) /\ pc'[l] = "system"
  BY DEF ReadGlobal, TypeOK, Parts, AreFunctions
<1>3. ASSUME l \notin disturbed PROVE OnTrack(l)'
  <2>1. expected[l] = Over(found[l], Over(global, system))
    BY <1>3 DEF ReadGlobal, Parts, LaunchesOnTrack, OnTrack
  <2>2. expected[l] = Over(Over(found[l], global), system)
    BY <2>1, OverAssociative
  <2>3. QED
    BY <1>2, <2>2 DEF ReadGlobal, files, OnTrack
<1>4. ASSUME l \notin patchy PROVE GapFree(l)'
  <2>1. GapFree(l)
    BY <1>4 DEF Parts, LaunchesOnTrack
  <2>2. Matched(Over(found[l], global)) /\ Matched(system)
    BY <2>1, OverMatched DEF ReadGlobal, GapFree
  <2>3. QED
    BY <1>2, <2>2 DEF ReadGlobal, files, GapFree
<1>5. Reads(l, "system", global)
  BY DEF ReadGlobal, Reads, TypeOK, Parts, AreFunctions
<1>6. QED
  BY <1>1, <1>3, <1>4, <1>5, ReadKeepsIInv

LEMMA ResolveKeepsIInv ==
    ASSUME TypeOK, Parts, NEW l \in Launches, Resolve(l)
    PROVE  TypeOK' /\ Parts'
<1> DEFINE merged == Over(found[l], system)
           full == Over(merged, Defaults)
           Ready == {"url", "auth_method"} \subseteq DOMAIN merged
<1>1. IsLayer(merged) /\ IsLayer(full)
  <2>1. IsLayer(Defaults)
    BY DEF Defaults, IsLayer, Keys, Value, Transports
  <2>2. QED
    BY <2>1, OverIsLayer DEF TypeOK
<1>2. l \notin disturbed => expected[l] = merged
  BY DEF Resolve, Parts, LaunchesOnTrack, OnTrack
<1>3. ASSUME l \notin patchy, Ready PROVE full["api_version"] = full["url"]
  <2>1. Matched(found[l]) /\ Matched(system)
    BY <1>3 DEF Resolve, Parts, LaunchesOnTrack, GapFree
  <2>2. Matched(merged)
    BY <2>1, OverMatched
  <2> HIDE DEF merged
  <2>3. QED
    BY <1>3, <2>2 DEF Over, Matched
<1> HIDE DEF merged, full, Ready
<1>4. /\ found'[l] = Empty
      /\ Ready => pc'[l] = "done" /\ config'[l] = full
      /\ ~Ready => pc'[l] = "failed" /\ config' = config
      /\ \A m \in Launches \ {l} : /\ found'[m] = found[m] /\ pc'[m] = pc[m]
                                   /\ config'[m] = config[m]
      /\ found' = [m \in Launches |-> found'[m]]
      /\ config' = [m \in Launches |-> config'[m]]
      /\ pc' \in [Launches -> {"idle", "local", "global", "system", "done", "failed"}]
  BY DEF Resolve, TypeOK, Parts, AreFunctions, merged, full, Ready
<1>5. TypeOK'
  <2>1. \A m \in Launches : IsLayer(found'[m]) /\ IsLayer(config'[m])
    BY <1>1, <1>4, EmptyLayer DEF TypeOK
  <2>2. QED
    BY <1>4, <2>1 DEF Resolve, files, wizards, TypeOK
<1>6. AreFunctions' /\ SavedIsThere'
  BY <1>4 DEF Resolve, files, wizards, Parts, AreFunctions, SavedIsThere
<1>7. WritersKnown'
  <2>1. Reading' \subseteq Reading
    BY <1>4 DEF Reading
  <2>2. QED
    BY <2>1 DEF Resolve, wizards, Parts, WritersKnown
<1>8. LaunchesOnTrack'
  <2>1. \A m \in Launches : pc'[m] \in {"local", "global", "system"} => m # l /\ pc'[m] = pc[m]
    BY <1>4
  <2>2. QED
    BY <1>4, <2>1 DEF Resolve, files, Parts, LaunchesOnTrack, OnTrack, GapFree
<1>9. SetupTakesHold'
  <2>1. ASSUME NEW m \in Launches \ disturbed
        PROVE  /\ pc'[m] = "done" => config'[m] = Over(expected[m], Defaults)
               /\ pc'[m] = "failed" => ~({"url", "auth_method"} \subseteq DOMAIN expected[m])
    <3>1. CASE m = l
      BY <1>2, <1>4, <2>1, <3>1 DEF full, Ready
    <3>2. CASE m # l
      BY <1>4, <2>1, <3>2 DEF Parts, SetupTakesHold
    <3>3. QED
      BY <3>1, <3>2
  <2>2. QED
    BY <2>1 DEF Resolve, SetupTakesHold
<1>10. MixedOnlyByGaps'
  <2>1. ASSUME NEW m \in Launches \ patchy, pc'[m] = "done"
        PROVE  config'[m]["api_version"] = config'[m]["url"]
    <3>1. CASE m = l
      BY <1>3, <1>4, <2>1, <3>1
    <3>2. CASE m # l
      BY <1>4, <2>1, <3>2 DEF Parts, MixedOnlyByGaps
    <3>3. QED
      BY <3>1, <3>2
  <2>2. QED
    BY <2>1 DEF Resolve, MixedOnlyByGaps
<1>11. QED
  BY <1>5, <1>6, <1>7, <1>8, <1>9, <1>10 DEF Parts

-----------------------------------------------------------------------------
LEMMA NextIInv == IInv /\ [Next]_vars => IInv'
<1> SUFFICES ASSUME TypeOK, Parts, [Next]_vars PROVE TypeOK' /\ Parts'
  BY DEF IInv
<1>1. ASSUME NEW u \in Wizards,
             \/ \E place \in Places, d \in Dirs, t \in Transports : Answered(u, place, d, t)
             \/ Persist(u) \/ PersistFails(u)
      PROVE  TypeOK' /\ Parts'
  BY <1>1, AnsweredKeepsIInv, PersistKeepsIInv, PersistFailsKeepsIInv
<1>2. ASSUME NEW l \in Launches,
             \/ \E command \in Commands, flagged \in BOOLEAN, d \in Dirs,
                   env \in Environments : Launch(l, command, flagged, d, env)
             \/ ReadLocal(l) \/ ReadGlobal(l) \/ Resolve(l)
      PROVE  TypeOK' /\ Parts'
  BY <1>2, LaunchKeepsIInv, ReadLocalKeepsIInv, ReadGlobalKeepsIInv, ResolveKeepsIInv
<1>3. CASE UNCHANGED vars
  <2>1. TypeOK'
    BY <1>3 DEF vars, files, wizards, commands, TypeOK
  <2>2. WritersKnown'
    BY <1>3 DEF vars, wizards, commands, Parts, WritersKnown, Reading
  <2>3. LaunchesOnTrack'
    BY <1>3 DEF vars, files, commands, Parts, LaunchesOnTrack, OnTrack, GapFree
  <2>4. QED
    BY <1>3, <2>1, <2>2, <2>3
    DEF vars, files, wizards, commands, Parts, AreFunctions, SavedIsThere, SetupTakesHold,
        MixedOnlyByGaps
<1>4. QED
  BY <1>1, <1>2, <1>3 DEF Next

LEMMA SpecIInv == Spec => []IInv
  BY InitIInv, NextIInv, PTL DEF Spec

-----------------------------------------------------------------------------
\* Every variable keeps its type: no layer has a key that is no part of the
\* configuration, such as the user's name.
THEOREM TypeCorrect == Spec => []TypeOK
<1>1. IInv => TypeOK
  BY DEF IInv
<1>2. QED
  BY SpecIInv, <1>1, PTL

\* A command that no wizard disturbs has, setting by setting, what its flags, its
\* environment, the setup last saved for its directory, the one last saved globally,
\* the system's file and the defaults say, in this order (load_config's cascade over
\* what persist_selection_at wrote and operators wrote by hand).
THEOREM SetupIsFound == Spec => []SetupTakesHold
<1>1. IInv => SetupTakesHold
  BY DEF IInv, Parts
<1>2. QED
  BY SpecIInv, <1>1, PTL

\* Whatever operators write by hand, load_config, which merges its layers key by key
\* while wizards write them, puts url and api_version of two deployments together only
\* for a command that had a layer with one of them alone.
THEOREM MixingNeedsAGap == Spec => []MixedOnlyByGaps
<1>1. IInv => MixedOnlyByGaps
  BY DEF IInv, Parts
<1>2. QED
  BY SpecIInv, <1>1, PTL
=============================================================================
