------------------------------ MODULE Launcher ------------------------------
(* One invocation of the modelwrap command (cmd/modelwrap).  Settings come *)
(* from flags and from environment variables.  On a host the command       *)
(* parses them and starts itself again in the packer image, through a      *)
(* docker command line that carries what it parsed as flags, mounts and    *)
(* variables passed on by name; the second process parses those and packs  *)
(* or deletes.  With --local the first one does so itself.                 *)
(*                                                                         *)
(* A value is what the code distinguishes: a path is its own name, a       *)
(* schema text is the number each of the two parsers reads in it           *)
(* (strconv.Atoi for the variable, flag.IntVar for the flag, a number      *)
(* below 1 where it reads none).                                           *)
EXTENDS Integers

CONSTANTS NotGiven,     \* a variable that is not set, a flag that is not passed
          EnvValues,    \* EnvValues[v]: the values the user may export v with
          FlagValues,   \* FlagValues[f]: those f may be passed with; "model" is the argument
          HostFiles,    \* HostFiles[p]: what is at path p of the host: "dir", "file", "missing"
          MaxSettings   \* bound: settings of one invocation

EnvNames == {"MODEL", "MODEL_DIR", "CACHE_DIR", "OUTPUT_DIR", "VERIFY",
             "ENCRYPTION", "HF_TOKEN", "PRIVATE_MODEL_KEY_FILE",
             "PRIVATE_MODEL_KEY_B64", "MODELWRAP_SCHEMA", "MODELWRAP_IN_CONTAINER"}
FlagNames == {"model", "modelDir", "keyFile", "output", "cache", "schema",
              "delete", "verify", "encrypt", "local"}
HostPaths == DOMAIN HostFiles
Schemas   == {1, 2}

EnvPaths  == {"MODEL_DIR", "CACHE_DIR", "OUTPUT_DIR", "PRIVATE_MODEL_KEY_FILE"}
FlagPaths == {"modelDir", "keyFile", "output", "cache"}
Switches  == {"delete", "verify", "encrypt", "local"}

\* What the settings hold, as far as the code looks into it.
ASSUME LauncherAssumption ==
    /\ {"output", "cache"} \subseteq HostPaths /\ "" \notin HostPaths
    /\ HostFiles \in [HostPaths -> {"dir", "file", "missing"}]
    /\ DOMAIN EnvValues \subseteq EnvNames \ {"MODELWRAP_IN_CONTAINER"}
    /\ DOMAIN FlagValues \subseteq FlagNames
    /\ \A n \in DOMAIN EnvValues : \A v \in EnvValues[n] :
           /\ v # NotGiven
           /\ n \in EnvPaths => v \in HostPaths
           /\ n = "MODELWRAP_SCHEMA" => v.env \in Int
           /\ n \notin EnvPaths \cup {"MODELWRAP_SCHEMA"} => v \in STRING \ {""}
    /\ \A n \in DOMAIN FlagValues : \A v \in FlagValues[n] :
           /\ v # NotGiven
           /\ n \in FlagPaths => v \in HostPaths \cup {""}
           /\ n = "schema" => v.flag \in Int
           /\ n \in Switches => v \in BOOLEAN
           /\ n = "model" => v \in STRING
    /\ MaxSettings \in Nat
    /\ NotGiven \notin {"", "1", "/model", "/cache", "/output", "/run/modelwrap-key"}
    /\ NotGiven \notin BOOLEAN \cup [flag : Int, env : Int]

VARIABLES flags, env,   \* the user's command line and environment
          settings,     \* how many settings they hold
          pc,           \* "user", "parse", "launch", "run", "done"
          proc,         \* the running process: its flags, env and mounts
          opts,         \* cliOptions as it has parsed them
          files,        \* the host's files
          result,       \* what was done, in terms of the host, and the exit status
          fault         \* docker, the Hub or the disk failed it
vars == <<flags, env, settings, pc, proc, opts, files, result, fault>>

NoFlags == [n \in FlagNames |-> NotGiven]
NoEnv   == [n \in EnvNames |-> NotGiven]

(* A process of the host sees the host's paths; what a container has not   *)
(* mounted is "inside" and gone with it.                                   *)
OnHost(f, e) == [flags |-> f, env |-> e, mounts |-> [p \in HostPaths |-> p]]
At(m, path)  == IF path \in DOMAIN m THEN m[path] ELSE "inside"

Getenv(e, name)      == IF e[name] = NotGiven THEN "" ELSE e[name]
Flag(f, name, value) == IF f[name] = NotGiven THEN value ELSE f[name]

Options(f, e) ==
    [model    |-> Flag(f, "model", Getenv(e, "MODEL")),
     modelDir |-> Flag(f, "modelDir", Getenv(e, "MODEL_DIR")),
     cache    |-> Flag(f, "cache", Getenv(e, "CACHE_DIR")),
     output   |-> Flag(f, "output", Getenv(e, "OUTPUT_DIR")),
     keyFile  |-> Flag(f, "keyFile", ""),
     verify   |-> Flag(f, "verify", Getenv(e, "VERIFY") = "1"),
     encrypt  |-> Flag(f, "encrypt", Getenv(e, "ENCRYPTION") = "1"),
     delete   |-> Flag(f, "delete", FALSE),
     local    |-> Flag(f, "local", FALSE),
     token    |-> Getenv(e, "HF_TOKEN"),
     schema   |-> IF f.schema # NotGiven THEN f.schema.flag
                  ELSE IF e.MODELWRAP_SCHEMA # NotGiven THEN e.MODELWRAP_SCHEMA.env
                  ELSE 0]

InvalidSchema(f, e) ==
    \/ e.MODELWRAP_SCHEMA # NotGiven /\ e.MODELWRAP_SCHEMA.env < 1
    \/ f.schema # NotGiven /\ f.schema.flag < 1
InvalidDelete(o) == o.delete /\ (o.modelDir # "" \/ o.encrypt \/ o.verify \/ o.keyFile # "")

Refused(f, e) == InvalidSchema(f, e) \/ InvalidDelete(Options(f, e))

-----------------------------------------------------------------------------
(* What Pack and Delete make of their options, in terms of the host.       *)

\* strings.Cut(model, "@"): the models the user may name, and their two halves.
Cut(model) == CASE model = "m@r" -> [name |-> "m", revision |-> "r"]
                [] model = "m"   -> [name |-> "m", revision |-> ""]
                [] OTHER         -> [name |-> "", revision |-> ""]
Base(path) == IF path = "/model" THEN "model" ELSE path

\* loadMasterKey: the file wins over the variable; "" where there is no key.
LoadKey(o, e, m, fs) ==
    LET keyFile == IF o.keyFile # "" THEN o.keyFile ELSE Getenv(e, "PRIVATE_MODEL_KEY_FILE")
    IN  IF keyFile = "" THEN Getenv(e, "PRIVATE_MODEL_KEY_B64")
        ELSE IF At(m, keyFile) \in HostPaths /\ fs[At(m, keyFile)] = "file"
             THEN At(m, keyFile) ELSE ""

Dir(m, path, fallback) == At(m, IF path = "" THEN fallback ELSE path)

Failed == [op |-> "failed", exit |-> 1]

Deletes(o, m) ==
    LET model == Cut(o.model)
    IN  IF model.name = "" \/ model.revision = "" THEN Failed
        ELSE [op |-> "delete", exit |-> 0, name |-> model.name, revision |-> model.revision,
              cache |-> Dir(m, o.cache, "cache"), output |-> Dir(m, o.output, "output")]

Packs(o, e, m, fs) ==
    LET model   == Cut(o.model)
        remote  == o.modelDir = ""
        missing == IF remote THEN model.name = ""
                   ELSE ~ (At(m, o.modelDir) \in HostPaths /\ fs[At(m, o.modelDir)] = "dir")
        schema  == IF o.schema = 0 THEN 1 ELSE o.schema
        key     == IF o.encrypt THEN LoadKey(o, e, m, fs) ELSE "plain"
        source  == IF remote THEN "hub" ELSE At(m, o.modelDir)
    IN  IF schema \notin Schemas \/ missing THEN Failed
        ELSE [op |-> "pack", exit |-> IF key = "" THEN 1 ELSE 0,
              name     |-> IF model.name = "" THEN Base(o.modelDir) ELSE model.name,
              revision |-> IF model.revision # "" THEN model.revision
                           ELSE IF remote THEN "HEAD" ELSE source,    \* HashDir of it
              source |-> source, schema |-> schema, key |-> key, token |-> o.token,
              verify |-> o.verify, cache |-> Dir(m, o.cache, "cache"),
              output |-> Dir(m, o.output, "output")]

Does(o, e, m, fs) == IF o.delete THEN Deletes(o, m) ELSE Packs(o, e, m, fs)

\* os.MkdirAll of cache and output, where nothing is yet.
Makes(o, m, fs) ==
    LET dirs == {Dir(m, o.output, "output")}
                \cup IF o.delete THEN {} ELSE {Dir(m, o.cache, "cache")}
    IN  IF o.delete /\ Deletes(o, m) = Failed THEN fs
        ELSE [p \in HostPaths |-> IF p \in dirs /\ fs[p] = "missing" THEN "dir" ELSE fs[p]]

-----------------------------------------------------------------------------
(* dockerRunArgs.                                                          *)

\* Mutant: the variable is forgotten.
KeyFileFlagOnly(o, e) == o.keyFile
\* The host's key file, from the flag or the variable: mounted and passed as a flag.
KeyFile(o, e) == IF o.keyFile # "" THEN o.keyFile ELSE Getenv(e, "PRIVATE_MODEL_KEY_FILE")

\* Mutant: the path given is ignored.
HostDirFallback(path, fallback) == fallback
HostDir(path, fallback) == IF path = "" THEN fallback ELSE path

\* Mutant: output and cache mounted as they were given, set or not.
MountsUnset(o, e) ==
    [path \in {"/output", "/cache"} |-> IF path = "/output" THEN o.output ELSE o.cache]
Mounts(o, e) ==
    [path \in {"/output", "/cache"}
              \cup (IF o.modelDir # "" THEN {"/model"} ELSE {})
              \cup (IF KeyFile(o, e) # "" THEN {"/run/modelwrap-key"} ELSE {}) |->
        CASE path = "/output" -> HostDir(o.output, "output")
          [] path = "/cache"  -> HostDir(o.cache, "cache")
          [] path = "/model"  -> o.modelDir
          [] OTHER            -> KeyFile(o, e)]

ContainerFlags(o, e) ==
    [NoFlags EXCEPT
        !.delete   = IF o.delete THEN TRUE ELSE NotGiven,
        !.modelDir = IF o.modelDir # "" THEN "/model" ELSE NotGiven,
        !.keyFile  = IF KeyFile(o, e) # "" THEN "/run/modelwrap-key" ELSE NotGiven,
        !.encrypt  = IF o.encrypt THEN TRUE ELSE NotGiven,
        !.verify   = IF o.verify THEN TRUE ELSE NotGiven,
        !.schema   = IF o.schema # 0 THEN [flag |-> o.schema, env |-> o.schema] ELSE NotGiven,
        !.model    = IF o.model # "" THEN o.model ELSE NotGiven]

passthroughEnv == {"HF_TOKEN", "PRIVATE_MODEL_KEY_B64"}

\* The image's variables, and of the host's those passed on by name.
ContainerEnv(e) ==
    [n \in EnvNames |-> CASE n = "CACHE_DIR"              -> "/cache"
                          [] n = "OUTPUT_DIR"             -> "/output"
                          [] n = "MODELWRAP_IN_CONTAINER" -> "1"
                          [] n \in passthroughEnv         -> e[n]
                          [] OTHER                        -> NotGiven]

Container(o, e) ==
    [flags |-> ContainerFlags(o, e), env |-> ContainerEnv(e), mounts |-> Mounts(o, e)]

\* What a launch leaves on the host: hostDir makes output and cache, and
\* docker makes a directory of whatever else it is to mount and does not find.
Mounted(m, fs) ==
    [p \in HostPaths |-> IF fs[p] = "missing" /\ \E path \in DOMAIN m : m[path] = p
                         THEN "dir" ELSE fs[p]]

-----------------------------------------------------------------------------
Init ==
    /\ flags = NoFlags /\ env = NoEnv /\ settings = 0
    /\ pc = "user"
    /\ proc = OnHost(NoFlags, NoEnv)
    /\ opts = Options(NoFlags, NoEnv)
    /\ files = HostFiles
    /\ result = Failed
    /\ fault = FALSE

\* The user puts an invocation together and starts it.
Export(n, value) ==
    /\ pc = "user" /\ settings < MaxSettings
    /\ env[n] = NotGiven
    /\ env' = [env EXCEPT ![n] = value]
    /\ settings' = settings + 1
    /\ UNCHANGED <<flags, pc, proc, opts, files, result, fault>>

Pass(n, value) ==
    /\ pc = "user" /\ settings < MaxSettings
    /\ flags[n] = NotGiven
    /\ flags' = [flags EXCEPT ![n] = value]
    /\ settings' = settings + 1
    /\ UNCHANGED <<env, pc, proc, opts, files, result, fault>>

Start ==
    /\ pc = "user"
    /\ pc' = "parse"
    /\ proc' = OnHost(flags, env)
    /\ UNCHANGED <<flags, env, settings, opts, files, result, fault>>

Exits(r, failing) ==
    /\ pc' = "done"
    /\ result' = r
    /\ fault' = failing
    /\ UNCHANGED <<flags, env, settings, proc, opts>>

Refuse ==
    /\ pc = "parse"
    /\ Refused(proc.flags, proc.env)
    /\ Exits([op |-> "refused", exit |-> 2], FALSE)
    /\ UNCHANGED files

Accept ==
    /\ pc = "parse"
    /\ ~ Refused(proc.flags, proc.env)
    /\ opts' = Options(proc.flags, proc.env)
    /\ pc' = IF opts'.local \/ proc.env.MODELWRAP_IN_CONTAINER = "1" THEN "run" ELSE "launch"
    /\ UNCHANGED <<flags, env, settings, proc, files, result, fault>>

Launch ==
    /\ pc = "launch"
    /\ proc' = Container(opts, env)
    /\ files' = Mounted(proc'.mounts, files)
    /\ pc' = "parse"
    /\ UNCHANGED <<flags, env, settings, opts, result, fault>>

\* A directory cannot be made, or there is no docker or no image: what
\* dockerRunArgs or docker has made by then stays.
LaunchFails ==
    /\ pc = "launch"
    /\ LET m == Mounts(opts, env)
       IN  \E made \in {{}, {"/output"}, {"/output", "/cache"}, DOMAIN m} :
              files' = Mounted([path \in made |-> m[path]], files)
    /\ Exits(Failed, TRUE)

Run ==
    /\ pc = "run"
    /\ files' = Makes(opts, proc.mounts, files)
    /\ Exits(Does(opts, proc.env, proc.mounts, files'), FALSE)

\* The Hub, a tool or the disk fails Pack or Delete; PackStore has the details.
RunFails ==
    /\ pc = "run"
    /\ Exits(Failed, TRUE)
    /\ files' = Makes(opts, proc.mounts, files)

Next ==
    \/ \E n \in DOMAIN EnvValues : \E value \in EnvValues[n] : Export(n, value)
    \/ \E n \in DOMAIN FlagValues : \E value \in FlagValues[n] : Pass(n, value)
    \/ Start \/ Refuse \/ Accept \/ Launch \/ LaunchFails \/ Run \/ RunFails
    \/ pc = "done" /\ UNCHANGED vars

Spec == Init /\ [][Next]_vars

-----------------------------------------------------------------------------
(* Type correctness.  A process of the host sees all of it; only a         *)
(* container has anything else mounted.                                    *)
TypeOK ==
    /\ DOMAIN flags = FlagNames /\ DOMAIN env = EnvNames
    /\ settings \in 0 .. MaxSettings
    /\ pc \in {"user", "parse", "launch", "run", "done"}
    /\ \A path \in DOMAIN proc.mounts : proc.mounts[path] \in HostPaths
    /\ opts.schema >= 0 /\ opts.delete \in BOOLEAN /\ opts.local \in BOOLEAN
    /\ files \in [HostPaths -> {"dir", "file", "missing"}]
    /\ result.exit \in 0 .. 2
    /\ fault \in BOOLEAN

(* What the invocation does with --local, or would do.                     *)
asked  == Options(flags, env)
host   == OnHost(flags, env).mounts
hostMade == Makes(asked, host, HostFiles)
direct == IF Refused(flags, env) THEN [op |-> "refused", exit |-> 2]
          ELSE Does(asked, env, host, hostMade)
launched == proc.env.MODELWRAP_IN_CONTAINER # NotGiven

\* The cases in which the container gets something else to see.
KeyFileExported == asked.delete /\ KeyFile(asked, env) # ""
DirMissing      == asked.modelDir # "" /\ hostMade[asked.modelDir] # "dir"
NameDerived     == asked.modelDir # "" /\ Cut(asked.model).name = ""

(* "it re-executes itself inside the digest-pinned packer image via        *)
(* docker, translating host paths into container mounts" (main.go:4-7):    *)
(* a launched run does what the same command does with --local, the same   *)
(* operation on the same model, from the same source into the same         *)
(* directories, under the same schema and key, and exits alike.  Except:   *)
(* where a key file is exported the container refuses every --delete; a    *)
(* model directory that is not there is made, and packed, by the launch;   *)
(* and a name derived from the directory is that of the mount, "model",    *)
(* whatever the directory is called (README.md:34 promises its basename).  *)
LaunchedLikeLocal ==
    pc = "done" /\ ~ fault =>
        \/ result = direct
        \/ launched /\ KeyFileExported /\ result = [op |-> "refused", exit |-> 2]
        \/ launched /\ DirMissing /\ direct = Failed
           /\ result.op = "pack" /\ result.source = asked.modelDir
        \/ launched /\ NameDerived /\ direct.op = "pack"
           /\ result = [direct EXCEPT !.name = "model"]

(* "Pre-create so docker does not create it root-owned" (launcher.go:63):  *)
(* an invocation makes no file or directory on the host but the output and *)
(* the cache it was asked to use, and none at all where it refuses its     *)
(* arguments; except that docker makes a directory of a model directory or *)
(* key file that is missing.                                               *)
HostFilesKept ==
    LET touched == {p \in HostPaths : files[p] # HostFiles[p]}
    IN  /\ touched \subseteq {Dir(host, asked.output, "output"), Dir(host, asked.cache, "cache")}
                             \cup IF asked.local THEN {} ELSE {asked.modelDir, KeyFile(asked, env)}
        /\ Refused(flags, env) => touched = {}

(* "both must accept and reject identical values" (main.go:142-143): a     *)
(* text given as --schema is refused exactly where MODELWRAP_SCHEMA is, and *)
(* selects the same.  flag.IntVar takes 0x2 for 2, where Atoi takes it for *)
(* no number: the violation run.                                           *)
SchemaDoorsAgree ==
    LET text   == flags.schema
        twin   == [flags EXCEPT !.schema = NotGiven]
        export == [env EXCEPT !.MODELWRAP_SCHEMA = text]
    IN  text # NotGiven /\ env.MODELWRAP_SCHEMA = NotGiven =>
            /\ Refused(flags, env) <=> Refused(twin, export)
            /\ ~ Refused(flags, env) => Options(flags, env) = Options(twin, export)
=============================================================================
