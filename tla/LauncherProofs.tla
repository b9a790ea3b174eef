---------------------------- MODULE LauncherProofs ----------------------------
(* Proofs about Launcher, for any values of the settings and any files on  *)
(* the host.  The argument is a translation: what the process in the       *)
(* container parses are the options of the host's process with its paths   *)
(* replaced by mounts (ContainerOptions), what those mounts hold is what   *)
(* the host has there (ContainerSees), so both processes do the same       *)
(* (ContainerDoes).                                                        *)
EXTENDS Launcher, TLAPS

FlagsTyped(f) ==
    /\ f = [n \in FlagNames |-> f[n]]
    /\ \A n \in FlagNames : f[n] = NotGiven \/ (n \in DOMAIN FlagValues /\ f[n] \in FlagValues[n])
EnvTyped(e) ==
    /\ e = [n \in EnvNames |-> e[n]]
    /\ \A n \in EnvNames : e[n] = NotGiven \/ (n \in DOMAIN EnvValues /\ e[n] \in EnvValues[n])

\* What an option holds is a path of the host or nothing, a switch, a text.
OptionsTyped(o) ==
    /\ o.modelDir \in HostPaths \cup {""} /\ o.keyFile \in HostPaths \cup {""}
    /\ o.cache \in HostPaths \cup {""} /\ o.output \in HostPaths \cup {""}
    /\ o.verify \in BOOLEAN /\ o.encrypt \in BOOLEAN
    /\ o.delete \in BOOLEAN /\ o.local \in BOOLEAN
    /\ o.model # NotGiven
    /\ o.schema \in Int

LEMMA NotValue ==
    /\ NotGiven \notin {"", "1", "/model", "/cache", "/output", "/run/modelwrap-key"}
    /\ NotGiven \notin BOOLEAN /\ NotGiven \notin [flag : Int, env : Int]
BY LauncherAssumption

LEMMA Bound == MaxSettings \in Nat
BY LauncherAssumption

LEMMA EnvValue ==
    ASSUME NEW e, EnvTyped(e)
    PROVE  /\ \A n \in EnvPaths : Getenv(e, n) \in HostPaths \cup {""}
           /\ Getenv(e, "MODEL") # NotGiven
           /\ e["MODELWRAP_SCHEMA"] # NotGiven => e["MODELWRAP_SCHEMA"].env \in Int
           /\ e["MODELWRAP_IN_CONTAINER"] = NotGiven
<1>1. \A n \in EnvPaths : Getenv(e, n) \in HostPaths \cup {""}
  BY LauncherAssumption DEF EnvTyped, Getenv, EnvPaths, EnvNames
<1>2. Getenv(e, "MODEL") # NotGiven
  BY NotValue DEF Getenv
<1>3. e["MODELWRAP_SCHEMA"] # NotGiven => e["MODELWRAP_SCHEMA"].env \in Int
  BY LauncherAssumption DEF EnvTyped, EnvNames
<1>4. e["MODELWRAP_IN_CONTAINER"] = NotGiven
  BY LauncherAssumption DEF EnvTyped, EnvNames
<1> QED BY <1>1, <1>2, <1>3, <1>4

LEMMA FlagValue ==
    ASSUME NEW f, FlagsTyped(f), NEW n \in FlagNames, f[n] # NotGiven
    PROVE  /\ n \in FlagPaths => f[n] \in HostPaths \cup {""}
           /\ n = "schema" => f[n].flag \in Int
           /\ n \in Switches => f[n] \in BOOLEAN
BY LauncherAssumption DEF FlagsTyped

LEMMA Switch ==
    ASSUME NEW f, NEW n, NEW x \in BOOLEAN, f[n] = NotGiven \/ f[n] \in BOOLEAN
    PROVE  Flag(f, n, x) \in BOOLEAN
BY DEF Flag

LEMMA OptionsValues ==
    ASSUME NEW f, NEW e, FlagsTyped(f), EnvTyped(e)
    PROVE  OptionsTyped(Options(f, e))
<1> DEFINE o == Options(f, e)
<1>1. o.modelDir \in HostPaths \cup {""} /\ o.keyFile \in HostPaths \cup {""}
  BY EnvValue, FlagValue DEF Options, Flag, FlagNames, FlagPaths, EnvPaths
<1>2. o.cache \in HostPaths \cup {""} /\ o.output \in HostPaths \cup {""}
  BY EnvValue, FlagValue DEF Options, Flag, FlagNames, FlagPaths, EnvPaths
<1>3. o.verify \in BOOLEAN /\ o.encrypt \in BOOLEAN /\ o.delete \in BOOLEAN /\ o.local \in BOOLEAN
  <2>1. \A n \in Switches : f[n] = NotGiven \/ f[n] \in BOOLEAN
    BY FlagValue DEF FlagNames, Switches
  <2>2. o.verify = Flag(f, "verify", Getenv(e, "VERIFY") = "1")
        /\ o.encrypt = Flag(f, "encrypt", Getenv(e, "ENCRYPTION") = "1")
    BY DEF Options
  <2>3. o.delete = Flag(f, "delete", FALSE) /\ o.local = Flag(f, "local", FALSE)
    BY DEF Options
  <2>4. o.verify \in BOOLEAN /\ o.encrypt \in BOOLEAN
    BY <2>1, <2>2, Switch DEF Switches
  <2>5. o.delete \in BOOLEAN /\ o.local \in BOOLEAN
    BY <2>1, <2>3, Switch DEF Switches
  <2> QED BY <2>4, <2>5
<1>4. o.model # NotGiven
  BY EnvValue DEF Options, Flag
<1>5. o.schema \in Int
  <2>1. o.schema = (IF f["schema"] # NotGiven THEN f["schema"].flag
                    ELSE IF e["MODELWRAP_SCHEMA"] # NotGiven THEN e["MODELWRAP_SCHEMA"].env
                    ELSE 0)
    BY DEF Options
  <2>2. f["schema"] # NotGiven => f["schema"].flag \in Int
    BY FlagValue DEF FlagNames
  <2>3. e["MODELWRAP_SCHEMA"] # NotGiven => e["MODELWRAP_SCHEMA"].env \in Int
    BY EnvValue
  <2> QED BY ONLY <2>1, <2>2, <2>3
<1> QED BY <1>1, <1>2, <1>3, <1>4, <1>5 DEF OptionsTyped

-----------------------------------------------------------------------------
(* The process in the container.                                           *)

\* It parses the options of the host's process, paths translated.
Inside(o, e) == Options(ContainerFlags(o, e), ContainerEnv(e))
LEMMA ContainerOptions ==
    ASSUME NEW o, NEW e, OptionsTyped(o), EnvTyped(e), o.token = Getenv(e, "HF_TOKEN")
    PROVE  /\ Inside(o, e).model = o.model
           /\ o.modelDir # "" => Inside(o, e).modelDir = "/model"
           /\ o.modelDir = "" => Inside(o, e).modelDir = ""
           /\ Inside(o, e).cache = "/cache" /\ Inside(o, e).output = "/output"
           /\ Inside(o, e).keyFile = IF KeyFile(o, e) # "" THEN "/run/modelwrap-key" ELSE ""
           /\ Inside(o, e).verify = o.verify /\ Inside(o, e).encrypt = o.encrypt
           /\ Inside(o, e).delete = o.delete /\ Inside(o, e).local = FALSE
           /\ Inside(o, e).token = o.token /\ Inside(o, e).schema = o.schema
           /\ Getenv(ContainerEnv(e), "PRIVATE_MODEL_KEY_FILE") = ""
           /\ Getenv(ContainerEnv(e), "PRIVATE_MODEL_KEY_B64") = Getenv(e, "PRIVATE_MODEL_KEY_B64")
<1> DEFINE f == ContainerFlags(o, e)
           c == ContainerEnv(e)
           inside == Options(f, c)
<1>a. /\ inside.model = Flag(f, "model", Getenv(c, "MODEL"))
      /\ inside.modelDir = Flag(f, "modelDir", Getenv(c, "MODEL_DIR"))
      /\ inside.cache = Flag(f, "cache", Getenv(c, "CACHE_DIR"))
      /\ inside.output = Flag(f, "output", Getenv(c, "OUTPUT_DIR"))
      /\ inside.keyFile = Flag(f, "keyFile", "")
      /\ inside.token = Getenv(c, "HF_TOKEN")
  BY DEF Options
<1>b. /\ inside.verify = Flag(f, "verify", Getenv(c, "VERIFY") = "1")
      /\ inside.encrypt = Flag(f, "encrypt", Getenv(c, "ENCRYPTION") = "1")
      /\ inside.delete = Flag(f, "delete", FALSE)
      /\ inside.local = Flag(f, "local", FALSE)
  BY DEF Options
<1>c. inside.schema = (IF f["schema"] # NotGiven THEN f["schema"].flag
                       ELSE IF c["MODELWRAP_SCHEMA"] # NotGiven THEN c["MODELWRAP_SCHEMA"].env
                       ELSE 0)
  BY DEF Options
<1>d. /\ f["model"] = (IF o.model # "" THEN o.model ELSE NotGiven)
      /\ f["modelDir"] = (IF o.modelDir # "" THEN "/model" ELSE NotGiven)
      /\ f["keyFile"] = (IF KeyFile(o, e) # "" THEN "/run/modelwrap-key" ELSE NotGiven)
      /\ f["schema"] = (IF o.schema # 0 THEN [flag |-> o.schema, env |-> o.schema] ELSE NotGiven)
  BY DEF ContainerFlags, NoFlags, FlagNames
<1>e. /\ f["encrypt"] = (IF o.encrypt THEN TRUE ELSE NotGiven)
      /\ f["verify"] = (IF o.verify THEN TRUE ELSE NotGiven)
      /\ f["delete"] = (IF o.delete THEN TRUE ELSE NotGiven)
      /\ f["output"] = NotGiven /\ f["cache"] = NotGiven /\ f["local"] = NotGiven
  BY DEF ContainerFlags, NoFlags, FlagNames
<1>f. /\ Getenv(c, "CACHE_DIR") = "/cache" /\ Getenv(c, "OUTPUT_DIR") = "/output"
      /\ Getenv(c, "HF_TOKEN") = Getenv(e, "HF_TOKEN")
  BY NotValue DEF ContainerEnv, EnvNames, passthroughEnv, Getenv
<1>g. /\ Getenv(c, "MODEL") = "" /\ Getenv(c, "MODEL_DIR") = ""
      /\ Getenv(c, "VERIFY") = "" /\ Getenv(c, "ENCRYPTION") = ""
      /\ c["MODELWRAP_SCHEMA"] = NotGiven
  BY DEF ContainerEnv, EnvNames, passthroughEnv, Getenv
<1>8. /\ Getenv(c, "PRIVATE_MODEL_KEY_FILE") = ""
      /\ Getenv(c, "PRIVATE_MODEL_KEY_B64") = Getenv(e, "PRIVATE_MODEL_KEY_B64")
  BY DEF ContainerEnv, EnvNames, passthroughEnv, Getenv
<1> HIDE DEF f, c, inside
<1>1. /\ inside.model = o.model
      /\ o.modelDir # "" => inside.modelDir = "/model"
      /\ o.modelDir = "" => inside.modelDir = ""
  BY <1>a, <1>d, <1>g, NotValue DEF Flag, OptionsTyped
<1>2. inside.cache = "/cache" /\ inside.output = "/output"
  BY <1>a, <1>e, <1>f DEF Flag
<1>3. inside.keyFile = IF KeyFile(o, e) # "" THEN "/run/modelwrap-key" ELSE ""
  BY <1>a, <1>d, NotValue DEF Flag
<1>4. inside.verify = o.verify /\ inside.encrypt = o.encrypt
  <2>1. "" # "1" /\ NotGiven # TRUE
    BY NotValue
  <2>2. o.verify = TRUE \/ o.verify = FALSE
    BY DEF OptionsTyped
  <2>3. o.encrypt = TRUE \/ o.encrypt = FALSE
    BY DEF OptionsTyped
  <2>4. inside.verify = o.verify
    BY <1>b, <1>e, <1>g, <2>1, <2>2 DEF Flag
  <2>5. inside.encrypt = o.encrypt
    BY <1>b, <1>e, <1>g, <2>1, <2>3 DEF Flag
  <2> QED BY <2>4, <2>5
<1>5. inside.delete = o.delete /\ inside.local = FALSE
  <2>1. NotGiven # TRUE
    BY NotValue
  <2>2. o.delete = TRUE \/ o.delete = FALSE
    BY DEF OptionsTyped
  <2> QED BY <1>b, <1>e, <2>1, <2>2 DEF Flag
<1>6. inside.token = o.token
  BY <1>a, <1>f
<1>7. inside.schema = o.schema
  <2>1. CASE o.schema # 0
    <3>1. f["schema"] = [flag |-> o.schema, env |-> o.schema]
      BY <1>d, <2>1
    <3>2. [flag |-> o.schema, env |-> o.schema] \in [flag : Int, env : Int]
      BY DEF OptionsTyped
    <3>3. f["schema"] # NotGiven
      BY <3>1, <3>2, NotValue
    <3>4. f["schema"].flag = o.schema
      BY <3>1
    <3> QED BY <3>3, <3>4, <1>c
  <2>2. CASE o.schema = 0
    BY <2>2, <1>c, <1>d, <1>g
  <2> QED BY <2>1, <2>2
<1> QED BY <1>1, <1>2, <1>3, <1>4, <1>5, <1>6, <1>7, <1>8 DEF inside, f, c, Inside

\* Its mounts lead to the paths of the host that the options name.
LEMMA ContainerSees ==
    ASSUME NEW o, NEW e, OptionsTyped(o), EnvTyped(e)
    PROVE  /\ KeyFile(o, e) \in HostPaths \cup {""}
           /\ HostDir(o.output, "output") \in HostPaths
           /\ HostDir(o.cache, "cache") \in HostPaths
           /\ At(Mounts(o, e), "/output") = HostDir(o.output, "output")
           /\ At(Mounts(o, e), "/cache") = HostDir(o.cache, "cache")
           /\ o.modelDir # "" => At(Mounts(o, e), "/model") = o.modelDir
           /\ KeyFile(o, e) # "" => At(Mounts(o, e), "/run/modelwrap-key") = KeyFile(o, e)
           /\ \A path \in DOMAIN Mounts(o, e) : Mounts(o, e)[path] \in HostPaths
<1> DEFINE m == Mounts(o, e)
<1>1. KeyFile(o, e) \in HostPaths \cup {""}
  BY EnvValue DEF KeyFile, OptionsTyped, EnvPaths
<1>2. HostDir(o.output, "output") \in HostPaths /\ HostDir(o.cache, "cache") \in HostPaths
  BY LauncherAssumption DEF HostDir, OptionsTyped
<1>3. At(m, "/output") = HostDir(o.output, "output") /\ At(m, "/cache") = HostDir(o.cache, "cache")
  BY DEF At, Mounts
<1>4. o.modelDir # "" => At(m, "/model") = o.modelDir
  BY DEF At, Mounts
<1>5. KeyFile(o, e) # "" => At(m, "/run/modelwrap-key") = KeyFile(o, e)
  BY DEF At, Mounts
<1>6. \A path \in DOMAIN m : m[path] \in HostPaths
  BY <1>1, <1>2 DEF Mounts, OptionsTyped
<1> QED BY <1>1, <1>2, <1>3, <1>4, <1>5, <1>6

\* docker makes directories of what is missing and changes nothing else.
LEMMA MountedFiles ==
    ASSUME NEW m, NEW fs, NEW p \in HostPaths, fs[p] \in {"dir", "file", "missing"}
    PROVE  /\ Mounted(m, fs)[p] \in {"dir", "file", "missing"}
           /\ Mounted(m, fs)[p] = "file" <=> fs[p] = "file"
           /\ fs[p] = "dir" => Mounted(m, fs)[p] = "dir"
           /\ Mounted(m, fs)[p] # fs[p] =>
                 fs[p] = "missing" /\ \E path \in DOMAIN m : m[path] = p
BY DEF Mounted

LEMMA HostSees ==
    ASSUME NEW f, NEW e, NEW p \in HostPaths
    PROVE  At(OnHost(f, e).mounts, p) = p
BY DEF OnHost, At

\* The packer's outcome, from the parts the two processes have in common.
Schema(o) == IF o.schema = 0 THEN 1 ELSE o.schema
Key(o, e, m, fs) == IF o.encrypt THEN LoadKey(o, e, m, fs) ELSE "plain"
Packed(o, name, latest, source, key, cache, output) ==
    [op |-> "pack", exit |-> IF key = "" THEN 1 ELSE 0, name |-> name,
     revision |-> IF Cut(o.model).revision # "" THEN Cut(o.model).revision ELSE latest,
     source |-> source, schema |-> Schema(o), key |-> key, token |-> o.token,
     verify |-> o.verify, cache |-> cache, output |-> output]

LEMMA PackedRenamed ==
    ASSUME NEW o, NEW name, NEW latest, NEW source, NEW key, NEW cache, NEW output, NEW other
    PROVE  [Packed(o, name, latest, source, key, cache, output) EXCEPT !.name = other]
             = Packed(o, other, latest, source, key, cache, output)
<1> DEFINE exit == IF key = "" THEN 1 ELSE 0
           revision == IF Cut(o.model).revision # "" THEN Cut(o.model).revision ELSE latest
<1>1. ASSUME NEW n
      PROVE  Packed(o, n, latest, source, key, cache, output) =
               [op |-> "pack", exit |-> exit, name |-> n, revision |-> revision,
                source |-> source, schema |-> Schema(o), key |-> key, token |-> o.token,
                verify |-> o.verify, cache |-> cache, output |-> output]
  BY DEF Packed
<1> HIDE DEF exit, revision
<1> QED BY <1>1

LEMMA PacksRemote ==
    ASSUME NEW o, NEW e, NEW m, NEW fs, o.modelDir = ""
    PROVE  Packs(o, e, m, fs) =
             IF Schema(o) \notin Schemas \/ Cut(o.model).name = "" THEN Failed
             ELSE Packed(o, Cut(o.model).name, "HEAD", "hub", Key(o, e, m, fs),
                         Dir(m, o.cache, "cache"), Dir(m, o.output, "output"))
BY DEF Packs, Packed, Schema, Key

LEMMA PacksLocal ==
    ASSUME NEW o, NEW e, NEW m, NEW fs, o.modelDir # "", At(m, o.modelDir) \in HostPaths
    PROVE  Packs(o, e, m, fs) =
             IF Schema(o) \notin Schemas \/ fs[At(m, o.modelDir)] # "dir" THEN Failed
             ELSE Packed(o, IF Cut(o.model).name = "" THEN Base(o.modelDir) ELSE Cut(o.model).name,
                         At(m, o.modelDir), At(m, o.modelDir), Key(o, e, m, fs),
                         Dir(m, o.cache, "cache"), Dir(m, o.output, "output"))
BY DEF Packs, Packed, Schema, Key

\* Both processes, given options o of the host's.
MadeInside(o, e) == Makes(Inside(o, e), Mounts(o, e), Mounted(Mounts(o, e), HostFiles))
MadeHere(o, e)   == Makes(o, OnHost(NoFlags, e).mounts, HostFiles)
DoesInside(o, e) == Does(Inside(o, e), ContainerEnv(e), Mounts(o, e), MadeInside(o, e))
DoesHere(o, e)   == Does(o, e, OnHost(NoFlags, e).mounts, MadeHere(o, e))

LEMMA ContainerDirs ==
    ASSUME NEW o, NEW e, OptionsTyped(o), EnvTyped(e), o.token = Getenv(e, "HF_TOKEN")
    PROVE  /\ Dir(Mounts(o, e), Inside(o, e).output, "output") = HostDir(o.output, "output")
           /\ Dir(Mounts(o, e), Inside(o, e).cache, "cache") = HostDir(o.cache, "cache")
<1>1. Inside(o, e).output = "/output" /\ Inside(o, e).cache = "/cache"
  BY ContainerOptions
<1>2. /\ At(Mounts(o, e), "/output") = HostDir(o.output, "output")
      /\ At(Mounts(o, e), "/cache") = HostDir(o.cache, "cache")
  BY ContainerSees
<1> QED BY <1>1, <1>2 DEF Dir

LEMMA HostDirs ==
    ASSUME NEW o, NEW f, NEW e, OptionsTyped(o)
    PROVE  /\ Dir(OnHost(f, e).mounts, o.output, "output") = HostDir(o.output, "output")
           /\ Dir(OnHost(f, e).mounts, o.cache, "cache") = HostDir(o.cache, "cache")
<1>1. HostDir(o.output, "output") \in HostPaths /\ HostDir(o.cache, "cache") \in HostPaths
  BY LauncherAssumption DEF HostDir, OptionsTyped
<1>2. \A p \in HostPaths : At(OnHost(f, e).mounts, p) = p
  BY HostSees
<1> QED BY <1>1, <1>2 DEF Dir, HostDir

\* Making output and cache turns what is missing into directories.
LEMMA MadeFiles ==
    ASSUME NEW o, NEW m, NEW fs, NEW p \in HostPaths, fs[p] \in {"dir", "file", "missing"}
    PROVE  /\ Makes(o, m, fs)[p] = "file" <=> fs[p] = "file"
           /\ fs[p] = "dir" => Makes(o, m, fs)[p] = "dir"
           /\ ~ o.delete /\ Makes(o, m, fs)[p] = "dir" /\ fs[p] = "missing" =>
                 p \in {Dir(m, o.output, "output"), Dir(m, o.cache, "cache")}
           /\ ~ o.delete /\ p \in {Dir(m, o.output, "output"), Dir(m, o.cache, "cache")}
              /\ fs[p] = "missing" => Makes(o, m, fs)[p] = "dir"
BY DEF Makes

\* A file the host has is the container's too, and so is a directory.
LEMMA FilesAlike ==
    ASSUME NEW o, NEW e, OptionsTyped(o), EnvTyped(e), o.token = Getenv(e, "HF_TOKEN"),
           NEW p \in HostPaths
    PROVE  /\ MadeInside(o, e)[p] = "file" <=> MadeHere(o, e)[p] = "file"
           /\ ~ o.delete /\ MadeHere(o, e)[p] = "dir" => MadeInside(o, e)[p] = "dir"
<1> DEFINE inside == Inside(o, e)
           m == Mounts(o, e)
           fs == Mounted(m, HostFiles)
           h == OnHost(NoFlags, e).mounts
<1>1. HostFiles[p] \in {"dir", "file", "missing"}
  BY LauncherAssumption
<1>2. /\ fs[p] \in {"dir", "file", "missing"}
      /\ fs[p] = "file" <=> HostFiles[p] = "file"
      /\ HostFiles[p] = "dir" => fs[p] = "dir"
  BY <1>1, MountedFiles
<1>3. /\ Dir(m, inside.output, "output") = Dir(h, o.output, "output")
      /\ Dir(m, inside.cache, "cache") = Dir(h, o.cache, "cache")
  BY ContainerDirs, HostDirs
<1>4. inside.delete = o.delete
  BY ContainerOptions
<1> HIDE DEF inside, m, fs, h
<1>5. MadeInside(o, e) = Makes(inside, m, fs) /\ MadeHere(o, e) = Makes(o, h, HostFiles)
  BY DEF MadeInside, MadeHere, inside, m, fs, h
<1>6. MadeInside(o, e)[p] = "file" <=> MadeHere(o, e)[p] = "file"
  BY <1>1, <1>2, <1>5, MadeFiles
<1>7. ASSUME ~ o.delete, MadeHere(o, e)[p] = "dir"
      PROVE  MadeInside(o, e)[p] = "dir"
  <2>1. CASE HostFiles[p] = "dir"
    BY <2>1, <1>2, <1>5, MadeFiles
  <2>2. CASE HostFiles[p] = "file"
    BY <2>2, <1>1, <1>5, <1>7, MadeFiles
  <2>3. CASE HostFiles[p] = "missing"
    <3>1. p \in {Dir(h, o.output, "output"), Dir(h, o.cache, "cache")}
      BY <2>3, <1>1, <1>5, <1>7, MadeFiles
    <3>2. p \in {Dir(m, inside.output, "output"), Dir(m, inside.cache, "cache")}
      BY <3>1, <1>3
    <3>3. CASE fs[p] = "missing"
      BY <3>2, <3>3, <1>4, <1>5, <1>7, <1>2, MadeFiles
    <3>4. CASE fs[p] = "dir"
      BY <3>4, <1>2, <1>5, MadeFiles
    <3> QED BY <3>3, <3>4, <1>2, <2>3
  <2> QED BY <1>1, <2>1, <2>2, <2>3
<1> QED BY <1>6, <1>7

\* The key is the same one, wherever it comes from.
LEMMA ContainerKey ==
    ASSUME NEW o, NEW e, OptionsTyped(o), EnvTyped(e), o.token = Getenv(e, "HF_TOKEN")
    PROVE  Key(Inside(o, e), ContainerEnv(e), Mounts(o, e), MadeInside(o, e))
             = Key(o, e, OnHost(NoFlags, e).mounts, MadeHere(o, e))
<1> DEFINE inside == Inside(o, e)
           c == ContainerEnv(e)
           m == Mounts(o, e)
           fs == MadeInside(o, e)
           hs == MadeHere(o, e)
           h == OnHost(NoFlags, e).mounts
           file == KeyFile(o, e)
<1>1. /\ inside.encrypt = o.encrypt
      /\ inside.keyFile = (IF file # "" THEN "/run/modelwrap-key" ELSE "")
      /\ Getenv(c, "PRIVATE_MODEL_KEY_FILE") = ""
      /\ Getenv(c, "PRIVATE_MODEL_KEY_B64") = Getenv(e, "PRIVATE_MODEL_KEY_B64")
  BY ContainerOptions
<1>2. file \in HostPaths \cup {""} /\ (file # "" => At(m, "/run/modelwrap-key") = file)
  BY ContainerSees
<1>3. file # "" => (fs[file] = "file" <=> hs[file] = "file")
  BY <1>2, FilesAlike
<1>4. file # "" => At(h, file) = file
  BY <1>2, HostSees
<1>5. LoadKey(o, e, h, hs) = (IF file = "" THEN Getenv(e, "PRIVATE_MODEL_KEY_B64")
        ELSE IF At(h, file) \in HostPaths /\ hs[At(h, file)] = "file" THEN At(h, file) ELSE "")
  BY DEF LoadKey, KeyFile
<1>6. CASE file = ""
  <2>1. LoadKey(inside, c, m, fs) = Getenv(c, "PRIVATE_MODEL_KEY_B64")
    BY <1>1, <1>6 DEF LoadKey
  <2> QED BY <2>1, <1>1, <1>5, <1>6 DEF Key
<1>7. CASE file # ""
  <2>1. LoadKey(inside, c, m, fs) = (IF file \in HostPaths /\ fs[file] = "file" THEN file ELSE "")
    BY <1>1, <1>2, <1>7 DEF LoadKey
  <2>2. LoadKey(o, e, h, hs) = (IF file \in HostPaths /\ hs[file] = "file" THEN file ELSE "")
    BY <1>4, <1>5, <1>7
  <2>3. LoadKey(inside, c, m, fs) = LoadKey(o, e, h, hs)
    BY <2>1, <2>2, <1>3, <1>7
  <2> QED BY <2>3, <1>1 DEF Key
<1> QED BY <1>6, <1>7

\* A launched run does what a local one does, but for the two cases of
\* LaunchedLikeLocal in which the container packs.
LEMMA ContainerDoes ==
    ASSUME NEW o, NEW e, OptionsTyped(o), EnvTyped(e), o.token = Getenv(e, "HF_TOKEN")
    PROVE  \/ DoesInside(o, e) = DoesHere(o, e)
           \/ /\ o.modelDir # "" /\ MadeHere(o, e)[o.modelDir] # "dir" /\ DoesHere(o, e) = Failed
              /\ DoesInside(o, e).op = "pack" /\ DoesInside(o, e).source = o.modelDir
           \/ /\ o.modelDir # "" /\ Cut(o.model).name = "" /\ DoesHere(o, e).op = "pack"
              /\ DoesInside(o, e) = [DoesHere(o, e) EXCEPT !.name = "model"]
<1> DEFINE inside == Inside(o, e)
           c == ContainerEnv(e)
           m == Mounts(o, e)
           fs == MadeInside(o, e)
           hs == MadeHere(o, e)
           h == OnHost(NoFlags, e).mounts
           name == Cut(o.model).name
           cache == Dir(h, o.cache, "cache")
           output == Dir(h, o.output, "output")
           key == Key(o, e, h, hs)
<1>1. /\ inside.model = o.model /\ inside.delete = o.delete
      /\ o.modelDir # "" => inside.modelDir = "/model"
      /\ o.modelDir = "" => inside.modelDir = ""
      /\ inside.token = o.token /\ inside.schema = o.schema /\ inside.verify = o.verify
  <2>1. inside.model = o.model /\ inside.token = o.token /\ inside.schema = o.schema
    BY ContainerOptions
  <2>2. /\ o.modelDir # "" => inside.modelDir = "/model"
        /\ o.modelDir = "" => inside.modelDir = ""
    BY ContainerOptions
  <2>3. inside.delete = o.delete
    BY ContainerOptions
  <2>4. inside.verify = o.verify
    BY ContainerOptions
  <2> QED BY <2>1, <2>2, <2>3, <2>4
<1>2. Dir(m, inside.output, "output") = output /\ Dir(m, inside.cache, "cache") = cache
  BY ContainerDirs, HostDirs
<1>3. Key(inside, c, m, fs) = key
  BY ContainerKey
<1>4. Schema(inside) = Schema(o)
  BY <1>1 DEF Schema
<1>5. ASSUME NEW n, NEW latest, NEW source
      PROVE  Packed(inside, n, latest, source, key, cache, output)
               = Packed(o, n, latest, source, key, cache, output)
  BY <1>1, <1>4 DEF Packed
<1>9. ~ o.delete => \A p \in HostPaths : hs[p] = "dir" => fs[p] = "dir"
  BY FilesAlike
<1>10. DoesInside(o, e) = Does(inside, c, m, fs) /\ DoesHere(o, e) = Does(o, e, h, hs)
  BY DEF DoesInside, DoesHere
<1> HIDE DEF inside, c, m, fs, hs, h, name, cache, output, key
<1>6. CASE o.delete
  <2>1. Deletes(inside, m) = Deletes(o, h)
    BY <1>1, <1>2 DEF Deletes, cache, output
  <2> QED BY <2>1, <1>1, <1>6, <1>10 DEF Does
<1>7. CASE ~ o.delete /\ o.modelDir = ""
  <2>1. Packs(inside, c, m, fs) =
          IF Schema(inside) \notin Schemas \/ name = "" THEN Failed
          ELSE Packed(inside, name, "HEAD", "hub", key, cache, output)
    BY <1>1, <1>2, <1>3, <1>7, PacksRemote DEF name
  <2>2. Packs(o, e, h, hs) =
          IF Schema(o) \notin Schemas \/ name = "" THEN Failed
          ELSE Packed(o, name, "HEAD", "hub", key, cache, output)
    BY <1>7, PacksRemote DEF name, cache, output, key
  <2>3. Packs(inside, c, m, fs) = Packs(o, e, h, hs)
    <3>1. Packed(inside, name, "HEAD", "hub", key, cache, output)
            = Packed(o, name, "HEAD", "hub", key, cache, output)
      BY <1>5
    <3>2. CASE Schema(o) \notin Schemas \/ name = ""
      BY <2>1, <2>2, <3>2, <1>4
    <3>3. CASE ~ (Schema(o) \notin Schemas \/ name = "")
      BY <2>1, <2>2, <3>1, <3>3, <1>4
    <3> QED BY <3>2, <3>3
  <2> QED BY <2>3, <1>1, <1>7, <1>10 DEF Does
<1>8. CASE ~ o.delete /\ o.modelDir # ""
  <2> DEFINE dir == o.modelDir
             there == DoesInside(o, e)
             here == DoesHere(o, e)
             nameThere == IF name = "" THEN Base("/model") ELSE name
             nameHere == IF name = "" THEN Base(dir) ELSE name
  <2>1. dir \in HostPaths /\ At(h, dir) = dir /\ At(m, "/model") = dir
    BY <1>8, HostSees, ContainerSees DEF OptionsTyped, h, m
  <2>2. inside.modelDir = "/model"
    BY <1>1, <1>8
  <2>3. there = IF Schema(o) \notin Schemas \/ fs[dir] # "dir" THEN Failed
                ELSE Packed(o, nameThere, dir, dir, key, cache, output)
    <3>1. Packs(inside, c, m, fs) =
            IF Schema(inside) \notin Schemas \/ fs[dir] # "dir" THEN Failed
            ELSE Packed(inside, nameThere, dir, dir, key, cache, output)
      BY <1>1, <1>2, <1>3, <2>1, <2>2, PacksLocal DEF name
    <3>2. there = Packs(inside, c, m, fs)
      BY <1>1, <1>8, <1>10 DEF Does
    <3> QED BY <3>1, <3>2, <1>4, <1>5
  <2>4. here = IF Schema(o) \notin Schemas \/ hs[dir] # "dir" THEN Failed
               ELSE Packed(o, nameHere, dir, dir, key, cache, output)
    <3>1. Packs(o, e, h, hs) =
            IF Schema(o) \notin Schemas \/ hs[dir] # "dir" THEN Failed
            ELSE Packed(o, nameHere, dir, dir, key, cache, output)
      BY <1>8, <2>1, PacksLocal DEF name, cache, output, key
    <3> QED BY <3>1, <1>8, <1>10 DEF Does
  <2>5. CASE hs[dir] # "dir"
    <3>1. here = Failed
      BY <2>4, <2>5
    <3>2. there = Failed \/ (there.op = "pack" /\ there.source = dir)
      <4>1. /\ Packed(o, nameThere, dir, dir, key, cache, output).op = "pack"
            /\ Packed(o, nameThere, dir, dir, key, cache, output).source = dir
        BY DEF Packed
      <4> HIDE DEF there
      <4> QED BY <4>1, <2>3
    <3> QED BY <3>1, <3>2, <2>5, <1>8 DEF hs
  <2>6. CASE hs[dir] = "dir"
    <3>1. fs[dir] = "dir"
      BY <2>1, <2>6, <1>8, <1>9
    <3>2. CASE Schema(o) \notin Schemas \/ name # ""
      BY <3>1, <3>2, <2>3, <2>4, <2>6
    <3>3. CASE Schema(o) \in Schemas /\ name = ""
      <4>1. there = Packed(o, nameThere, dir, dir, key, cache, output)
            /\ here = Packed(o, nameHere, dir, dir, key, cache, output)
        BY <3>1, <3>3, <2>3, <2>4, <2>6
      <4>2. here.op = "pack" /\ there = [here EXCEPT !.name = "model"]
        <5>0. nameThere = "model"
          BY <3>3 DEF Base
        <5> HIDE DEF dir, nameThere, nameHere
        <5>1. [Packed(o, nameHere, dir, dir, key, cache, output) EXCEPT !.name = nameThere]
                = Packed(o, nameThere, dir, dir, key, cache, output)
          BY PackedRenamed
        <5>2. Packed(o, nameHere, dir, dir, key, cache, output).op = "pack"
          BY DEF Packed
        <5> HIDE DEF there, here
        <5> QED BY <4>1, <5>0, <5>1, <5>2
      <4> QED BY <4>2, <3>3, <1>8 DEF name, dir, there, here
    <3> QED BY <3>2, <3>3
  <2> QED BY <2>5, <2>6
<1> QED BY <1>6, <1>7, <1>8 DEF OptionsTyped, name

-----------------------------------------------------------------------------
(* What the two parsers refuse, and what is made on the host.              *)

LEMMA AcceptedSchema ==
    ASSUME NEW f, NEW e, FlagsTyped(f), EnvTyped(e), ~ InvalidSchema(f, e)
    PROVE  Options(f, e).schema = 0 \/ Options(f, e).schema >= 1
<1>1. Options(f, e).schema = (IF f["schema"] # NotGiven THEN f["schema"].flag
                  ELSE IF e["MODELWRAP_SCHEMA"] # NotGiven THEN e["MODELWRAP_SCHEMA"].env
                  ELSE 0)
  BY DEF Options
<1>2. f["schema"] # NotGiven => f["schema"].flag \in Int
  BY FlagValue DEF FlagNames
<1>3. e["MODELWRAP_SCHEMA"] # NotGiven => e["MODELWRAP_SCHEMA"].env \in Int
  BY EnvValue
<1>4. /\ f["schema"] # NotGiven => ~ (f["schema"].flag < 1)
      /\ e["MODELWRAP_SCHEMA"] # NotGiven => ~ (e["MODELWRAP_SCHEMA"].env < 1)
  BY DEF InvalidSchema
<1> QED BY ONLY <1>1, <1>2, <1>3, <1>4

\* The container accepts what the host does, but for a delete with a key file.
LEMMA ContainerRefuses ==
    ASSUME NEW f, NEW e, FlagsTyped(f), EnvTyped(e), ~ Refused(f, e), NEW o, o = Options(f, e),
           Refused(ContainerFlags(o, e), ContainerEnv(e))
    PROVE  o.delete /\ KeyFile(o, e) # ""
<1>1. OptionsTyped(o) /\ o.token = Getenv(e, "HF_TOKEN")
  <2>1. o.token = Getenv(e, "HF_TOKEN")
    BY DEF Options
  <2> QED BY <2>1, OptionsValues
<1>2. o.schema = 0 \/ o.schema >= 1
  BY AcceptedSchema DEF Refused
<1>3. ~ InvalidSchema(ContainerFlags(o, e), ContainerEnv(e))
  <2>1. ContainerEnv(e)["MODELWRAP_SCHEMA"] = NotGiven
    BY DEF ContainerEnv, EnvNames, passthroughEnv
  <2>2. ContainerFlags(o, e)["schema"]
          = (IF o.schema # 0 THEN [flag |-> o.schema, env |-> o.schema] ELSE NotGiven)
    BY DEF ContainerFlags, NoFlags, FlagNames
  <2>3. CASE o.schema = 0
    BY <2>1, <2>2, <2>3 DEF InvalidSchema
  <2>4. CASE o.schema # 0
    <3>1. ContainerFlags(o, e)["schema"].flag = o.schema
      BY <2>2, <2>4
    <3>2. o.schema >= 1 /\ o.schema \in Int
      BY <1>1, <1>2, <2>4 DEF OptionsTyped
    <3> QED BY <2>1, <3>1, <3>2 DEF InvalidSchema
  <2> QED BY <2>3, <2>4
<1>4. InvalidDelete(Inside(o, e))
  BY <1>3 DEF Refused, Inside
<1>5. ~ InvalidDelete(o)
  BY DEF Refused
<1>6. /\ Inside(o, e).delete = o.delete /\ Inside(o, e).verify = o.verify
      /\ Inside(o, e).encrypt = o.encrypt
  <2>1. Inside(o, e).delete = o.delete
    BY <1>1, ContainerOptions
  <2>2. Inside(o, e).verify = o.verify
    BY <1>1, ContainerOptions
  <2>3. Inside(o, e).encrypt = o.encrypt
    BY <1>1, ContainerOptions
  <2> QED BY <2>1, <2>2, <2>3
<1>7. /\ o.modelDir = "" => Inside(o, e).modelDir = ""
      /\ KeyFile(o, e) = "" => Inside(o, e).keyFile = ""
  <2>1. o.modelDir = "" => Inside(o, e).modelDir = ""
    BY <1>1, ContainerOptions
  <2>2. KeyFile(o, e) = "" => Inside(o, e).keyFile = ""
    BY <1>1, ContainerOptions
  <2> QED BY <2>1, <2>2
<1>8. o.delete /\ o.modelDir = "" /\ ~ o.encrypt /\ ~ o.verify
  BY <1>4, <1>5, <1>6 DEF InvalidDelete
<1>9. KeyFile(o, e) # ""
  BY <1>4, <1>6, <1>7, <1>8 DEF InvalidDelete
<1> QED BY <1>8, <1>9

FileMaps == [HostPaths -> {"dir", "file", "missing"}]

LEMMA HostFileMap == HostFiles \in FileMaps
BY LauncherAssumption DEF FileMaps

LEMMA MakesFiles ==
    ASSUME NEW o, NEW m, NEW fs \in FileMaps
    PROVE  /\ Makes(o, m, fs) \in FileMaps
           /\ \A p \in HostPaths : Makes(o, m, fs)[p] # fs[p] =>
                 p = Dir(m, o.output, "output") \/ p = Dir(m, o.cache, "cache")
BY DEF Makes, FileMaps

LEMMA MountedFileMap ==
    ASSUME NEW m, NEW fs \in FileMaps
    PROVE  /\ Mounted(m, fs) \in FileMaps
           /\ \A p \in HostPaths : Mounted(m, fs)[p] # fs[p] => \E path \in DOMAIN m : m[path] = p
BY DEF Mounted, FileMaps

\* The paths an invocation may make something at.
Allowed(o, e) == {HostDir(o.output, "output"), HostDir(o.cache, "cache")}
                 \cup IF o.local THEN {} ELSE {o.modelDir, KeyFile(o, e)}
Kept(o, e, fs) == \A p \in HostPaths : fs[p] # HostFiles[p] => p \in Allowed(o, e)

LEMMA MountsAllowed ==
    ASSUME NEW o, NEW e, ~ o.local, NEW path \in DOMAIN Mounts(o, e)
    PROVE  Mounts(o, e)[path] \in Allowed(o, e)
BY DEF Mounts, Allowed

LEMMA ResultExits ==
    ASSUME NEW o, NEW e, NEW m, NEW fs
    PROVE  Does(o, e, m, fs).exit \in 0 .. 2
<1>1. Failed.exit = 1
  BY DEF Failed
<1>2. Deletes(o, m).exit \in 0 .. 2
  <2>1. CASE Cut(o.model).name = "" \/ Cut(o.model).revision = ""
    <3>1. Deletes(o, m) = Failed
      BY <2>1 DEF Deletes
    <3> QED BY <3>1, <1>1
  <2>2. CASE ~ (Cut(o.model).name = "" \/ Cut(o.model).revision = "")
    <3>1. Deletes(o, m) = [op |-> "delete", exit |-> 0, name |-> Cut(o.model).name,
              revision |-> Cut(o.model).revision,
              cache |-> Dir(m, o.cache, "cache"), output |-> Dir(m, o.output, "output")]
      BY <2>2 DEF Deletes
    <3> HIDE DEF Cut, Dir
    <3> QED BY <3>1
  <2> QED BY <2>1, <2>2
<1>3. ASSUME NEW n, NEW latest, NEW source, NEW key, NEW cache, NEW output
      PROVE  Packed(o, n, latest, source, key, cache, output).exit \in 0 .. 2
  BY DEF Packed
<1>4. CASE o.modelDir = ""
  <2>1. \/ Packs(o, e, m, fs) = Failed
        \/ Packs(o, e, m, fs) = Packed(o, Cut(o.model).name, "HEAD", "hub", Key(o, e, m, fs),
                                       Dir(m, o.cache, "cache"), Dir(m, o.output, "output"))
    BY <1>4, PacksRemote
  <2> QED BY <2>1, <1>1, <1>2, <1>3 DEF Does
<1>5. CASE o.modelDir # "" /\ At(m, o.modelDir) \in HostPaths
  <2> DEFINE name == IF Cut(o.model).name = "" THEN Base(o.modelDir) ELSE Cut(o.model).name
  <2>1. \/ Packs(o, e, m, fs) = Failed
        \/ Packs(o, e, m, fs) = Packed(o, name, At(m, o.modelDir), At(m, o.modelDir),
                     Key(o, e, m, fs), Dir(m, o.cache, "cache"), Dir(m, o.output, "output"))
    BY <1>5, PacksLocal
  <2> HIDE DEF name
  <2> QED BY <2>1, <1>1, <1>2, <1>3 DEF Does
<1>6. CASE o.modelDir # "" /\ At(m, o.modelDir) \notin HostPaths
  <2>1. Packs(o, e, m, fs) = Failed
    BY <1>6 DEF Packs
  <2> QED BY <2>1, <1>1, <1>2 DEF Does
<1> QED BY <1>4, <1>5, <1>6

-----------------------------------------------------------------------------
(* The invariant, by pc: which process runs, what it has parsed and what   *)
(* the launch left on the host.                                            *)
Settings == FlagsTyped(flags) /\ EnvTyped(env)

OnTheHost == proc = OnHost(flags, env) /\ files = HostFiles
InContainer ==
    /\ ~ Refused(flags, env) /\ ~ asked.local
    /\ proc = Container(asked, env)
    /\ files = Mounted(Mounts(asked, env), HostFiles)

AtUser   == /\ proc = OnHost(NoFlags, NoEnv) /\ files = HostFiles
            /\ opts = Options(NoFlags, NoEnv) /\ result = Failed /\ ~ fault
AtParse  == OnTheHost \/ InContainer
AtLaunch == OnTheHost /\ ~ Refused(flags, env) /\ ~ asked.local /\ opts = asked
AtRun    == \/ OnTheHost /\ ~ Refused(flags, env) /\ asked.local /\ opts = asked
            \/ InContainer /\ opts = Inside(asked, env)
AtDone   == /\ LaunchedLikeLocal
            /\ Kept(asked, env, files)
            /\ Refused(flags, env) => files = HostFiles

LauncherInv ==
    /\ TypeOK /\ Settings
    /\ pc = "user"   => AtUser
    /\ pc = "parse"  => AtParse
    /\ pc = "launch" => AtLaunch
    /\ pc = "run"    => AtRun
    /\ pc = "done"   => AtDone

LEMMA AskedTyped ==
    ASSUME Settings
    PROVE  OptionsTyped(asked) /\ asked.token = Getenv(env, "HF_TOKEN")
<1>1. asked.token = Getenv(env, "HF_TOKEN")
  BY DEF asked, Options
<1> QED BY <1>1, OptionsValues DEF Settings, asked

\* A process sees only paths of the host.
LEMMA ProcessSees ==
    ASSUME Settings, OnTheHost \/ InContainer
    PROVE  \A path \in DOMAIN proc.mounts : proc.mounts[path] \in HostPaths
<1>1. CASE OnTheHost
  BY <1>1 DEF OnTheHost, OnHost
<1>2. CASE InContainer
  <2>1. proc.mounts = Mounts(asked, env)
    BY <1>2 DEF InContainer, Container
  <2>2. OptionsTyped(asked) /\ EnvTyped(env)
    BY AskedTyped DEF Settings
  <2> QED BY <2>1, <2>2, ContainerSees
<1> QED BY <1>1, <1>2

\* What a launch makes, all or a part of it, is allowed.
LEMMA LaunchKeeps ==
    ASSUME NEW o, NEW e, ~ o.local, NEW made \in SUBSET DOMAIN Mounts(o, e)
    PROVE  /\ Mounted([path \in made |-> Mounts(o, e)[path]], HostFiles) \in FileMaps
           /\ Kept(o, e, Mounted([path \in made |-> Mounts(o, e)[path]], HostFiles))
<1> DEFINE m == [path \in made |-> Mounts(o, e)[path]]
<1>1. \A path \in DOMAIN m : m[path] \in Allowed(o, e)
  BY MountsAllowed
<1> HIDE DEF m
<1>2. Mounted(m, HostFiles) \in FileMaps
  BY HostFileMap, MountedFileMap
<1>3. Kept(o, e, Mounted(m, HostFiles))
  BY <1>1, HostFileMap, MountedFileMap DEF Kept
<1> QED BY <1>2, <1>3 DEF m

LEMMA MountsMade ==
    ASSUME NEW o, NEW e
    PROVE  /\ Mounts(o, e) = [path \in DOMAIN Mounts(o, e) |-> Mounts(o, e)[path]]
           /\ {"/output", "/cache"} \subseteq DOMAIN Mounts(o, e)
BY DEF Mounts

\* The process that packs or deletes has made its output and cache.
LEMMA RunKeeps ==
    ASSUME Settings, AtRun
    PROVE  /\ Makes(opts, proc.mounts, files) \in FileMaps
           /\ Kept(asked, env, Makes(opts, proc.mounts, files))
<1>1. OptionsTyped(asked) /\ EnvTyped(env) /\ asked.token = Getenv(env, "HF_TOKEN")
  BY AskedTyped DEF Settings
<1>2. CASE OnTheHost /\ opts = asked
  <2>1. proc.mounts = OnHost(flags, env).mounts /\ files = HostFiles /\ files \in FileMaps
    BY <1>2, HostFileMap DEF OnTheHost
  <2>2. /\ Dir(proc.mounts, opts.output, "output") = HostDir(asked.output, "output")
        /\ Dir(proc.mounts, opts.cache, "cache") = HostDir(asked.cache, "cache")
    BY <1>1, <1>2, <2>1, HostDirs
  <2>3. \A p \in HostPaths : Makes(opts, proc.mounts, files)[p] # HostFiles[p] =>
            p = HostDir(asked.output, "output") \/ p = HostDir(asked.cache, "cache")
    BY <2>1, <2>2, MakesFiles
  <2>4. Kept(asked, env, Makes(opts, proc.mounts, files))
    BY <2>3 DEF Kept, Allowed
  <2> QED BY <2>1, <2>4, MakesFiles
<1>3. CASE InContainer /\ opts = Inside(asked, env)
  <2>1. /\ proc.mounts = Mounts(asked, env) /\ ~ asked.local
        /\ files = Mounted(Mounts(asked, env), HostFiles)
    BY <1>3 DEF InContainer, Container
  <2>2. /\ Dir(proc.mounts, opts.output, "output") = HostDir(asked.output, "output")
        /\ Dir(proc.mounts, opts.cache, "cache") = HostDir(asked.cache, "cache")
    BY <1>1, <1>3, <2>1, ContainerDirs
  <2>3. files \in FileMaps /\ Kept(asked, env, files)
    BY <2>1, MountsMade, LaunchKeeps
  <2>4. \A p \in HostPaths : Makes(opts, proc.mounts, files)[p] # files[p] =>
            p = HostDir(asked.output, "output") \/ p = HostDir(asked.cache, "cache")
    BY <2>2, <2>3, MakesFiles
  <2>5. Kept(asked, env, Makes(opts, proc.mounts, files))
    BY <2>3, <2>4 DEF Kept, Allowed
  <2> QED BY <2>3, <2>5, MakesFiles
<1> QED BY <1>2, <1>3 DEF AtRun

\* What it does is what the promise allows.
Outcome == Does(opts, proc.env, proc.mounts, Makes(opts, proc.mounts, files))
LEMMA RunPromised ==
    ASSUME Settings, AtRun
    PROVE  \/ Outcome = direct
           \/ launched /\ DirMissing /\ direct = Failed
              /\ Outcome.op = "pack" /\ Outcome.source = asked.modelDir
           \/ launched /\ NameDerived /\ direct.op = "pack"
              /\ Outcome = [direct EXCEPT !.name = "model"]
<1>1. OptionsTyped(asked) /\ EnvTyped(env) /\ asked.token = Getenv(env, "HF_TOKEN")
  BY AskedTyped DEF Settings
<1>0. host = OnHost(NoFlags, env).mounts /\ hostMade = MadeHere(asked, env)
  BY DEF host, hostMade, OnHost, MadeHere
<1>2. direct = DoesHere(asked, env)
  <2>1. ~ Refused(flags, env)
    BY DEF AtRun, InContainer
  <2> QED BY <1>0, <2>1 DEF direct, DoesHere
<1>3. CASE OnTheHost /\ opts = asked
  <2>1. proc.env = env /\ proc.mounts = OnHost(NoFlags, env).mounts /\ files = HostFiles
    BY <1>3 DEF OnTheHost, OnHost
  <2> QED BY <2>1, <1>2, <1>3 DEF DoesHere, MadeHere, Outcome
<1>4. CASE InContainer /\ opts = Inside(asked, env)
  <2>1. /\ proc.env = ContainerEnv(env) /\ proc.mounts = Mounts(asked, env)
        /\ files = Mounted(Mounts(asked, env), HostFiles)
    BY <1>4 DEF InContainer, Container
  <2>2. Outcome = DoesInside(asked, env)
    BY <2>1, <1>4 DEF DoesInside, MadeInside, Outcome
  <2>3. launched
    <3>1. ContainerEnv(env)["MODELWRAP_IN_CONTAINER"] = "1"
      BY DEF ContainerEnv, EnvNames, passthroughEnv
    <3> QED BY <2>1, <3>1, NotValue DEF launched
  <2> QED BY <1>0, <1>1, <1>2, <2>2, <2>3, ContainerDoes DEF DirMissing, NameDerived
<1> QED BY <1>3, <1>4 DEF AtRun

LEMMA InvInit == Init => LauncherInv
<1> SUFFICES ASSUME Init PROVE LauncherInv
  OBVIOUS
<1>1. FlagsTyped(NoFlags) /\ EnvTyped(NoEnv)
  BY DEF FlagsTyped, EnvTyped, NoFlags, NoEnv
<1>2. Settings
  BY <1>1 DEF Init, Settings
<1>3. AtUser
  BY DEF Init, AtUser
<1>4. opts.schema >= 0 /\ opts.delete \in BOOLEAN /\ opts.local \in BOOLEAN
  <2>1. ~ InvalidSchema(NoFlags, NoEnv)
    BY DEF InvalidSchema, NoFlags, NoEnv, FlagNames, EnvNames
  <2>2. opts = Options(NoFlags, NoEnv)
    BY DEF Init
  <2>3. OptionsTyped(opts)
    BY <1>1, <2>2, OptionsValues
  <2>4. opts.schema = 0 \/ opts.schema >= 1
    BY <1>1, <2>1, <2>2, AcceptedSchema
  <2>5. opts.schema \in Int /\ opts.delete \in BOOLEAN /\ opts.local \in BOOLEAN
    BY <2>3 DEF OptionsTyped
  <2>6. opts.schema >= 0
    BY ONLY <2>4, <2>5
  <2> QED BY <2>5, <2>6
<1>5. TypeOK
  <2>1. DOMAIN flags = FlagNames /\ DOMAIN env = EnvNames
    BY DEF Init, NoFlags, NoEnv
  <2>2. \A path \in DOMAIN proc.mounts : proc.mounts[path] \in HostPaths
    BY DEF Init, OnHost
  <2>3. files \in [HostPaths -> {"dir", "file", "missing"}]
    BY HostFileMap DEF Init, FileMaps
  <2>4. result.exit \in 0 .. 2
    BY DEF Init, Failed
  <2>5. settings \in 0 .. MaxSettings /\ fault \in BOOLEAN
        /\ pc \in {"user", "parse", "launch", "run", "done"}
    <3>1. fault = FALSE /\ pc = "user"
      BY DEF Init
    <3>2. settings = 0
      BY DEF Init
    <3>3. settings \in 0 .. MaxSettings
      BY ONLY <3>2, Bound
    <3> QED BY <3>1, <3>3
  <2> QED BY <1>4, <2>1, <2>2, <2>3, <2>4, <2>5 DEF TypeOK
<1> QED BY <1>2, <1>3, <1>5 DEF Init, LauncherInv

LEMMA SettingsNext ==
    ASSUME Settings, [Next]_vars
    PROVE  Settings'
<1>1. CASE \E n \in DOMAIN EnvValues : \E value \in EnvValues[n] : Export(n, value)
  <2>1. PICK n \in DOMAIN EnvValues : \E value \in EnvValues[n] : Export(n, value)
    BY <1>1
  <2>2. PICK value \in EnvValues[n] : Export(n, value)
    BY <2>1
  <2>3. flags' = flags /\ env' = [env EXCEPT ![n] = value]
    BY <2>2 DEF Export
  <2>4. EnvTyped(env')
    BY <2>3 DEF Settings, EnvTyped
  <2> QED BY <2>3, <2>4 DEF Settings
<1>2. CASE \E n \in DOMAIN FlagValues : \E value \in FlagValues[n] : Pass(n, value)
  <2>1. PICK n \in DOMAIN FlagValues : \E value \in FlagValues[n] : Pass(n, value)
    BY <1>2
  <2>2. PICK value \in FlagValues[n] : Pass(n, value)
    BY <2>1
  <2>3. env' = env /\ flags' = [flags EXCEPT ![n] = value]
    BY <2>2 DEF Pass
  <2>4. FlagsTyped(flags')
    BY <2>3 DEF Settings, FlagsTyped
  <2> QED BY <2>3, <2>4 DEF Settings
<1>3. CASE UNCHANGED <<flags, env>>
  BY <1>3 DEF Settings
<1>4. Start \/ Refuse \/ Accept \/ Launch \/ LaunchFails \/ Run \/ RunFails \/ UNCHANGED vars
        => UNCHANGED <<flags, env>>
  BY DEF Start, Refuse, Accept, Launch, LaunchFails, Run, RunFails, Exits, vars
<1> QED BY <1>1, <1>2, <1>3, <1>4 DEF Next

\* Once the process runs, what was asked for does not change.
LEMMA AskedKept ==
    ASSUME Start \/ Refuse \/ Accept \/ Launch \/ LaunchFails \/ Run \/ RunFails
    PROVE  /\ flags' = flags /\ env' = env /\ asked' = asked /\ direct' = direct
           /\ KeyFileExported' = KeyFileExported /\ DirMissing' = DirMissing
           /\ NameDerived' = NameDerived /\ settings' = settings
<1>1. flags' = flags /\ env' = env /\ settings' = settings
  BY DEF Start, Refuse, Accept, Launch, LaunchFails, Run, RunFails, Exits
<1>2. asked' = asked
  BY <1>1 DEF asked
<1> QED BY <1>1, <1>2 DEF direct, host, hostMade, KeyFileExported, DirMissing, NameDerived

LEMMA StartInv == LauncherInv /\ Start => LauncherInv'
<1> SUFFICES ASSUME LauncherInv, Start PROVE LauncherInv'
  OBVIOUS
<1>1. pc' = "parse" /\ proc' = OnHost(flags, env) /\ files' = HostFiles
  BY DEF Start, LauncherInv, AtUser
<1>2. Settings'
  BY SettingsNext DEF LauncherInv, Next
<1>3. OnTheHost'
  BY <1>1, AskedKept DEF OnTheHost
<1>4. TypeOK'
  <2>1. \A path \in DOMAIN proc'.mounts : proc'.mounts[path] \in HostPaths
    BY <1>1 DEF OnHost
  <2> QED BY <1>1, <2>1 DEF Start, LauncherInv, TypeOK
<1> QED BY <1>1, <1>2, <1>3, <1>4 DEF LauncherInv, AtParse

LEMMA UserInv ==
    ASSUME LauncherInv, NEW n, NEW value, Settings', Export(n, value) \/ Pass(n, value)
    PROVE  LauncherInv'
<1>1. /\ pc = "user" /\ settings < MaxSettings /\ settings' = settings + 1
      /\ UNCHANGED <<pc, proc, opts, files, result, fault>>
  BY DEF Export, Pass
<1>2. AtUser'
  BY <1>1 DEF LauncherInv, AtUser
<1>3. TypeOK'
  <2>1. DOMAIN flags' = FlagNames /\ DOMAIN env' = EnvNames
    BY DEF Settings, FlagsTyped, EnvTyped
  <2>2. settings' \in 0 .. MaxSettings
    <3>1. settings \in 0 .. MaxSettings
      BY DEF LauncherInv, TypeOK
    <3> QED BY ONLY <1>1, <3>1, Bound
  <2> QED BY <1>1, <2>1, <2>2 DEF LauncherInv, TypeOK
<1> QED BY <1>1, <1>2, <1>3 DEF LauncherInv

\* An invocation that ends with the files and the result it should.
LEMMA ExitInv ==
    ASSUME LauncherInv, Refuse \/ LaunchFails \/ Run \/ RunFails,
           result'.exit \in 0 .. 2, files' \in FileMaps,
           LaunchedLikeLocal', Kept(asked, env, files'),
           Refused(flags, env) => files' = HostFiles
    PROVE  LauncherInv'
<1>1. pc' = "done" /\ UNCHANGED <<proc, opts>> /\ fault' \in BOOLEAN
  BY DEF Refuse, LaunchFails, Run, RunFails, Exits
<1>2. flags' = flags /\ env' = env /\ asked' = asked /\ settings' = settings
  BY AskedKept
<1>3. Settings'
  BY <1>2 DEF LauncherInv, Settings
<1>4. AtDone'
  BY <1>2 DEF AtDone
<1>5. TypeOK'
  BY <1>1, <1>2 DEF LauncherInv, TypeOK, FileMaps
<1> QED BY <1>1, <1>3, <1>4, <1>5 DEF LauncherInv

LEMMA RefuseInv == LauncherInv /\ Refuse => LauncherInv'
<1> SUFFICES ASSUME LauncherInv, Refuse PROVE LauncherInv'
  OBVIOUS
<1>1. /\ AtParse /\ Settings /\ Refused(proc.flags, proc.env)
      /\ result' = [op |-> "refused", exit |-> 2] /\ files' = files /\ proc' = proc
  BY DEF Refuse, Exits, LauncherInv
<1>2. asked' = asked /\ direct' = direct /\ KeyFileExported' = KeyFileExported
  BY AskedKept
<1>3. result'.exit \in 0 .. 2
  BY <1>1
<1>4. CASE OnTheHost
  <2>1. Refused(flags, env) /\ files' = HostFiles
    BY <1>1, <1>4 DEF OnTheHost, OnHost
  <2>2. result' = direct'
    BY <1>1, <1>2, <2>1 DEF direct
  <2>3. LaunchedLikeLocal'
    BY <2>2 DEF LaunchedLikeLocal
  <2>4. Kept(asked, env, files') /\ files' \in FileMaps
    BY <2>1, HostFileMap DEF Kept
  <2> QED BY <1>3, <2>1, <2>3, <2>4, ExitInv
<1>5. CASE InContainer
  <2>1. /\ ~ Refused(flags, env) /\ ~ asked.local
        /\ proc = Container(asked, env) /\ files' = Mounted(Mounts(asked, env), HostFiles)
    BY <1>1, <1>5 DEF InContainer
  <2>2. Refused(ContainerFlags(asked, env), ContainerEnv(env))
    BY <1>1, <2>1 DEF Container
  <2>3. KeyFileExported
    <3>1. FlagsTyped(flags) /\ EnvTyped(env) /\ asked = Options(flags, env)
      BY <1>1 DEF Settings, asked
    <3> QED BY <2>1, <2>2, <3>1, ContainerRefuses DEF KeyFileExported
  <2>4. launched
    <3>1. ContainerEnv(env)["MODELWRAP_IN_CONTAINER"] = "1"
      BY DEF ContainerEnv, EnvNames, passthroughEnv
    <3> QED BY <2>1, <3>1, NotValue DEF launched, Container
  <2>5. launched'
    BY <1>1, <2>4 DEF launched
  <2>6. LaunchedLikeLocal'
    BY <1>1, <1>2, <2>3, <2>5 DEF LaunchedLikeLocal
  <2>7. Kept(asked, env, files') /\ files' \in FileMaps
    BY <2>1, MountsMade, LaunchKeeps
  <2> QED BY <1>3, <2>1, <2>6, <2>7, ExitInv
<1> QED BY <1>1, <1>4, <1>5 DEF AtParse

LEMMA AcceptInv == LauncherInv /\ Accept => LauncherInv'
<1> SUFFICES ASSUME LauncherInv, Accept PROVE LauncherInv'
  OBVIOUS
<1>1. /\ AtParse /\ Settings /\ ~ Refused(proc.flags, proc.env)
      /\ opts' = Options(proc.flags, proc.env)
      /\ pc' = (IF opts'.local \/ proc.env["MODELWRAP_IN_CONTAINER"] = "1" THEN "run" ELSE "launch")
      /\ UNCHANGED <<proc, files, result, fault>>
  BY DEF Accept, LauncherInv
<1>2. flags' = flags /\ env' = env /\ asked' = asked /\ settings' = settings
  BY AskedKept
<1>3. Settings'
  BY <1>1, <1>2 DEF Settings
<1>4. OptionsTyped(asked) /\ EnvTyped(env) /\ asked.token = Getenv(env, "HF_TOKEN")
  BY <1>1, AskedTyped DEF Settings
<1>5. ~ Refused(flags, env) => asked.schema >= 0
  <2>1. Refused(flags, env) \/ asked.schema = 0 \/ asked.schema >= 1
    BY <1>1, AcceptedSchema DEF Settings, asked, Refused
  <2>2. asked.schema \in Int
    BY <1>4 DEF OptionsTyped
  <2>3. asked.schema = 0 \/ asked.schema >= 1 => asked.schema >= 0
    BY ONLY <2>2
  <2> QED BY <2>1, <2>3
<1>6. CASE OnTheHost
  <2>1. opts' = asked /\ ~ Refused(flags, env)
    BY <1>1, <1>6 DEF OnTheHost, OnHost, asked
  <2>2. proc.env["MODELWRAP_IN_CONTAINER"] = NotGiven
    BY <1>4, <1>6, EnvValue DEF OnTheHost, OnHost
  <2>3. OnTheHost'
    BY <1>1, <1>2, <1>6 DEF OnTheHost
  <2>4. pc' = (IF asked.local THEN "run" ELSE "launch")
    BY <1>1, <2>1, <2>2, NotValue
  <2>5. TypeOK'
    BY <1>1, <1>2, <1>4, <1>5, <2>1, <2>4 DEF LauncherInv, TypeOK, OptionsTyped
  <2>6. ~ Refused(flags, env)' /\ opts' = asked'
    BY <1>2, <2>1
  <2>7. CASE asked.local
    <3>1. AtRun' /\ pc' = "run"
      BY <1>2, <2>3, <2>4, <2>6, <2>7 DEF AtRun
    <3> QED BY <1>3, <2>5, <3>1 DEF LauncherInv
  <2>8. CASE ~ asked.local
    <3>1. AtLaunch' /\ pc' = "launch"
      BY <1>2, <2>3, <2>4, <2>6, <2>8 DEF AtLaunch
    <3> QED BY <1>3, <2>5, <3>1 DEF LauncherInv
  <2> QED BY <2>7, <2>8
<1>7. CASE InContainer
  <2>1. opts' = Inside(asked, env) /\ ~ Refused(flags, env)
    BY <1>1, <1>7 DEF InContainer, Container, Inside
  <2>2. proc.env["MODELWRAP_IN_CONTAINER"] = "1"
    <3>1. ContainerEnv(env)["MODELWRAP_IN_CONTAINER"] = "1"
      BY DEF ContainerEnv, EnvNames, passthroughEnv
    <3> QED BY <3>1, <1>7 DEF InContainer, Container
  <2>3. pc' = "run"
    BY <1>1, <2>2
  <2>4. InContainer'
    BY <1>1, <1>2, <1>7 DEF InContainer
  <2>5. opts'.schema = asked.schema
    BY <1>4, <2>1, ContainerOptions
  <2>6. opts'.delete = asked.delete
    BY <1>4, <2>1, ContainerOptions
  <2>7. opts'.local = FALSE
    BY <1>4, <2>1, ContainerOptions
  <2>8. TypeOK'
    BY <1>1, <1>2, <1>4, <1>5, <2>1, <2>3, <2>5, <2>6, <2>7 DEF LauncherInv, TypeOK, OptionsTyped
  <2>9. AtRun'
    BY <1>2, <2>1, <2>4 DEF AtRun
  <2> QED BY <1>3, <2>3, <2>8, <2>9 DEF LauncherInv
<1> QED BY <1>1, <1>6, <1>7 DEF AtParse

LEMMA LaunchInv == LauncherInv /\ Launch => LauncherInv'
<1> SUFFICES ASSUME LauncherInv, Launch PROVE LauncherInv'
  OBVIOUS
<1>1. /\ AtLaunch /\ Settings /\ pc' = "parse" /\ proc' = Container(opts, env)
      /\ files' = Mounted(proc'.mounts, files) /\ UNCHANGED <<opts, result, fault>>
  BY DEF Launch, LauncherInv
<1>2. flags' = flags /\ env' = env /\ asked' = asked /\ settings' = settings
  BY AskedKept
<1>3. Settings'
  BY <1>1, <1>2 DEF Settings
<1>4. /\ opts = asked /\ ~ asked.local /\ ~ Refused(flags, env) /\ files = HostFiles
  BY <1>1 DEF AtLaunch, OnTheHost
<1>5. proc'.mounts = Mounts(asked, env)
  BY <1>1, <1>4 DEF Container
<1>6. InContainer'
  BY <1>1, <1>2, <1>4, <1>5 DEF InContainer
<1>7. TypeOK'
  <2>1. \A path \in DOMAIN proc'.mounts : proc'.mounts[path] \in HostPaths
    <3>1. OptionsTyped(asked) /\ EnvTyped(env)
      BY <1>1, AskedTyped DEF Settings
    <3> QED BY <1>5, <3>1, ContainerSees
  <2>2. files' \in FileMaps
    BY <1>1, <1>4, HostFileMap, MountedFileMap
  <2> QED BY <1>1, <1>2, <2>1, <2>2 DEF LauncherInv, TypeOK, FileMaps
<1> QED BY <1>1, <1>3, <1>6, <1>7 DEF LauncherInv, AtParse

LEMMA LaunchFailsInv == LauncherInv /\ LaunchFails => LauncherInv'
<1> SUFFICES ASSUME LauncherInv, LaunchFails PROVE LauncherInv'
  OBVIOUS
<1>1. AtLaunch /\ result' = Failed /\ fault' = TRUE
  BY DEF LaunchFails, Exits, LauncherInv
<1>2. opts = asked /\ ~ asked.local /\ ~ Refused(flags, env) /\ files = HostFiles
  BY <1>1 DEF AtLaunch, OnTheHost
<1>3. PICK made \in {{}, {"/output"}, {"/output", "/cache"}, DOMAIN Mounts(asked, env)} :
          files' = Mounted([path \in made |-> Mounts(asked, env)[path]], HostFiles)
  BY <1>2 DEF LaunchFails
<1>4. made \in SUBSET DOMAIN Mounts(asked, env)
  BY MountsMade
<1>5. files' \in FileMaps /\ Kept(asked, env, files')
  BY <1>2, <1>3, <1>4, LaunchKeeps
<1>6. result'.exit \in 0 .. 2
  BY <1>1 DEF Failed
<1>7. LaunchedLikeLocal'
  BY <1>1 DEF LaunchedLikeLocal
<1> QED BY <1>2, <1>5, <1>6, <1>7, ExitInv

LEMMA RunInv == LauncherInv /\ Run => LauncherInv'
<1> SUFFICES ASSUME LauncherInv, Run PROVE LauncherInv'
  OBVIOUS
<1>1. /\ AtRun /\ Settings /\ result' = Outcome /\ proc' = proc
      /\ files' = Makes(opts, proc.mounts, files)
  BY DEF Run, Exits, LauncherInv, Outcome
<1>2. asked' = asked /\ direct' = direct /\ KeyFileExported' = KeyFileExported
      /\ DirMissing' = DirMissing /\ NameDerived' = NameDerived
  BY AskedKept
<1>3. result'.exit \in 0 .. 2
  BY <1>1, ResultExits DEF Outcome
<1>4. files' \in FileMaps /\ Kept(asked, env, files')
  BY <1>1, RunKeeps
<1>5. ~ Refused(flags, env)
  BY <1>1 DEF AtRun, InContainer
<1>6. launched' = launched
  BY <1>1 DEF launched
<1>7. LaunchedLikeLocal'
  <2>1. \/ result' = direct
        \/ launched /\ DirMissing /\ direct = Failed
           /\ result'.op = "pack" /\ result'.source = asked.modelDir
        \/ launched /\ NameDerived /\ direct.op = "pack"
           /\ result' = [direct EXCEPT !.name = "model"]
    BY <1>1, RunPromised
  <2> QED BY <1>2, <1>6, <2>1 DEF LaunchedLikeLocal
<1> QED BY <1>3, <1>4, <1>5, <1>7, ExitInv

LEMMA RunFailsInv == LauncherInv /\ RunFails => LauncherInv'
<1> SUFFICES ASSUME LauncherInv, RunFails PROVE LauncherInv'
  OBVIOUS
<1>1. /\ AtRun /\ Settings /\ result' = Failed /\ fault' = TRUE
      /\ files' = Makes(opts, proc.mounts, files)
  BY DEF RunFails, Exits, LauncherInv
<1>2. result'.exit \in 0 .. 2
  BY <1>1 DEF Failed
<1>3. files' \in FileMaps /\ Kept(asked, env, files')
  BY <1>1, RunKeeps
<1>4. ~ Refused(flags, env)
  BY <1>1 DEF AtRun, InContainer
<1>5. LaunchedLikeLocal'
  BY <1>1 DEF LaunchedLikeLocal
<1> QED BY <1>2, <1>3, <1>4, <1>5, ExitInv

LEMMA StutterInv == LauncherInv /\ UNCHANGED vars => LauncherInv'
<1> SUFFICES ASSUME LauncherInv, UNCHANGED vars PROVE LauncherInv'
  OBVIOUS
<1>1. /\ flags' = flags /\ env' = env /\ settings' = settings /\ pc' = pc /\ proc' = proc
      /\ opts' = opts /\ files' = files /\ result' = result /\ fault' = fault
  BY DEF vars
<1>2. Settings' /\ TypeOK'
  BY <1>1 DEF LauncherInv, Settings, TypeOK
<1>3. asked' = asked
  BY <1>1 DEF asked
<1>4. (AtUser => AtUser') /\ (OnTheHost => OnTheHost') /\ (InContainer => InContainer')
  BY <1>1, <1>3 DEF AtUser, OnTheHost, InContainer
<1>5. (AtParse => AtParse') /\ (AtLaunch => AtLaunch') /\ (AtRun => AtRun')
  BY <1>1, <1>3, <1>4 DEF AtParse, AtLaunch, AtRun
<1>6. LaunchedLikeLocal => LaunchedLikeLocal'
  <2>1. direct' = direct /\ launched' = launched /\ KeyFileExported' = KeyFileExported
        /\ DirMissing' = DirMissing /\ NameDerived' = NameDerived
    BY <1>1, <1>3 DEF direct, host, hostMade, launched, KeyFileExported, DirMissing, NameDerived
  <2> QED BY <1>1, <1>3, <2>1 DEF LaunchedLikeLocal
<1>7. AtDone => AtDone'
  BY <1>1, <1>3, <1>6 DEF AtDone
<1> QED BY <1>1, <1>2, <1>4, <1>5, <1>7 DEF LauncherInv

(* The invariant holds in every state: what the process at work was given  *)
(* stays the translation of what the user asked for.                       *)
THEOREM LauncherSound == Spec => []LauncherInv
<1>1. LauncherInv /\ [Next]_vars => LauncherInv'
  <2> SUFFICES ASSUME LauncherInv, [Next]_vars PROVE LauncherInv'
    OBVIOUS
  <2>1. Settings'
    BY SettingsNext DEF LauncherInv
  <2>2. CASE \E n \in DOMAIN EnvValues : \E value \in EnvValues[n] : Export(n, value)
    BY <2>1, <2>2, UserInv
  <2>3. CASE \E n \in DOMAIN FlagValues : \E value \in FlagValues[n] : Pass(n, value)
    BY <2>1, <2>3, UserInv
  <2>4. CASE Start \/ Refuse \/ Accept
    BY <2>4, StartInv, RefuseInv, AcceptInv
  <2>5. CASE Launch \/ LaunchFails \/ Run \/ RunFails
    BY <2>5, LaunchInv, LaunchFailsInv, RunInv, RunFailsInv
  <2>6. CASE UNCHANGED vars
    BY <2>6, StutterInv
  <2> QED BY <2>2, <2>3, <2>4, <2>5, <2>6 DEF Next
<1> QED BY InvInit, <1>1, PTL DEF Spec

(* Type correctness of the invocation: the paths a process has mounted are *)
(* the host's and what it exits with is one of the command's statuses.     *)
THEOREM LauncherTypes == Spec => []TypeOK
<1>1. LauncherInv => TypeOK
  BY DEF LauncherInv
<1> QED BY <1>1, LauncherSound, PTL

(* "it re-executes itself inside the digest-pinned packer image via        *)
(* docker, translating host paths into container mounts" (main.go:4-7):    *)
(* whatever the settings and the host's files, a launched run does what    *)
(* --local does, up to the three cases LaunchedLikeLocal names.            *)
THEOREM LaunchIsLocal == Spec => []LaunchedLikeLocal
<1>1. LauncherInv => LaunchedLikeLocal
  BY DEF LauncherInv, AtDone, LaunchedLikeLocal
<1> QED BY <1>1, LauncherSound, PTL

(* "Pre-create so docker does not create it root-owned" (launcher.go:63):  *)
(* nothing is made on the host but output and cache, and a model directory *)
(* or key file that docker is to mount and does not find.                  *)
THEOREM LaunchKeepsHost == Spec => []HostFilesKept
<1>1. LauncherInv => HostFilesKept
  <2> SUFFICES ASSUME LauncherInv PROVE HostFilesKept
    OBVIOUS
  <2>1. OptionsTyped(asked)
    BY AskedTyped DEF LauncherInv
  <2>2. /\ Dir(host, asked.output, "output") = HostDir(asked.output, "output")
        /\ Dir(host, asked.cache, "cache") = HostDir(asked.cache, "cache")
    BY <2>1, HostDirs DEF host
  <2>3. Kept(asked, env, files) /\ (Refused(flags, env) => files = HostFiles)
    <3>1. CASE pc = "user"
      BY <3>1 DEF LauncherInv, AtUser, Kept
    <3>2. CASE OnTheHost
      BY <3>2 DEF OnTheHost, Kept
    <3>3. CASE InContainer
      <4>1. ~ asked.local /\ files = Mounted(Mounts(asked, env), HostFiles)
        BY <3>3 DEF InContainer
      <4> QED BY <4>1, <3>3, MountsMade, LaunchKeeps DEF InContainer
    <3>4. CASE pc = "done"
      BY <3>4 DEF LauncherInv, AtDone
    <3>5. pc \in {"user", "parse", "launch", "run", "done"}
      BY DEF LauncherInv, TypeOK
    <3>6. pc = "user" \/ pc = "done" \/ OnTheHost \/ InContainer
      BY <3>5 DEF LauncherInv, AtParse, AtLaunch, AtRun
    <3> QED BY <3>1, <3>2, <3>3, <3>4, <3>6
  <2>4. {p \in HostPaths : files[p] # HostFiles[p]} \subseteq Allowed(asked, env)
    BY <2>3 DEF Kept
  <2> QED BY <2>2, <2>3, <2>4 DEF HostFilesKept, Allowed
<1> QED BY <1>1, LauncherSound, PTL

=============================================================================
