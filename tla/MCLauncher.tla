----------------------------- MODULE MCLauncher -----------------------------
(* Every invocation of up to MaxSettings of the settings below.  A schema  *)
(* text is what flag.IntVar and what strconv.Atoi read in it: 2, 0, a      *)
(* word, 0x2 and 010.                                                      *)
EXTENDS Launcher

SchemaTexts == {[flag |-> 2, env |-> 2], [flag |-> 0, env |-> 0], [flag |-> -1, env |-> -1],
                [flag |-> 2, env |-> -1], [flag |-> 8, env |-> 10]}

MCEnvValues ==
    [MODEL |-> {"m@r"}, MODEL_DIR |-> {"weights"}, CACHE_DIR |-> {"c"}, OUTPUT_DIR |-> {"o"},
     VERIFY |-> {"1"}, ENCRYPTION |-> {"1"}, HF_TOKEN |-> {"token"},
     PRIVATE_MODEL_KEY_FILE |-> {"oldkey"}, PRIVATE_MODEL_KEY_B64 |-> {"b64"},
     MODELWRAP_SCHEMA |-> SchemaTexts]

MCFlagValues ==
    [model |-> {"m@r", "m"}, modelDir |-> {"weights", "typo", "o", ""}, keyFile |-> {"key", "nokey"},
     output |-> {"o2"}, cache |-> {"c2"}, schema |-> SchemaTexts, delete |-> {TRUE},
     verify |-> BOOLEAN, encrypt |-> BOOLEAN, local |-> {TRUE}]

MCHostFiles ==
    [p \in {"output", "cache", "c", "o", "c2", "o2", "weights", "typo", "oldkey", "key", "nokey"} |->
        CASE p \in {"weights", "o2"} -> "dir"
          [] p \in {"oldkey", "key"} -> "file"
          [] OTHER                   -> "missing"]
=============================================================================
