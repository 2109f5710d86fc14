------------------------------ MODULE MCStore ------------------------------
(* A byte array, a configuration variable, the registry of variables, or a  *)
(* logger: which of them is at work is chosen at the start.                 *)
EXTENDS Buffers, Config, Logger

VARIABLE which

MCNumbers == {{}, {31}, {32}, {35, 36}, {0, 7, 13}, {6, 7, 31}, {0, 63}, 0..31, 0..63}

vars == <<which, bytesVars, configVars, registryVars, logVars>>
Init ==
  /\ BytesInit /\ ConfigInit /\ RegistryInit /\ LogInit
  /\ which \in {"bytes", "config", "registry", "log"}
Next ==
  /\ UNCHANGED which
  /\ \/ which = "bytes" /\ BytesNext /\ UNCHANGED <<configVars, registryVars, logVars>>
     \/ which = "config" /\ ConfigNext /\ UNCHANGED <<bytesVars, registryVars, logVars>>
     \/ which = "registry" /\ RegistryNext /\ UNCHANGED <<bytesVars, configVars, logVars>>
     \/ which = "log" /\ LogNext /\ UNCHANGED <<bytesVars, configVars, registryVars>>
Spec ==
  /\ Init /\ [][Next]_vars /\ (\A t \in Users : WF_configVars(UserStep(t)))
  /\ WF_vars(which = "log" /\ LogThread /\ UNCHANGED <<which, bytesVars, configVars, registryVars>>)

(* What holds in every state of the array, of the configuration and of the  *)
(* logger (bytearray.cc, config.h:311-349, log.cc:291-338).                 *)
StoreSound == ByteArraySound /\ ConfigSound /\ CrashOnlyByRace

(* What is logged is written while the logger runs, and the calls on a      *)
(* variable that was never loaded return (log.cc:315, config.h:329).        *)
StoreEnds == EntriesFlushed /\ CallsReturn
=============================================================================
