----------------------------- MODULE OsFunctions -----------------------------
(***************************************************************************)
(* One run of one of the functions of OsProcesses, OsDesktop and            *)
(* OsServices, with every call that may fail free to fail.  What the code   *)
(* is known to get wrong is listed by name: the properties say that this is *)
(* all, on every way through every function.                                *)
(***************************************************************************)
EXTENDS TLC, OsProcesses, OsServices

OsTable == ProcessFunctions @@ DesktopFunctions @@ ServiceFunctions

OsInit == \E f \in DOMAIN OsTable : StartCall(f, OsTable[f])

\* What the function, by this table, may get wrong.
Excused(table) == IF call \in DOMAIN table THEN table[call] ELSE {}

\* Not given back on some way out.
Leaks == [
    StartProcessInSameUser |-> {"hProcess", "hThread", "hToken", "hTokenDup", "pEnv"},
    StartProcessInCurrentUser |-> {"hUserToken", "GetTokenByName.hProcess"},
    GetProcessNameByPid |-> {"processHandle"},
    FirewallHelper |-> {"fw_policy2"},
    AddToFirewall |-> {"All"},
    DetectAudioDevices |-> {"deviceId"},
    UnhandledExceptionFilter |-> {"hModule"},
    NewLogonTask |->
        {"pTaskDefinition", "pRegInfo", "pActionCollect", "pTriggers", "pTrigger"},
    NewTimeTask |-> {"pTask", "pTimeTrigger"},
    Detect |-> {"pEnumerator", "pclsObj"},
    RestartDevice |-> {"hToken"},
    GetCurrentCpuSpeed |-> {"query"},
    DecodeImage |-> {"buffer"}]

\* Used or given back on some way though it is not open there: never set, the call
\* that was to yield it having failed, or given back before.
Misuses == [
    DupAdminToken |-> {"hToken"},
    StartProcessInWorkDir |->
        {"hToken", "hDuplicatedToken", "lpEnvironment", "hProcess", "hThread"},
    StartProcessInCurrentUser |-> {"token", "GetTokenByName.hProcess"},
    FirewallHelper |-> {"com"},
    AddToFirewall |-> {"fw_rule_item"},
    DetectAudioDevices |-> {"deviceName"},
    Delete |-> {"com"},
    NewLogonTask |-> {"com"},
    NewTimeTask |-> {"com", "pSettings", "pTrigger"},
    Detect |-> {"callers_com"}]

\* These say true when nothing was done: a process that was not started, a task
\* that was not registered, modules that were not listed, a picture or an archive
\* that was not written, a process whose DPI was not set, a rule that was not
\* removed, a parent, a path or a command line that was not found out.
SayTrueRegardless == {"StartProcessInWorkDir", "NewTimeTask", "IsDllInjected",
                      "DebugOutDDS", "ZipFolder", "DontCareDPI",
                      "RemoveProgramFromFirewall", "GetParentPid",
                      "GetProcessNameByPid", "GetProcessCommandLineA"}

-----------------------------------------------------------------------------
\* Whatever fails, and in whatever combination, a function that returns has given
\* back every handle, token, COM object, lock and buffer it took, but those listed.
NothingLeaks == result # "none" => held \cup lost \subseteq Excused(Leaks)

\* Nothing is used, waited on or released that is not open, or twice, but what is
\* listed; and a child's output is not read while this process holds its other end
\* open, which would never end.
NothingMisused == misused \subseteq Excused(Misuses)

\* "true" is not said, but by those listed, unless the call the function is for
\* has succeeded: that the task of the name was deleted does not count.
TrueMeansDone ==
    result = "true" /\ call \notin SayTrueRegardless => did \ {"old task deleted"} # {}
=============================================================================
