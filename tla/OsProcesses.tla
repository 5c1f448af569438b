----------------------------- MODULE OsProcesses -----------------------------
(***************************************************************************)
(* Starting, finding and ending processes: process_util.cpp and             *)
(* win32/process_helper.cpp, in the steps of OsCalls.                       *)
(***************************************************************************)
EXTENDS OsCalls

Pi == {"hProcess", "hThread"}       \* what CreateProcess yields
ClosePi == <<Close("hProcess"), Close("hThread")>>

SetDpiAwarenessContext ==
    <<Take({"shCore"}, <<>>, "false"),
      Either(<<Do("dpi"), Close("shCore"), Return("true")>>,
             <<Close("shCore"), Return("false")>>)>>

StartProcessAndWait ==
    <<Take(Pi, <<>>, "false"), Do("started"), Use("hProcess")>> \o ClosePi
    \o <<Either(<<Return("false")>>, <<Return("true")>>)>>

StartProcess ==
    <<Take(Pi, <<>>, "0"), Do("started"),
      Either(<<Use("hProcess")>> \o ClosePi \o <<Return("0")>>,
             ClosePi \o <<Return("pid")>>)>>

\* Mutant: the write end of the pipe is closed after the reading.
OutputWriteHeld ==
    LET ends == <<"hStdOutRead", "hStdOutWrite">>
    IN  <<Take({"hStdOutRead", "hStdOutWrite"}, <<>>, "lines"), Try(ends, "lines"),
          Take(Pi, ends, "lines"), Do("started"), Drain("hStdOutRead", "hStdOutWrite"),
          Close("hStdOutWrite"), Use("hProcess"), Close("hStdOutRead")>>
        \o ClosePi \o <<Return("lines")>>

StartProcessAndOutput ==
    LET ends == <<"hStdOutRead", "hStdOutWrite">>
    IN  <<Take({"hStdOutRead", "hStdOutWrite"}, <<>>, "lines"), Try(ends, "lines"),
          Take(Pi, ends, "lines"), Do("started"), Close("hStdOutWrite"),
          Drain("hStdOutRead", "hStdOutWrite"), Use("hProcess"), Close("hStdOutRead")>>
        \o ClosePi \o <<Return("lines")>>

\* Mutant: what TerminateProcess said is not looked at.
KilledAtAnyRate ==
    <<Take({"processHandle"}, <<>>, "false"), When(<<Do("killed")>>),
      Close("processHandle"), Return("true")>>

KillProcess ==
    <<Take({"processHandle"}, <<>>, "false"),
      Either(<<Do("killed"), Close("processHandle"), Return("true")>>,
             <<Close("processHandle"), Return("false")>>)>>

GetPidByExeName ==
    <<Take({"hProcessSnap"}, <<>>, "0"), Try(<<"hProcessSnap">>, "0"),
      Loop(<<Use("hProcessSnap"), When(<<Break>>)>>),
      Close("hProcessSnap"), Return("pid or 0")>>

\* The token goes to the caller; INVALID_HANDLE_VALUE or nullptr if there is none.
\* hToken begins as INVALID_HANDLE_VALUE, which its test before CloseHandle lets pass.
DuplicateToken ==
    <<Once(<<TakeElse({"hProcess"}, <<Break>>), TakeElse({"hToken"}, <<Break>>),
             TakeElse({"hDuplicatedToken"}, <<Break>>)>>),
      Free("hProcess"), Close("hToken")>>

DupAdminToken ==
    <<Try(<<>>, "token")>> \o DuplicateToken \o <<Keep("hDuplicatedToken"), Return("token")>>

\* Without an explorer the token is nullptr, which is not taken for a failure;
\* a failed CreateProcessWithTokenW is logged and forgotten; and all that could
\* have come of these calls is given back untested.
StartProcessInWorkDir ==
    <<Either(<<Either(<<>>, DuplicateToken
                            \o <<If("hDuplicatedToken", <<>>, <<Return("false")>>)>>),
               May({"lpEnvironment"}), Use("hDuplicatedToken"), May(Pi),
               Close("hDuplicatedToken"), Close("lpEnvironment")>>,
             <<Take(Pi, <<>>, "false")>>),
      If("hProcess", <<Do("started")>>, <<>>), Use("hProcess")>>
    \o ClosePi \o <<Return("true")>>

\* Without an active session, or when CreateProcessAsUserW fails, and at the end,
\* not everything is given back.
StartProcessInSameUser ==
    LET tokens == <<"hTokenDup", "hToken">>
    IN  <<Take({"hToken"}, <<>>, "false"), Take({"hTokenDup"}, <<"hToken">>, "false"),
          Try(<<>>, "false"), Try(tokens, "false"), Take({"pEnv"}, tokens, "false"),
          Take(Pi, tokens, "false"), Do("started"), When(<<Use("hProcess")>>),
          Close("pEnv"), Close("hTokenDup"), Close("hToken"), Return("true")>>

\* The user's token, but for no process of the name: then TRUE and a token that was
\* never set, which the caller uses and, as it is not null, closes.
GetTokenByName(r) ==
    <<Take({"hProcessSnap"}, <<>>, r),
      Once(<<TakeElse({}, <<Close("hProcessSnap"), Return(r)>>),
             Loop(<<Use("hProcessSnap"),
                    When(<<May({"GetTokenByName.hProcess"}), Use("GetTokenByName.hProcess"),
                           TakeElse({"token"}, <<Close("hProcessSnap"), Return(r)>>), Break>>)>>)>>),
      Close("hProcessSnap")>>

StartProcessInCurrentUser ==
    <<Try(<<>>, "false"), Take({"hUserToken"}, <<>>, "false")>> \o GetTokenByName("false")
    \o <<Use("token"),
         TakeElse(Pi, <<Close("token"), Return("false")>>), Do("started"), Close("token")>>
    \o ClosePi \o <<Return("true")>>

StartProcessAsCurrentUser ==
    LET undo == <<"token_dup", "user_token">>
        end == <<Close("env"), Close("token_dup"), Close("user_token")>>
    IN  <<Try(<<>>, "0"), Take({"user_token"}, <<>>, "0"),
          Take({"token_dup"}, <<"user_token">>, "0"), Take({"env"}, undo, "0"),
          TakeElse(Pi, end \o <<Return("0")>>), Do("started")>>
        \o ClosePi \o end \o <<Return("pid")>>

GetThreadCount ==
    <<Take({"hSnapshot"}, <<>>, "0"),
      When(<<Use("hSnapshot"), Loop(<<Use("hSnapshot")>>)>>),
      Close("hSnapshot"), Return("count")>>

\* Memory is asked for anew until it is large enough.
PinToPerformanceCores ==
    <<Loop(<<Either(<<Break>>, <<When(<<Free("buffer"), Return("")>>), Free("buffer"),
                                 Take({"buffer"}, <<>>, "")>>)>>),
      Free("buffer"), When(<<Return("")>>), When(<<Do("affinity")>>), Return("")>>

RunAsAdminWithShell ==
    <<TakeElse({}, <<Return("false")>>), May({"hProcess"}), Do("started"),
      Free("hProcess"), Return("true")>>

-----------------------------------------------------------------------------
\* win32/process_helper.cpp
IsProcessX86Arch ==
    <<Take({"handle"}, <<>>, "false"), Try(<<"handle">>, "false"), Do("known"),
      Close("handle"), Return("true")>>

\* The second loop's handle has a guard that closes it on every way out.
GetProcessList ==
    <<Take({"hProcessSnap"}, <<>>, "list"), Loop(<<Use("hProcessSnap")>>),
      Close("hProcessSnap"),
      Loop(<<TakeElse({"handle"}, <<Continue>>), Use("handle"),
             Either(<<>>, <<Close("handle"), Continue>>),
             Use("handle"), Close("handle")>>),
      Return("list")>>

CloseProcess ==
    <<Take({"hProcess"}, <<>>, "false"),
      Either(<<Do("killed"), Close("hProcess"), Return("true")>>,
             <<Close("hProcess"), Return("false")>>)>>

\* A query that failed is answered like one that found no parent.
GetParentPid ==
    <<Take({"hProcess"}, <<>>, "false"), Use("hProcess"), When(<<Do("known")>>),
      Close("hProcess"), Return("true")>>

FindAllChildProcess ==
    <<Take({"hProcessSnap"}, <<>>, "list"),
      Loop(<<When(<<TakeElse({"hProcess"}, <<Continue>>), Close("hProcess")>>)>>),
      Close("hProcessSnap"), Return("list")>>

\* Whether the path was found as well as the name is not looked at.
GetProcessNameByPid ==
    <<Take({"processHandle"}, <<>>, "false"), Use("processHandle"), Try(<<>>, "false"),
      Use("processHandle"), When(<<Do("known")>>), Close("processHandle"), Return("true")>>

ProcessFunctions == [
    SetDpiAwarenessContext |-> SetDpiAwarenessContext,
    StartProcessAndWait |-> StartProcessAndWait,
    StartProcess |-> StartProcess,
    StartProcessAndOutput |-> StartProcessAndOutput,
    KillProcess |-> KillProcess,
    GetPidByExeName |-> GetPidByExeName,
    DupAdminToken |-> DupAdminToken,
    StartProcessInWorkDir |-> StartProcessInWorkDir,
    StartProcessInSameUser |-> StartProcessInSameUser,
    StartProcessInCurrentUser |-> StartProcessInCurrentUser,
    StartProcessAsCurrentUser |-> StartProcessAsCurrentUser,
    GetThreadCount |-> GetThreadCount,
    PinToPerformanceCores |-> PinToPerformanceCores,
    RunAsAdminWithShell |-> RunAsAdminWithShell,
    IsProcessX86Arch |-> IsProcessX86Arch,
    GetProcessList |-> GetProcessList,
    CloseProcess |-> CloseProcess,
    GetParentPid |-> GetParentPid,
    FindAllChildProcess |-> FindAllChildProcess,
    GetProcessNameByPid |-> GetProcessNameByPid]
=============================================================================
