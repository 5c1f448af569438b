----------------------------- MODULE OsServices ------------------------------
(***************************************************************************)
(* Start-up entries and scheduled tasks, the hardware survey, ciphers,      *)
(* archives and pictures: auto_start.cpp, hardware.cpp, tc_aes.cpp,         *)
(* zip_util.cpp, cpu_frequency.cpp, image.cpp and FolderUtil's              *)
(* GetProgramDataPath, in the steps of OsCalls.                             *)
(***************************************************************************)
EXTENDS OsDesktop

Must(hs, other) == <<TakeElse(hs, other)>>
Holds(other) == <<TakeElse({}, other)>>     \* a call that yields nothing

\* x is asked of y, and y is released before the answer is looked at.
Through(y, x, other) == <<May({x}), Close(y), If(x, <<>>, other)>>

-----------------------------------------------------------------------------
\* auto_start.cpp
SetAutoStartInternal ==
    <<Take({"hKey"}, <<>>, ""), Use("hKey"), When(<<Do("entry")>>), Close("hKey"), Return("")>>

\* AutoStart(): what comes after a call that failed stays unset.
Scheduler ==
    <<May({"com"}),
      If("com", <<May({"m_lpITS"}),
                  If("m_lpITS", <<When(<<May({"m_lpRootFolder"})>>)>>, <<>>)>>, <<>>)>>

\* What is given back before the call returns r and ~AutoStart() follows.
Out(hs, r) ==
    CloseAll(hs) \o <<Free("m_lpITS"), Free("m_lpRootFolder"), Close("com"), Return(r)>>

NeedsRoot == <<If("m_lpRootFolder", <<>>, Out(<<>>, "false"))>>

Delete == NeedsRoot \o Holds(Out(<<>>, "false")) \o <<Do("deleted")>> \o Out(<<>>, "true")

\* A task of the name is deleted first.
DropOld == <<When(<<Do("old task deleted")>>)>>

NewLogonTask ==
    LET Fails == Out(<<>>, "false")
    IN  NeedsRoot \o DropOld
        \o Must({"pTaskDefinition"}, Fails)
        \o Must({"pRegInfo"}, Fails) \o Holds(Fails) \o <<Close("pRegInfo")>>
        \o Must({"pPrincipal"}, Fails) \o <<Close("pPrincipal")>>
        \o Must({"pSettting"}, Fails) \o <<Close("pSettting")>>
        \o Must({"pActionCollect"}, Fails) \o Must({"pAction"}, Fails)
        \o <<Close("pActionCollect")>>
        \o Must({"pExecAction"}, Out(<<"pAction">>, "false"))
        \o CloseAll(<<"pAction", "pExecAction">>)
        \o Must({"pTriggers"}, Fails) \o Must({"pTrigger"}, Fails)
        \o Must({"pRegisteredTask"}, Out(<<"pTaskDefinition">>, "false"))
        \o <<Do("task")>> \o Out(<<"pTaskDefinition", "pRegisteredTask">>, "true")

\* NewTimeTask, in its parts.  Failing, it closes COM, which the object closes
\* again, and returns 1.
TimeFails == Out(<<"pTask", "com">>, "true")

TimeTaskSettings ==
    Must({"pTask"}, Out(<<"com">>, "true"))
    \o Must({"pRegInfo"}, TimeFails) \o <<Close("pRegInfo")>> \o Holds(TimeFails)
    \o Must({"pPrincipal"}, TimeFails) \o <<Close("pPrincipal")>> \o Holds(TimeFails)
    \o Must({"pSettings"}, TimeFails) \o <<Close("pSettings")>> \o Holds(TimeFails)
    \o <<Use("pSettings")>>
    \o Must({"pIdleSettings"}, TimeFails) \o <<Close("pIdleSettings")>> \o Holds(TimeFails)

TimeTaskTrigger ==
    LET NoBoundary == Out(<<"pTimeTrigger", "pTrigger">>, "false")
    IN  Must({"pTriggerCollection"}, TimeFails)
        \o Through("pTriggerCollection", "pTrigger", TimeFails)
        \o Through("pTrigger", "pTimeTrigger", TimeFails)
        \o Holds(NoBoundary) \o Holds(NoBoundary)

TimeTaskAction ==
    Must({"pActionCollection"}, TimeFails)
    \o Through("pActionCollection", "pAction", TimeFails)
    \o Through("pAction", "pExecAction", TimeFails)
    \o <<Close("pExecAction")>> \o Holds(TimeFails)
    \o Must({"pRegisteredTask"}, TimeFails)
    \o <<Do("task")>> \o Out(<<"pTask", "pRegisteredTask">>, "true")

NewTimeTask == NeedsRoot \o DropOld \o TimeTaskSettings \o TimeTaskTrigger \o TimeTaskAction

-----------------------------------------------------------------------------
\* hardware.cpp

\* Detect: the processor, disks and drivers that are asked for, and the graphics
\* cards, are asked of one service.  Every property of a row is a variant of its
\* own, cleared however the reading of it ends.
Services == <<"pSvc", "pLoc", "com">>
Ends(hs, r) == CloseAll(hs) \o <<Return(r)>>
Fail(hs) == Ends(hs, "-1")
Query(r) == Must({"pEnumerator"}, Ends(Services, r))
Rows(last) ==
    <<Loop(<<Use("pEnumerator"), TakeElse({"pclsObj"}, <<Break>>),
             Loop(<<May({"vtProp"}), Free("vtProp")>>)>> \o last \o <<Close("pclsObj")>>)>>

Connect ==
    <<Close("callers_com")>>
    \o Must({"com"}, Fail(<<>>)) \o Holds(Fail(<<"com">>))
    \o Must({"pLoc"}, Fail(<<"com">>)) \o Must({"pSvc"}, Fail(<<"pLoc", "com">>))
    \o Holds(Fail(Services))

Processors == <<When(Query("-1") \o Rows(<<>>))>>
Disks == <<When(Query("-1") \o Rows(<<>>))>>
Drivers == <<When(Query("-1") \o Rows(<<>>))>>

\* A query for the cards that failed is answered with 1.  A virtual card is passed
\* over with its row in hand.
Cards == Query("1") \o Rows(<<When(<<Continue>>)>>)

Detect ==
    Connect \o Processors \o Disks \o Drivers \o Cards
    \o CloseAll(<<"pSvc", "pLoc", "pEnumerator", "com">>)
    \o <<Do("detected"), Return("0")>>

\* AcquirePermissionForRestartDevice, RestartDevice and ShutdownDevice.
RestartDevice ==
    <<Once(<<TakeElse({"hToken"}, <<Break>>), Use("hToken")>>), When(<<Do("exit")>>), Return("")>>

-----------------------------------------------------------------------------
\* tc_aes.cpp: EncryptInit, Update and Final; an input that is no input is refused.
AesCipher ==
    <<Try(<<>>, "false"), Take({"ctx"}, <<>>, "false"), Try(<<"ctx">>, "false"),
      Try(<<"ctx">>, "false"), Try(<<"ctx">>, "false"), Do("text"), Free("ctx"),
      Return("true")>>

\* zip_util.cpp: an exception among the files skips the finalizing, and the answer
\* is whether the file has any bytes.
ZipFolder ==
    <<Take({"zip_archive"}, <<>>, "false"),
      Once(<<Loop(<<Use("zip_archive"), When(<<Break>>)>>), When(<<Break>>),
             When(<<Do("archive")>>)>>),
      Close("zip_archive"), Either(<<Return("true")>>, <<Return("false")>>)>>

\* cpu_frequency.cpp
GetCurrentCpuSpeed ==
    <<Take({"query"}, <<>>, "-1"), Try(<<>>, "-1"), Try(<<>>, "-1"), Use("query"),
      Try(<<>>, "-1"), Try(<<>>, "-1"), Close("query"), Return("speed")>>

\* image.cpp: the picture is copied out of the decoder's buffer.
DecodeImage == <<Take({"buffer"}, <<>>, ""), Use("buffer"), Do("copied"), Return("")>>

\* folder_util.cpp
GetProgramDataPath ==
    <<Take({"publicPath"}, <<>>, ""), Use("publicPath"), Free("publicPath"),
      When(<<Do("folder")>>), Return("path")>>

ServiceFunctions == [
    SetAutoStartInternal |-> SetAutoStartInternal,
    Delete |-> Scheduler \o Delete,
    NewLogonTask |-> Scheduler \o NewLogonTask,
    NewTimeTask |-> Scheduler \o NewTimeTask,
    Detect |-> Detect,
    RestartDevice |-> RestartDevice,
    AesCipher |-> AesCipher,
    ZipFolder |-> ZipFolder,
    GetCurrentCpuSpeed |-> GetCurrentCpuSpeed,
    DecodeImage |-> DecodeImage,
    GetProgramDataPath |-> GetProgramDataPath]
=============================================================================
