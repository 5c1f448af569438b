------------------------------ MODULE OsDesktop ------------------------------
(***************************************************************************)
(* Windows, desktops, rules, devices and textures: win_helper.cpp,          *)
(* firewall_helper.cpp, audio_device_helper.cpp, dxgi_mon_detector.cpp,     *)
(* process_cmdline.cpp, d3d_debug_helper.cpp, d3d_render.cc and the crash   *)
(* filter of dump_helper.cpp, in the steps of OsCalls.  What a smart        *)
(* pointer gives back stands at every way out of its scope.                 *)
(***************************************************************************)
EXTENDS OsCalls

CloseAll(hs) == [i \in 1 .. Len(hs) |-> Close(hs[i])]
Answer(hs, e) ==        \* give hs back and say whether e took place
    Either(<<Do(e)>> \o CloseAll(hs) \o <<Return("true")>>, CloseAll(hs) \o <<Return("false")>>)

-----------------------------------------------------------------------------
\* win_helper.cpp

\* A failed enumeration is logged, and the answer "not injected" is as good as any.
IsDllInjected ==
    <<Take({"hnd_process"}, <<>>, "false"), Try(<<"hnd_process">>, "false"),
      When(<<Close("hnd_process"), Do("known"), Return("true")>>),
      When(<<Do("known"), Loop(<<Use("hnd_process"), When(<<Break>>)>>)>>),
      Close("hnd_process"), Return("true")>>

AskArch(r) ==
    <<Take({"hnd_process"}, <<>>, r), Try(<<"hnd_process">>, r), Close("hnd_process")>>

IsX86Arch == AskArch("false") \o <<Do("known"), Return("true")>>

\* It returns what it began with, whether the injector ran or not.
InjectDll ==
    AskArch("false")
    \o <<Once(<<TakeElse({"hProcess", "hThread"}, <<Break>>), Do("injector"),
                Use("hProcess"), Close("hProcess"), Close("hThread")>>),
         Return("false")>>

GetPathByHwnd ==
    <<Try(<<>>, "false"), Take({"handle"}, <<>>, "false"), Use("handle"),
      Answer(<<"handle">>, "known")>>

GetExeName ==
    <<Take({"handle"}, <<>>, "false"), Use("handle"), Try(<<"handle">>, "false"),
      Answer(<<"handle">>, "known")>>

\* True as well when the library is not there, or the setting was refused.
DontCareDPI ==
    <<May({"shCore"}),
      If("shCore", <<Either(<<When(<<Do("dpi")>>), Close("shCore"), Return("true")>>,
                            <<Close("shCore"), Return("false")>>)>>,
         <<Return("true")>>)>>

InputDesktopSelected ==
    <<Take({"input"}, <<>>, "false"), Try(<<"input">>, "false"), Use("input"),
      Try(<<"input">>, "false"), Answer(<<"input">>, "known")>>

\* SwitchToDesktop: the thread has the new desktop, the old one is closed.
SelectInputDesktop ==
    <<Take({"desktop"}, <<>>, "false"), Try(<<"desktop">>, "false"), Do("desktop"),
      Use("desktop"), Keep("desktop"), Return("true")>>

IsSessionLocked ==
    <<Take({"buffer"}, <<>>, "false"), Use("buffer"), Answer(<<"buffer">>, "known")>>

-----------------------------------------------------------------------------
\* firewall_helper.cpp

\* The life of the one instance: COM is closed whether or not it was opened.
FirewallHelper ==
    <<May({"com"}), If("com", <<May({"fw_policy2"})>>, <<>>), Close("com"), Return("")>>

\* AddProgramToFirewall and AddPortToFirewall: a rule of the name is left as it
\* is; else one is made, and the item is released even if it was not made.
AddToFirewall ==
    LET items == CloseAll(<<"fw_rule_item", "fw_rules">>)
    IN  <<Try(<<>>, "false"), Take({"fw_rules"}, <<>>, "false"),
          Once(<<TakeElse({"fw_rule_item"}, <<Break>>), Do("rule")>>
               \o items \o <<Return("true")>>),
          May({"fw_rule_item"}),
          If("fw_rule_item",
             <<May({"All"}),
               When(<<Use("fw_rule_item"), Do("rule")>> \o items \o <<Return("true")>>)>>,
             <<>>)>>
        \o items \o <<Return("false")>>

\* As long as there is a rule of the name it is removed, and the answer is whether
\* there was one: what Remove said is not looked at, and if it fails each time the
\* loop does not end.
RemoveProgramFromFirewall ==
    <<Try(<<>>, "false"), Take({"fw_rules"}, <<>>, "false"),
      TakeElse({"fw_rule_item"}, <<Close("fw_rules"), Return("false")>>),
      Close("fw_rule_item"), When(<<Do("removed")>>),
      Loop(<<TakeElse({"fw_rule_item"}, <<Break>>),
             Close("fw_rule_item"), When(<<Do("removed")>>)>>),
      Close("fw_rules"), Return("true")>>

GetErrorMessage == <<May({"errorMessageBuffer"}), Free("errorMessageBuffer"), Return("text")>>

-----------------------------------------------------------------------------
\* audio_device_helper.cpp
DetectAudioDevices ==
    LET all == <<"pDeviceCollection", "pEnumerator", "com">>
    IN  <<Take({"com"}, <<>>, "list"), Take({"pEnumerator"}, <<"com">>, "list"),
          Take({"pDeviceCollection"}, <<"pEnumerator", "com">>, "list"), Try(all, "list"),
          Loop(<<TakeElse({"pDevice"}, <<Continue>>),
                 TakeElse({"deviceId"}, <<Close("pDevice"), Continue>>), Use("deviceId"),
                 TakeElse({"pPropertyStore"}, <<Close("pDevice"), Continue>>),
                 May({"deviceName"}), Use("deviceName"), Free("deviceName"),
                 Close("pPropertyStore"), Free("deviceId"), Close("pDevice")>>),
          Once(<<TakeElse({"pDefaultDevice"}, <<Break>>), May({"defaultDeviceId"}),
                 Free("defaultDeviceId"), Close("pDefaultDevice")>>)>>
        \o CloseAll(all) \o <<Return("list")>>

\* dxgi_mon_detector.cpp
DetectAdapters ==
    <<Take({"pFactory"}, <<>>, ""),
      Loop(<<TakeElse({"tmp_adapter"}, <<Break>>),
             Loop(<<May({"dxgi_output"}),
                    If("dxgi_output", <<Use("tmp_adapter"), Use("dxgi_output")>>, <<>>),
                    Free("dxgi_output")>>),
             Free("tmp_adapter")>>),
      Free("pFactory"), Return("")>>

\* process_cmdline.cpp
\* Asked for its length and then for itself, a command line that has grown in
\* between is not copied, and the buffer is answered as it is.
GetProcessCommandLineA ==
    <<Try(<<>>, "false"), Take({"lpLocalBuffer"}, <<>>, "false"), Use("lpLocalBuffer"),
      Either(<<When(<<Do("known")>>), Free("lpLocalBuffer"), Return("true")>>,
             <<Free("lpLocalBuffer"), Return("false")>>)>>

-----------------------------------------------------------------------------
\* d3d_debug_helper.cpp

\* A picture that could not be saved is logged, and counts as saved.
DebugOutDDS ==
    <<Either(<<When(<<Do("saved")>>), Return("true")>>, <<Return("false")>>)>>

\* Mutant: the mutex is released at the end, without a guard.
CopyWithoutGuard ==
    <<Take({"key_mutex"}, <<>>, "false"), Take({"sync"}, <<"key_mutex">>, "false"),
      Free("key_mutex"),
      When(<<Try(<<>>, "false")>>), Use("sync"), Do("copied"), When(<<Do("saved")>>),
      Free("sync"), Return("true")>>

\* The keyed mutex is the texture's lock: no way out may keep it.
CopyID3D11Texture2D ==
    <<Take({"key_mutex"}, <<>>, "false"), Take({"sync"}, <<"key_mutex">>, "false"),
      Free("key_mutex"),
      When(<<Try(<<"sync">>, "false")>>), Use("sync"), Do("copied"), When(<<Do("saved")>>),
      Free("sync"), Return("true")>>

\* d3d_render.cc, with a texture to open on the adapter or without.
CreateRender ==
    LET undo == <<"ctx", "device", "adapterPtr">>
    IN  <<Take({"factory"}, <<>>, "null"),
          Loop(<<TakeElse({"adapterPtr"}, <<Break>>),
                 TakeElse({"device", "ctx"}, <<Free("adapterPtr"), Continue>>), Use("device"),
                 When(<<TakeElse({"texture"}, CloseAll(undo) \o <<Continue>>), Keep("texture")>>),
                 Keep("device"), Keep("ctx"), Free("adapterPtr"), Free("factory"),
                 Return("render")>>),
          Free("factory"), Return("null")>>

\* dump_helper.cpp: the filter of the process that crashes.
UnhandledExceptionFilter ==
    <<Take({"hFile"}, <<>>, ""), May({"hModule"}),
      If("hModule", <<When(<<Use("hFile"), Do("dump")>>)>>, <<>>),
      Close("hFile"), Return("")>>

DesktopFunctions == [
    IsDllInjected |-> IsDllInjected,
    IsX86Arch |-> IsX86Arch,
    InjectDll |-> InjectDll,
    GetPathByHwnd |-> GetPathByHwnd,
    GetExeName |-> GetExeName,
    DontCareDPI |-> DontCareDPI,
    InputDesktopSelected |-> InputDesktopSelected,
    SelectInputDesktop |-> SelectInputDesktop,
    IsSessionLocked |-> IsSessionLocked,
    FirewallHelper |-> FirewallHelper,
    AddToFirewall |-> AddToFirewall,
    RemoveProgramFromFirewall |-> RemoveProgramFromFirewall,
    GetErrorMessage |-> GetErrorMessage,
    DetectAudioDevices |-> DetectAudioDevices,
    DetectAdapters |-> DetectAdapters,
    GetProcessCommandLineA |-> GetProcessCommandLineA,
    DebugOutDDS |-> DebugOutDDS,
    CopyID3D11Texture2D |-> CopyID3D11Texture2D,
    CreateRender |-> CreateRender,
    UnhandledExceptionFilter |-> UnhandledExceptionFilter]
=============================================================================
