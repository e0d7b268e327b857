--------------------------- MODULE PresentDevice ---------------------------
(***************************************************************************)
(* The fullscreen side of DRIPresent (present.c): present_create,          *)
(* SetPresentParameters, Release and the messages nine_wndproc passes on.  *)
(*                                                                         *)
(* A call is cut where a message can be dispatched in the middle of it:    *)
(* after the focus window was acquired (SetWindowPos sends messages that   *)
(* are not filtered), while ChangeDisplaySettingsExW tells the windows of  *)
(* the new mode (it may dispatch other messages, too, before it returns),  *)
(* and after the mode was set.  Sections that run with filter_messages set *)
(* let only WM_DISPLAYCHANGE through and are one step, with the change of  *)
(* mode and its WM_DISPLAYCHANGE in it.                                    *)
(* Left out: position and z-order of windows, formats, buffer counts.      *)
(***************************************************************************)
EXTENDS WndProcTable, Naturals

CONSTANTS
  NoWindow, Sizes, NoSize,   \* NoSize: a width or a height of zero
  Rates,                     \* refresh rates; 0: none asked for
  Desktop,                   \* the mode in the registry
  Kinds,                     \* of devices: TRUE for IDirect3D9Ex
  Focuses,                   \* focus windows given to present_create
  Requests,                  \* presentation parameters the driver passes
  Outcomes,                  \* of ChangeDisplaySettingsExW and its retry
  Failures,                  \* calls that may fail: "memory", "present", "backend"
  Environment,               \* what else happens: "destroy", "subclass", "thirdparty", "refresh"
  Dispatch                   \* positions of a call at which messages are dispatched

Modes == [size : Sizes, rate : Rates]
Asked == [size : Sizes \cup {NoSize}, rate : Rates \cup {0}]
Params == [windowed : BOOLEAN, size : Sizes \cup {NoSize}, rate : Rates \cup {0},
           window : Windows \cup {NoWindow}]
PCs == {"idle", "cmode", "cset", "cend", "rmode", "rset", "rend"}

ASSUME DeviceAssumption ==
  /\ NoWindow \notin Windows /\ NoSize \notin Sizes /\ Rates \subseteq Nat \ {0}
  /\ Desktop \in Modes
  /\ Focuses \subseteq Windows \cup {NoWindow}
  /\ Requests \subseteq Params
  /\ Outcomes \subseteq {"ok", "norate", "fail", "unknown"}
  /\ Kinds \subseteq BOOLEAN /\ Dispatch \subseteq PCs

VARIABLES
  (* the system *)
  mode, screensaver,
  winStyle,              \* "framed", or "bare": the style of a fullscreen window
  (* struct DRIPresent *)
  life,                  \* of the record: "leaked" is nobody's and never freed
  ex,
  focus,                 \* focus_wnd
  initial,               \* initial_mode
  wrapped,               \* wrapped_wnd
  restoreSaver,          \* restore_screensaver
  style,                 \* style and style_ex, "none" for zero
  windowed, size, rate, devWin,   \* params
  mismatch, occluded, reapply,
  overtaken,             \* history: devices whose mode was replaced before their
                         \* call had noted that it is set
  (* the call in progress: where it is, its parameters; the last result *)
  pc, args, last

systemVars == <<mode, screensaver, winStyle>>
paramVars == <<windowed, size, rate, devWin>>
flagVars == <<mismatch, occluded, reapply, overtaken>>
focusVars == <<wrapped, restoreSaver>>
callVars == <<pc, args, last>>
vars == <<tableVars, systemVars, life, ex, focus, initial, focusVars, style,
          paramVars, flagVars, callVars>>

Valid(d) == life[d] \in {"creating", "live", "leaked"}

TypeOK ==
  /\ TableTypeOK
  /\ mode \in Modes /\ screensaver \in BOOLEAN
  /\ winStyle \in [Windows -> {"framed", "bare"}]
  /\ life \in [Devices -> {"none", "creating", "live", "leaked", "freed"}]
  /\ ex \in [Devices -> BOOLEAN]
  /\ focus \in [Devices -> Windows \cup {NoWindow}]
  /\ initial \in [Devices -> Asked]
  /\ wrapped \in [Devices -> Windows \cup {NoWindow}]
  /\ restoreSaver \in [Devices -> BOOLEAN]
  /\ style \in [Devices -> {"none", "framed", "bare"}]
  /\ windowed \in [Devices -> BOOLEAN]
  /\ size \in [Devices -> Sizes \cup {NoSize}]
  /\ rate \in [Devices -> Rates \cup {0}]
  /\ devWin \in [Devices -> Windows \cup {NoWindow}]
  /\ mismatch \in [Devices -> BOOLEAN]
  /\ occluded \in [Devices -> BOOLEAN]
  /\ reapply \in [Devices -> BOOLEAN]
  /\ overtaken \subseteq Devices
  /\ pc \in [Devices -> PCs]
  /\ args \in [Devices -> Params]
  /\ last \in [Devices -> {"none", "ok", "failed"}]

NoParams == [windowed |-> FALSE, size |-> NoSize, rate |-> 0, window |-> NoWindow]

Init ==
  /\ TableInit
  /\ mode = Desktop /\ screensaver = TRUE
  /\ winStyle = [w \in Windows |-> "framed"]
  /\ life = [d \in Devices |-> "none"]
  /\ ex = [d \in Devices |-> FALSE]
  /\ focus = [d \in Devices |-> NoWindow]
  /\ initial = [d \in Devices |-> Desktop]
  /\ wrapped = [d \in Devices |-> NoWindow]
  /\ restoreSaver = [d \in Devices |-> FALSE]
  /\ style = [d \in Devices |-> "none"]
  /\ windowed = [d \in Devices |-> FALSE]
  /\ size = [d \in Devices |-> NoSize]
  /\ rate = [d \in Devices |-> 0]
  /\ devWin = [d \in Devices |-> NoWindow]
  /\ mismatch = [d \in Devices |-> FALSE]
  /\ occluded = [d \in Devices |-> FALSE]
  /\ reapply = [d \in Devices |-> FALSE]
  /\ overtaken = {}
  /\ pc = [d \in Devices |-> "idle"]
  /\ args = [d \in Devices |-> NoParams]
  /\ last = [d \in Devices |-> "none"]

---------------------------------------------------------------------------
(* Display modes. *)

\* The current mode is what is asked for: nothing is changed.
Suits(m) == mode.size = m.size /\ (m.rate = 0 \/ mode.rate = m.rate)

\* What set_display_mode may do: result, mode afterwards, and the request,
\* which the retry without a refresh rate writes to.  When the current mode
\* cannot be read ("unknown") it changes nothing and reports success.
ModeResult(m, o) ==
  [ok |-> o # "fail",
   mode |-> CASE o = "ok" -> [size |-> m.size, rate |-> IF m.rate = 0 THEN Desktop.rate ELSE m.rate]
              [] o = "norate" -> [size |-> m.size, rate |-> Desktop.rate]
              [] OTHER -> mode,
   asked |-> IF o \in {"norate", "fail"} THEN [m EXCEPT !.rate = 0] ELSE m]

\* Mutant: an invalid resolution is not filtered.
ModeUnfiltered(m) ==
  IF Suits(m) THEN {[ok |-> TRUE, mode |-> mode, asked |-> m]} ELSE {ModeResult(m, "ok")}

set_display_mode(m) ==
  IF m.size = NoSize THEN {[ok |-> FALSE, mode |-> mode, asked |-> m]}
  ELSE IF Suits(m) THEN {[ok |-> TRUE, mode |-> mode, asked |-> m]}
  ELSE {ModeResult(m, o) : o \in {x \in Outcomes : x = "norate" => m.rate # 0}}

\* Mutant: the test for Ex is the wrong way round.
LostSwapped(d, s) == ex[d] /\ ~windowed[d] /\ devWin[d] # NoWindow /\ s # size[d]

\* WM_DISPLAYCHANGE: a fullscreen device that is not Ex compares the new
\* size with its own.
Lost(d, s) == ~ex[d] /\ ~windowed[d] /\ devWin[d] # NoWindow /\ s # size[d]

Receivers == {Receiver(w) : w \in Windows} \ {NoDevice}

\* resolution_mismatch after the receivers heard of mode m.
Heard(receivers, m) ==
  [d \in Devices |-> IF d \in receivers /\ m # mode THEN Lost(d, m.size) ELSE mismatch[d]]

\* The devices overtaken once the mode is m.
Overtaken(m) ==
  overtaken \cup {d \in Devices : pc[d] \in {"cset", "rset"} /\ m.size # mode.size}

---------------------------------------------------------------------------
(* The focus window. *)

\* nine_register_window may lack the memory for another entry.
Grows(w) == "memory" \in Failures /\ (w = NoWindow \/ ~Registered(w))

\* Mutant: the screen saver is asked for after it was switched off.
AcquireLate(d, w) ==
  /\ IF w = NoWindow THEN UNCHANGED <<table, wndproc>> ELSE nine_register_window(w, d)
  /\ wrapped' = [wrapped EXCEPT ![d] = w]
  /\ restoreSaver' = [restoreSaver EXCEPT ![d] = FALSE]
  /\ screensaver' = FALSE

\* The screen saver is switched off, and switched on again by the device
\* that found it on.  A driver that names no window gets an entry that no
\* message will ever ask for: it is left out.
acquire_focus_window(d, w) ==
  /\ IF w = NoWindow THEN UNCHANGED <<table, wndproc>> ELSE nine_register_window(w, d)
  /\ wrapped' = [wrapped EXCEPT ![d] = w]
  /\ restoreSaver' = [restoreSaver EXCEPT ![d] = screensaver]
  /\ screensaver' = FALSE

ReleasedTable(d) == IF wrapped[d] = NoWindow THEN table ELSE TableWithout(wrapped[d])
ReleasedProcs(d) == IF wrapped[d] = NoWindow THEN wndproc ELSE ProcsWithout(wrapped[d])

Unwrap(d) ==
  /\ table' = ReleasedTable(d)
  /\ wrapped' = [wrapped EXCEPT ![d] = NoWindow]
  /\ restoreSaver' = [restoreSaver EXCEPT ![d] = FALSE]
  /\ screensaver' = (screensaver \/ restoreSaver[d])

\* Mutant: wrapped_wnd is cleared before it is used.
ReleaseCleared(d) ==
  /\ wrapped' = [wrapped EXCEPT ![d] = NoWindow]
  /\ restoreSaver' = [restoreSaver EXCEPT ![d] = FALSE]
  /\ screensaver' = (screensaver \/ restoreSaver[d])
  /\ UNCHANGED <<table, wndproc>>

release_focus_window(d) == Unwrap(d) /\ wndproc' = ReleasedProcs(d)

\* setup_fullscreen_window saves the style and sets the fullscreen one.
setup_fullscreen_window(d, w) ==
  /\ style' = [style EXCEPT ![d] = winStyle[w]]
  /\ winStyle' = [winStyle EXCEPT ![w] = "bare"]

\* move_fullscreen_window sets it again; what was saved stays.
move_fullscreen_window(w) == winStyle' = [winStyle EXCEPT ![w] = "bare"]

\* restore_fullscreen_window puts the saved style back unless the window's
\* style is not the one setup_fullscreen_window made of it.
restore_fullscreen_window(d, w) ==
  /\ winStyle' = IF winStyle[w] = "bare" THEN [winStyle EXCEPT ![w] = style[d]] ELSE winStyle
  /\ style' = [style EXCEPT ![d] = "none"]

---------------------------------------------------------------------------
(* Calls. *)

Return(d, result) ==
  /\ pc' = [pc EXCEPT ![d] = "idle"]
  /\ args' = [args EXCEPT ![d] = NoParams]
  /\ last' = [last EXCEPT ![d] = result]

GoOn(d, to, p) ==
  /\ pc' = [pc EXCEPT ![d] = to]
  /\ args' = [args EXCEPT ![d] = p]
  /\ UNCHANGED last

\* present_create, up to the display mode.  Without the memory to register
\* the focus window the new record is not freed (1474).
CreateBegin(d, e, f, p) ==
  /\ life[d] = "none" /\ pc[d] = "idle"
  /\ f # NoWindow \/ p.window # NoWindow
  /\ LET w == IF p.window = NoWindow THEN f ELSE p.window
         q == [p EXCEPT !.window = w]
         fw == IF f = NoWindow THEN w ELSE f
     IN /\ ex' = [ex EXCEPT ![d] = e]
        /\ focus' = [focus EXCEPT ![d] = f]
        /\ initial' = [initial EXCEPT ![d] = mode]
        /\ \/ /\ p.windowed
              /\ life' = [life EXCEPT ![d] = "creating"]
              /\ GoOn(d, "cend", q)
              /\ UNCHANGED <<table, wndproc, focusVars, screensaver>>
           \/ /\ ~p.windowed
              /\ life' = [life EXCEPT ![d] = "creating"]
              /\ GoOn(d, "cmode", q)
              /\ acquire_focus_window(d, fw)
           \/ /\ ~p.windowed /\ Grows(fw)
              /\ life' = [life EXCEPT ![d] = "leaked"]
              /\ Return(d, "failed")
              /\ UNCHANGED <<table, wndproc, focusVars, screensaver>>
  /\ UNCHANGED <<appPrev, mode, winStyle, style, paramVars, flagVars>>

\* What follows once the mode is set: whatever was heard of it meanwhile,
\* there is no mismatch.
CreateSet(d) ==
  /\ mismatch' = [mismatch EXCEPT ![d] = FALSE]
  /\ setup_fullscreen_window(d, args[d].window)
  /\ GoOn(d, "cend", args[d])

\* The display mode.  The call is still in set_display_mode when a new mode
\* is there, and goes on at once when nothing was to be changed.
CreateMode(d) ==
  /\ pc[d] = "cmode"
  /\ \E r \in set_display_mode([size |-> args[d].size, rate |-> args[d].rate]) :
       /\ mode' = r.mode /\ overtaken' = Overtaken(r.mode)
       /\ \/ /\ r.ok /\ UNCHANGED <<table, wndproc, screensaver, focusVars, life>>
             /\ \/ r.mode = mode /\ CreateSet(d)
                \/ /\ r.mode # mode
                   /\ mismatch' = Heard(Receivers, r.mode)
                   /\ GoOn(d, "cset", args[d])
                   /\ UNCHANGED <<winStyle, style>>
          \/ /\ ~r.ok
             /\ release_focus_window(d)
             /\ life' = [life EXCEPT ![d] = "freed"]
             /\ Return(d, "failed")
             /\ UNCHANGED <<mismatch, winStyle, style>>
  /\ UNCHANGED <<appPrev, ex, focus, initial, paramVars, occluded, reapply>>

CreateModeReturns(d) ==
  /\ pc[d] = "cset"
  /\ CreateSet(d)
  /\ UNCHANGED <<tableVars, mode, screensaver, life, ex, focus, initial, focusVars, paramVars,
                 occluded, reapply, overtaken>>

\* The parameters are taken over, then PRESENTInit and the backend's init
\* may fail.  Neither undoes what was done before: the first leaves the
\* record to nobody, the second frees it (1518-1528).
CreateEnd(d) ==
  /\ pc[d] = "cend"
  /\ LET p == args[d]
     IN /\ windowed' = [windowed EXCEPT ![d] = p.windowed]
        /\ rate' = [rate EXCEPT ![d] = p.rate]
        /\ devWin' = [devWin EXCEPT ![d] = p.window]
        /\ \E s \in IF p.size = NoSize THEN Sizes ELSE {p.size} :
             size' = [size EXCEPT ![d] = s]
  /\ \E f \in {"none", "present", "backend"} \cap (Failures \cup {"none"}) :
       /\ life' = [life EXCEPT ![d] = CASE f = "none" -> "live" [] f = "present" -> "leaked"
                                        [] f = "backend" -> "freed"]
       /\ Return(d, IF f = "none" THEN "ok" ELSE "failed")
  /\ UNCHANGED <<tableVars, systemVars, ex, focus, initial, focusVars, style, flagVars>>

\* Mutant: reapply_mode is forgotten.
ChangedOnly(d, p) == size[d] # p.size \/ windowed[d] # p.windowed

\* The conditions of SetPresentParameters (815).
Changed(d, p) == size[d] # p.size \/ windowed[d] # p.windowed \/ reapply[d]

\* Takes the parameters over that are not part of the comparison.
TakeOver(d, p) ==
  /\ life[d] = "live" /\ pc[d] = "idle"
  /\ rate' = [rate EXCEPT ![d] = p.rate]
  /\ devWin' = [devWin EXCEPT ![d] = IF p.window = NoWindow THEN @ ELSE p.window]

Full(d, p) == [p EXCEPT !.window = IF @ = NoWindow THEN devWin[d] ELSE @]

\* SetPresentParameters when something changed, up to the display mode.
ResetBegin(d, p) ==
  /\ TakeOver(d, p)
  /\ Changed(d, p)
  /\ LET fw == IF focus[d] = NoWindow THEN p.window ELSE focus[d]
         enters == windowed[d] /\ ~p.windowed
     IN \/ /\ ~enters
           /\ GoOn(d, "rmode", Full(d, p))
           /\ UNCHANGED <<table, wndproc, focusVars, screensaver>>
        \/ /\ enters
           /\ acquire_focus_window(d, fw)
           /\ GoOn(d, "rmode", Full(d, p))
        \/ /\ enters /\ Grows(fw)
           /\ Return(d, "failed")
           /\ UNCHANGED <<table, wndproc, focusVars, screensaver>>
  /\ UNCHANGED <<appPrev, mode, winStyle, life, ex, focus, initial, style,
                 windowed, size, flagVars>>

ResetSet(d) ==
  /\ mismatch' = [mismatch EXCEPT ![d] = FALSE]
  /\ GoOn(d, "rend", args[d])

\* The display mode: the one asked for, or the initial one when the device
\* leaves fullscreen.  reapply_mode is cleared before (828); a failure
\* returns with everything else as it is.
ResetMode(d) ==
  /\ pc[d] = "rmode"
  /\ reapply' = [reapply EXCEPT ![d] = FALSE]
  /\ LET p == args[d]
     IN \/ /\ p.windowed /\ windowed[d]
           /\ GoOn(d, "rend", p)
           /\ UNCHANGED <<mode, mismatch, overtaken, initial>>
        \/ /\ ~(p.windowed /\ windowed[d])
           /\ \E r \in set_display_mode(IF p.windowed THEN initial[d]
                                        ELSE [size |-> p.size, rate |-> p.rate]) :
                /\ mode' = r.mode
                /\ overtaken' = Overtaken(r.mode) \ (IF r.ok THEN {d} ELSE {})
                /\ initial' = IF p.windowed THEN [initial EXCEPT ![d] = r.asked] ELSE initial
                /\ \/ r.ok /\ r.mode = mode /\ ResetSet(d)
                   \/ /\ r.ok /\ r.mode # mode
                      /\ mismatch' = Heard(Receivers, r.mode)
                      /\ GoOn(d, "rset", p)
                   \/ ~r.ok /\ Return(d, "failed") /\ UNCHANGED mismatch
  /\ UNCHANGED <<tableVars, screensaver, winStyle, life, ex, focus, focusVars, style,
                 paramVars, occluded>>

ResetModeReturns(d) ==
  /\ pc[d] = "rset"
  /\ ResetSet(d)
  /\ UNCHANGED <<tableVars, systemVars, life, ex, focus, initial, focusVars, style, paramVars,
                 occluded, reapply, overtaken>>

\* Mutant: the size is stored before it is known to be good.
ResizeEarly(d, p) ==
  /\ size' = [size EXCEPT ![d] = p.size]
  /\ Return(d, IF p.size = NoSize THEN "failed" ELSE "ok")

\* A size of zero is the client area's, which may be unreadable; a
\* fullscreen device has no such size.
Resize(d, p) ==
  \/ /\ p.size # NoSize
     /\ size' = [size EXCEPT ![d] = p.size]
     /\ Return(d, "ok")
  \/ /\ p.size = NoSize /\ p.windowed
     /\ \E s \in Sizes : size' = [size EXCEPT ![d] = s]
     /\ Return(d, "ok")
  \/ /\ p.size = NoSize
     /\ p.windowed => "client" \in Failures
     /\ UNCHANGED size
     /\ Return(d, "failed")

\* The window, the release of the focus window, and the sizes.
ResetEnd(d) ==
  /\ pc[d] = "rend"
  /\ LET p == args[d]
     IN /\ \/ /\ windowed[d] /\ ~p.windowed
              /\ setup_fullscreen_window(d, p.window)
           \/ /\ ~windowed[d] /\ p.windowed /\ style[d] # "none"
              /\ restore_fullscreen_window(d, p.window)
           \/ /\ windowed[d] = p.windowed \/ (p.windowed /\ style[d] = "none")
              /\ UNCHANGED <<winStyle, style>>
        /\ IF ~windowed[d] /\ p.windowed THEN release_focus_window(d)
           ELSE UNCHANGED <<table, wndproc, focusVars, screensaver>>
        /\ windowed' = [windowed EXCEPT ![d] = p.windowed]
        /\ Resize(d, p)
  /\ UNCHANGED <<appPrev, mode, life, ex, focus, initial, rate, devWin, flagVars>>

\* SetPresentParameters when size, Windowed and mode stay: a fullscreen
\* window is moved back and gets the fullscreen style again.
ResetUnchanged(d, p) ==
  /\ TakeOver(d, p)
  /\ ~Changed(d, p)
  /\ IF p.windowed THEN UNCHANGED winStyle ELSE move_fullscreen_window(Full(d, p).window)
  /\ Resize(d, p)
  /\ UNCHANGED <<tableVars, mode, screensaver, life, ex, focus, initial, focusVars, style,
                 windowed, flagVars>>

\* The last reference is gone: focus window and mode are given back.
Release(d) ==
  /\ life[d] = "live" /\ pc[d] = "idle"
  /\ life' = [life EXCEPT ![d] = "freed"]
  /\ release_focus_window(d) /\ UNCHANGED appPrev
  /\ \E r \in set_display_mode(initial[d]) :
       /\ mode' = r.mode /\ overtaken' = Overtaken(r.mode)
       /\ mismatch' = Heard(Receivers', r.mode)
  /\ UNCHANGED <<winStyle, ex, focus, initial, style, paramVars, occluded, reapply, callVars>>

---------------------------------------------------------------------------
(* Messages (device_process_message) and the application. *)

\* A message of the window reaches device d.
Dispatched(w, d) == Receiver(w) = d /\ Valid(d) /\ pc[d] \in Dispatch

\* WM_DESTROY gives the focus window back; the handle w may then name a new
\* window.
Destroy(w) ==
  /\ "destroy" \in Environment
  /\ \/ /\ Receiver(w) = NoDevice
        /\ wndproc' = [wndproc EXCEPT ![w] = "original"]
        /\ UNCHANGED <<table, screensaver, focusVars>>
     \/ \E d \in Devices :
          /\ Dispatched(w, d)
          /\ Unwrap(d)
          /\ wndproc' = [ReleasedProcs(d) EXCEPT ![w] = "original"]
  /\ appPrev' = [appPrev EXCEPT ![w] = "none"]
  /\ winStyle' = [winStyle EXCEPT ![w] = "framed"]
  /\ UNCHANGED <<mode, life, ex, focus, initial, style, paramVars, flagVars, callVars>>

\* WM_ACTIVATEAPP, the application loses the focus: the desktop's mode comes
\* back.
Deactivate(w, d) ==
  /\ Dispatched(w, d)
  /\ occluded' = [occluded EXCEPT ![d] = TRUE]
  /\ reapply' = [reapply EXCEPT ![d] = TRUE]
  /\ \E r \in set_display_mode(Desktop) :
       /\ mode' = r.mode /\ overtaken' = Overtaken(r.mode)
       /\ mismatch' = Heard(Receivers, r.mode)
  /\ UNCHANGED <<tableVars, screensaver, winStyle, life, ex, focus, initial, focusVars, style,
                 paramVars, callVars>>

\* WM_ACTIVATEAPP, the application has the focus again: an Ex device sets its
\* mode, another one waits for a reset.
Activate(w, d) ==
  /\ Dispatched(w, d)
  /\ occluded' = [occluded EXCEPT ![d] = FALSE]
  /\ \E r \in IF ex[d] THEN set_display_mode([size |-> size[d], rate |-> rate[d]])
              ELSE {[ok |-> TRUE, mode |-> mode]} :
       /\ mode' = r.mode /\ overtaken' = Overtaken(r.mode)
       /\ mismatch' = Heard(Receivers, r.mode)
  /\ UNCHANGED <<tableVars, screensaver, winStyle, life, ex, focus, initial, focusVars, style,
                 paramVars, reapply, callVars>>

\* Another program changes the mode, or with "refresh" no more than its
\* rate: WM_DISPLAYCHANGE comes from outside.
ThirdParty ==
  /\ {"thirdparty", "refresh"} \cap Environment # {}
  /\ \A d \in Devices : pc[d] \in Dispatch
  /\ \E m \in {m \in Modes \ {mode} : m.size # mode.size => "thirdparty" \in Environment} :
       /\ mode' = m /\ overtaken' = Overtaken(m)
       /\ mismatch' = Heard(Receivers, m)
  /\ UNCHANGED <<tableVars, screensaver, winStyle, life, ex, focus, initial, focusVars, style,
                 paramVars, occluded, reapply, callVars>>

Application(w) ==
  /\ "subclass" \in Environment
  /\ \A d \in Devices : pc[d] \in Dispatch
  /\ Subclass(w) \/ Unsubclass(w)
  /\ UNCHANGED <<systemVars, life, ex, focus, initial, focusVars, style, paramVars, flagVars, callVars>>

Next ==
  \/ \E d \in Devices :
       \/ \E e \in Kinds, f \in Focuses, p \in Requests : CreateBegin(d, e, f, p)
       \/ CreateMode(d) \/ CreateModeReturns(d) \/ CreateEnd(d)
       \/ \E p \in Requests : ResetBegin(d, p) \/ ResetUnchanged(d, p)
       \/ ResetMode(d) \/ ResetModeReturns(d) \/ ResetEnd(d)
       \/ Release(d)
       \/ \E w \in Windows : Deactivate(w, d) \/ Activate(w, d)
  \/ \E w \in Windows : Destroy(w) \/ Application(w)
  \/ ThirdParty

Spec == Init /\ [][Next]_vars

---------------------------------------------------------------------------
(* Properties. *)

\* What the comment of nine_dll_destroy (wndproc.c:63) says of the entries
\* that are left: either nine_unregister_window skipped one, which then names
\* no device, or the device is still there.  nine_wndproc would call a freed
\* device with the next message of the window.
EntriesLive ==
  \A w \in Windows : Registered(w) /\ table[w].present # NoDevice => Valid(table[w].present)

\* A fullscreen device that has a focus window gets its messages: resets,
\* failed ones too, destroyed windows and reused handles do not part the
\* wrapped window from its entry.  (Of one device: a second one that shares
\* the window takes the entry with it, wndproc.c:139.)
HearsMessages ==
  \A d \in Devices : Valid(d) /\ wrapped[d] # NoWindow =>
    Receiver(wrapped[d]) = d

\* Idle d = no call of the device is in progress.
Idle(d) == life[d] = "live" /\ pc[d] = "idle"

\* A fullscreen device whose mode is not on the display knows: an Ex device
\* is occluded and gets its mode back with the focus, another one reports
\* the mismatch until it is reset (present.c:390 "Ex restores display mode,
\* while non Ex requires the user to call Device::Reset()").  Not so when a
\* message that comes while its mode is being set, such as the loss of the
\* focus, replaces the mode again: the call then notes that there is no
\* mismatch (853, 868, 1498), and nobody tells the application.
ModeHeld ==
  \A d \in Devices : Idle(d) /\ ~windowed[d] /\ wrapped[d] # NoWindow =>
    \/ mode.size = size[d]
    \/ IF ex[d] THEN occluded[d] ELSE mismatch[d]
    \/ d \in overtaken

\* A reset that succeeds brings the requested resolution back (present.c:1347
\* "A device reset is required to restore the requested resolution"), with
\* the exception of ModeHeld.
ResetReturns(d) == ResetEnd(d) \/ \E p \in Requests : ResetUnchanged(d, p)

ResetRestores ==
  [][\A d \in Devices : ResetReturns(d) /\ last'[d] = "ok" /\ ~windowed'[d] =>
       d \in overtaken \/ (mode'.size = size'[d] /\ ~mismatch'[d])]_vars

\* In a window the device has no claim left: style and procedure are the
\* window's own, and no message comes to the device.
WindowedIsClean ==
  \A d \in Devices : Idle(d) /\ windowed[d] =>
    /\ wrapped[d] = NoWindow /\ ~restoreSaver[d] /\ style[d] = "none"
    /\ \A w \in Windows : winStyle[w] = "framed" /\ Receiver(w) # d

\* Without devices the display and the screen saver are what they were, and
\* while a device keeps the screen saver off it knows that it has to switch
\* it on again.
DesktopRestored ==
  /\ (\A d \in Devices : ~Valid(d)) => mode.size = Desktop.size
  /\ screensaver \/ \E d \in Devices : Valid(d) /\ restoreSaver[d]

\* The back buffer's size changes with a reset that succeeds and with no
\* other (present.c:928 "Set as last in case of failed reset those aren't
\* updated").
FailedKeepsSize ==
  [][\A d \in Devices : life[d] = "live" /\ size'[d] # size[d] => last'[d] = "ok"]_vars
=============================================================================
