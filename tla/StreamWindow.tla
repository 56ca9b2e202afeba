---------------------------- MODULE StreamWindow ----------------------------
(***************************************************************************)
(* The stream window and the gamepads, src/src/client/stream_window.cpp,   *)
(* all on the session's worker.  SDL (external) numbers every pad that is  *)
(* plugged in anew (its instance), keeps the pads in a list that closes up *)
(* when one leaves, and queues an event for each: ADDED with the place in  *)
(* the list, REMOVED with the instance.  The list may have moved on before *)
(* an event is handled.                                                    *)
(***************************************************************************)
EXTENDS Naturals, Sequences

CONSTANTS
    Slots,          \* 4 in the code
    MaxPads         \* bound: pads plugged in

ASSUME WindowAssumption == Slots \in Nat /\ MaxPads \in Nat

VARIABLES
    sdl,            \* what create() made of "sdl", "window", "renderer"
    pads,           \* pads_[i]: the instance opened in slot i, 0 for none
    quit,           \* quit_
    devices,        \* SDL: the pads plugged in, in its order
    events,         \* SDL: the events not handled yet
    plugged         \* SDL: instances given out so far

windowVars == <<sdl, pads, quit, devices, events, plugged>>

Event(type, which) == [type |-> type, which |-> which]

WindowInit ==
    /\ sdl = {} /\ pads = [i \in 0 .. Slots - 1 |-> 0] /\ quit = FALSE
    /\ devices = <<>> /\ events = <<>> /\ plugged = 0

\* create: in this order, up to the first that fails; pads that are there
\* already are announced like new ones.
CreateWindow(reached) ==
    /\ reached \in {{}, {"sdl"}, {"sdl", "window"}, {"sdl", "window", "renderer"}}
    /\ sdl' = reached
    /\ UNCHANGED <<pads, quit, devices, events, plugged>>

\* Mutated form of Removed: the event's number is taken for a place.
RemovedByPlace(which) == [pads EXCEPT ![which - 1] = 0]

\* Every slot that has the joystick of that instance is closed.
Removed(which) == [i \in DOMAIN pads |-> IF pads[i] = which THEN 0 ELSE pads[i]]

\* SDL_GameControllerOpen(idx) into the slot of that number, if it is free:
\* whatever is at that place now, null if nothing is.
Added(idx) ==
    IF idx < Slots /\ pads[idx] = 0
    THEN [pads EXCEPT ![idx] = IF idx < Len(devices) THEN devices[idx + 1] ELSE 0]
    ELSE pads

\* One turn of pump()'s loop.
PumpEvent ==
    /\ events # <<>>
    /\ LET ev == Head(events)
       IN  /\ quit' = (quit \/ ev.type = "QUIT")
           /\ pads' = CASE ev.type = "ADDED"   -> Added(ev.which)
                        [] ev.type = "REMOVED" -> Removed(ev.which)
                        [] OTHER               -> pads
    /\ events' = Tail(events)
    /\ UNCHANGED <<sdl, devices, plugged>>

DestroyWindow ==
    /\ sdl' = {} /\ pads' = [i \in DOMAIN pads |-> 0]
    /\ UNCHANGED <<quit, devices, events, plugged>>

-----------------------------------------------------------------------------
(* The user                                                                *)

PlugIn ==
    /\ plugged < MaxPads
    /\ plugged' = plugged + 1
    /\ devices' = Append(devices, plugged + 1)
    /\ events' = Append(events, Event("ADDED", Len(devices)))
    /\ UNCHANGED <<sdl, pads, quit>>

Unplug(i) ==
    /\ devices' = SubSeq(devices, 1, i - 1) \o SubSeq(devices, i + 1, Len(devices))
    /\ events' = Append(events, Event("REMOVED", devices[i]))
    /\ UNCHANGED <<sdl, pads, quit, plugged>>

CloseWindow ==
    /\ ~\E i \in 1 .. Len(events) : events[i].type = "QUIT"
    /\ ~quit
    /\ events' = Append(events, Event("QUIT", 0))
    /\ UNCHANGED <<sdl, pads, quit, devices, plugged>>

User == PlugIn \/ (\E i \in 1 .. Len(devices) : Unplug(i)) \/ CloseWindow

-----------------------------------------------------------------------------
(* Properties                                                              *)

InDevices(d) == \E i \in 1 .. Len(devices) : devices[i] = d

\* Once pump() has handled all events, no slot holds a pad that is gone: the host
\* is never sent the state of a pad nobody holds, although ADDED and REMOVED
\* name pads in different ways and the list moves before they are handled.
NoGhostPads == events = <<>> => \A i \in DOMAIN pads : pads[i] # 0 => InDevices(pads[i])
=============================================================================
