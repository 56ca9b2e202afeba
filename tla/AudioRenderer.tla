--------------------------- MODULE AudioRenderer ---------------------------
(***************************************************************************)
(* The audio renderer, src/src/client/audio_renderer.cpp: an Opus decoder  *)
(* and an SDL audio device, opened by moonlight's init callback, used by   *)
(* its audio thread and closed by the session's worker.                    *)
(***************************************************************************)
VARIABLES
    opened,         \* what is open of "opus" (decoder_), "sdl" (sdlInited_), "device"
    playing         \* the audio thread is inside decode_and_play

audioVars == <<opened, playing>>

AudioInit == opened = {} /\ playing = FALSE

\* init: in this order, up to the first that fails; nothing is given back here.
OpenAudio(reached) ==
    /\ reached \in {{}, {"opus"}, {"opus", "sdl"}, {"opus", "sdl", "device"}}
    /\ opened' = reached
    /\ UNCHANGED playing

AudioReady == {"opus", "device"} \subseteq opened

\* decode_and_play: decode, queue, count; a bad packet is dropped.
PlayBegin == ~playing /\ AudioReady /\ playing' = TRUE /\ UNCHANGED opened
PlayEnd   == playing /\ playing' = FALSE /\ UNCHANGED opened

\* Mutated form of CleanupAudio: nothing to do without a device.
CleanupAudioEarlyReturn ==
    /\ opened' = IF "device" \in opened THEN {} ELSE opened
    /\ UNCHANGED playing

CleanupAudio == opened' = {} /\ UNCHANGED playing
=============================================================================
